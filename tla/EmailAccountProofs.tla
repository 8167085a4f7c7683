-------------------------- MODULE EmailAccountProofs --------------------------
(***************************************************************************)
(* What holds of EmailAccounts for any number of handlers, addresses,      *)
(* passwords and requests, and any limit.                                  *)
(***************************************************************************)
EXTENDS EmailAccounts, FiniteSetTheorems, TLAPS

Connecting == {"count", "verify", "first", "upsert"}

\* What a handler has in hand where it needs it.
HandsOK ==
  \A h \in Handler :
    /\ handler[h].pc \in Connecting =>
         handler[h].email \in Address /\ handler[h].password \in Password
    /\ handler[h].pc \in {"check", "send"} => handler[h].password \in Password
    /\ handler[h].pc \notin Connecting \cup {"idle", "promote"} => handler[h].id \in Id

PasswordsOK == \A i \in Connected : password[i] \in Password

TypeInv == TypeOK /\ HandsOK /\ PasswordsOK

\* A password that is about to be stored has been accepted.
VerifiedInv ==
  /\ \A h \in Handler :
       handler[h].pc \in {"first", "upsert"} => handler[h].password \in accepted
  /\ StoredWasVerified

\* A check is of the password its account holds, or was outrun.
CheckInv ==
  /\ \A h \in Handler :
       /\ handler[h].pc \in {"check", "send"} /\ handler[h].id \in Connected \ outrun
            => password[handler[h].id] = handler[h].password
       /\ handler[h].pc = "fail" /\ handler[h].id \in Connected \ outrun
            => password[handler[h].id] \in rejected
  /\ FailureIsOfThisPassword

-----------------------------------------------------------------------------
LEMMA OfferType == \A o \in Offer : o[1] \in Address /\ o[2] \in Password
BY DEF Address, Password

LEMMA NoNames == None \notin Address /\ None \notin Password
BY AccountAssumption

LEMMA StoreType ==
  ASSUME TypeInv, NEW h \in Handler, At(h, "upsert"), NEW i \in Id, Store(h, i),
         UNCHANGED <<requests, accepted, rejected>>, created' \in 0 .. MaxAccounts
  PROVE  TypeInv'
<1> USE DEF TypeInv, TypeOK, HandsOK, At, Connecting
<1>1. handler[h].email \in Address /\ handler[h].password \in Password
  OBVIOUS
<1>2. Connected' = Connected \cup {i}
  BY <1>1, NoNames DEF Connected, Store
<1>3. handler' \in [Handler -> Hand]
  BY DEF Store, Hand, Idle, Pcs
<1>4. HandsOK'
  BY <1>3 DEF Store, Idle, Hand
<1>5. /\ email' \in [Id -> Address \cup {None}] /\ password' \in [Id -> Password \cup {None}]
      /\ failed' \subseteq Connected' /\ default' \subseteq Connected'
  BY <1>1, <1>2 DEF Store
<1>6. outrun' \subseteq Id /\ spoiled' \in BOOLEAN
  BY DEF Store
<1>7. PasswordsOK'
  BY <1>1, <1>2 DEF Store, PasswordsOK
<1> QED
  BY <1>3, <1>4, <1>5, <1>6, <1>7

LEMMA IdleHand == Idle \in Hand
BY DEF Idle, Hand, Pcs

LEMMA InitTypeInv == Init => TypeInv
<1> SUFFICES ASSUME Init PROVE TypeInv
  OBVIOUS
<1>1. requests \in 0 .. MaxRequests /\ created \in 0 .. MaxAccounts
  BY AccountAssumption DEF Init
<1>2. handler \in [Handler -> Hand]
  BY IdleHand DEF Init
<1>3. Connected = {}
  BY DEF Init, Connected
<1> QED
  BY <1>1, <1>2, <1>3 DEF Init, TypeInv, TypeOK, HandsOK, PasswordsOK, Connecting, Idle

LEMMA BeginType ==
  ASSUME TypeInv, NEW h \in Handler, NEW hand \in Hand, Begin(h, hand),
         UNCHANGED <<collection, checks, outrun>>,
         hand.pc \in Connecting => hand.email \in Address /\ hand.password \in Password,
         hand.pc \in {"check", "send"} => hand.password \in Password,
         hand.pc \in Connecting \cup {"idle", "promote"} \/ hand.id \in Id
  PROVE  TypeInv'
<1> USE DEF Begin, TypeInv, TypeOK
<1>1. requests' \in 0 .. MaxRequests
  BY AccountAssumption
<1>2. handler' \in [Handler -> Hand]
  OBVIOUS
<1>3. HandsOK'
  BY DEF HandsOK
<1> QED
  BY <1>1, <1>2, <1>3 DEF collection, checks, PasswordsOK, Connected

\* A handler goes on with what it has in hand.
LEMMA GoOnType ==
  ASSUME TypeInv, NEW h \in Handler, NEW pc \in Pcs, GoOn(h, pc),
         pc \in Connecting => handler[h].pc \in Connecting,
         pc \in {"check", "send"} => handler[h].pc \in {"check", "send"},
         pc \in Connecting \cup {"idle", "promote"} \/ handler[h].id \in Id
  PROVE  handler' \in [Handler -> Hand] /\ HandsOK'
<1>1. handler' = [handler EXCEPT ![h] = [handler[h] EXCEPT !.pc = pc]]
  BY DEF GoOn
<1>2. [handler[h] EXCEPT !.pc = pc] \in Hand
  BY DEF Hand, TypeInv, TypeOK
<1>3. handler' \in [Handler -> Hand]
  BY <1>1, <1>2 DEF TypeInv, TypeOK
<1>4. /\ handler'[h].pc = pc
      /\ handler'[h].email = handler[h].email
      /\ handler'[h].password = handler[h].password
      /\ handler'[h].id = handler[h].id
      /\ \A g \in Handler : g # h => handler'[g] = handler[g]
  BY <1>1 DEF TypeInv, TypeOK, Hand
<1>5. HandsOK'
  <2> SUFFICES ASSUME NEW g \in Handler
               PROVE  /\ handler'[g].pc \in Connecting =>
                           handler'[g].email \in Address /\ handler'[g].password \in Password
                      /\ handler'[g].pc \in {"check", "send"} => handler'[g].password \in Password
                      /\ handler'[g].pc \notin Connecting \cup {"idle", "promote"} => handler'[g].id \in Id
    BY DEF HandsOK
  <2>1. CASE g = h
    BY <1>4, <2>1 DEF TypeInv, HandsOK
  <2>2. CASE g # h
    BY <1>4, <2>2 DEF TypeInv, HandsOK
  <2> QED
    BY <2>1, <2>2
<1> QED
  BY <1>3, <1>5

LEMMA EndType ==
  ASSUME TypeInv, NEW h \in Handler, End(h)
  PROVE  handler' \in [Handler -> Hand] /\ HandsOK'
BY IdleHand DEF End, Idle, TypeInv, TypeOK, HandsOK, Connecting

LEMMA StepTypeInv == TypeInv /\ [Next]_vars => TypeInv'
<1> SUFFICES ASSUME TypeInv, [Next]_vars PROVE TypeInv'
  OBVIOUS
<1> USE AccountAssumption DEF TypeInv, TypeOK, HandsOK, PasswordsOK, collection, checks,
        Connected, Connecting, Hand, Pcs, Idle, At
<1>1. ASSUME NEW h \in Handler, Connect(h) PROVE TypeInv'
  <2> PICK o \in Offer, makeDefault \in BOOLEAN :
         Begin(h, [pc |-> IF With(o[1]) = {} THEN "count" ELSE "verify",
                   email |-> o[1], password |-> o[2], id |-> 0, flag |-> makeDefault])
    BY <1>1 DEF Connect
  <2> QED
    BY <1>1, OfferType, BeginType DEF Connect
<1>2. ASSUME NEW h \in Handler, Load(h) PROVE TypeInv'
  <2> PICK i \in Connected, pc \in {"check", "send"} :
         Begin(h, [pc |-> pc, email |-> None, password |-> password[i], id |-> i,
                   flag |-> FALSE])
    BY <1>2 DEF Load
  <2> QED
    BY <1>2, BeginType DEF Load
<1>3. ASSUME NEW h \in Handler, Find(h) PROVE TypeInv'
  <2> PICK i \in Connected, pc \in {"unset", "delete"} :
         Begin(h, [pc |-> pc, email |-> None, password |-> None, id |-> i,
                   flag |-> pc = "delete" /\ i \in default])
    BY <1>3 DEF Find
  <2> QED
    BY <1>3, BeginType DEF Find
<1>4. ASSUME NEW h \in Handler, Count(h) PROVE TypeInv'
  BY <1>4, GoOnType, EndType DEF Count, GoOn, End
<1>5. ASSUME NEW h \in Handler, Verify(h) PROVE TypeInv'
  BY <1>5, GoOnType, EndType DEF Verify, Asked, GoOn, End
<1>6. ASSUME NEW h \in Handler, First(h) PROVE TypeInv'
  <2>1. /\ handler' = [handler EXCEPT ![h] = [handler[h] EXCEPT
                         !.pc = "upsert", !.flag = @ \/ Connected = {}]]
        /\ UNCHANGED <<collection, checks, outrun, requests, spoiled>>
    BY <1>6 DEF First
  <2>2. [handler[h] EXCEPT !.pc = "upsert", !.flag = @ \/ Connected = {}] \in Hand
    OBVIOUS
  <2>3. /\ handler' \in [Handler -> Hand]
        /\ handler'[h].email = handler[h].email /\ handler'[h].password = handler[h].password
        /\ handler'[h].pc = "upsert"
        /\ \A g \in Handler : g # h => handler'[g] = handler[g]
    BY <2>1, <2>2
  <2>4. HandsOK'
    BY <1>6, <2>3 DEF First
  <2> HIDE DEF Hand, HandsOK
  <2> QED
    BY <2>1, <2>3, <2>4
<1>7. ASSUME NEW h \in Handler, Upsert(h) PROVE TypeInv'
  <2>1. CASE \E i \in With(handler[h].email) : Store(h, i) /\ UNCHANGED created
    BY <1>7, <2>1, StoreType DEF Upsert, With
  <2>2. CASE created < MaxAccounts /\ created' = created + 1 /\ Store(h, created + 1)
    <3>1. created + 1 \in Id /\ created' \in 0 .. MaxAccounts
      BY <2>2 DEF Id
    <3> QED
      BY <1>7, <2>2, <3>1, StoreType DEF Upsert
  <2> QED
    BY <1>7, <2>1, <2>2 DEF Upsert
<1>8. ASSUME NEW h \in Handler, UpsertCollides(h) PROVE TypeInv'
  BY <1>8 DEF UpsertCollides, End
<1>9. ASSUME NEW h \in Handler, Clear(h) PROVE TypeInv'
  BY <1>9 DEF Clear, End
<1>10. ASSUME NEW h \in Handler, Check(h) PROVE TypeInv'
  BY <1>10 DEF Check, Asked, Note
<1>11. ASSUME NEW h \in Handler, Send(h) PROVE TypeInv'
  <2>1. CASE End(h)
    BY <1>11, <2>1, EndType DEF Send, Asked, End
  <2>2. CASE Note(h, "fail")
    BY <1>11, <2>2 DEF Send, Asked, Note
  <2> QED
    BY <1>11, <2>1, <2>2 DEF Send, Asked
<1>12. ASSUME NEW h \in Handler, RecordSuccess(h) PROVE TypeInv'
  BY <1>12 DEF RecordSuccess, End
<1>13. ASSUME NEW h \in Handler, RecordFailure(h) PROVE TypeInv'
  BY <1>13 DEF RecordFailure, End
<1>14. ASSUME NEW h \in Handler, Unset(h) PROVE TypeInv'
  BY <1>14 DEF Unset, GoOn
<1>15. ASSUME NEW h \in Handler, Set(h) PROVE TypeInv'
  BY <1>15 DEF Set, End
<1>16. ASSUME NEW h \in Handler, Delete(h) PROVE TypeInv'
  <2>1. handler' \in [Handler -> Hand] /\ HandsOK' /\ UNCHANGED <<requests, spoiled>>
    BY <1>16, GoOnType, EndType DEF Delete, GoOn, End
  <2>2. Connected' = Connected \ {handler[h].id}
    BY <1>16 DEF Delete
  <2>3. PasswordsOK'
    BY <1>16, <2>2 DEF Delete
  <2> HIDE DEF Hand, HandsOK, Connected, PasswordsOK
  <2> QED
    BY <1>16, <2>1, <2>2, <2>3 DEF Delete
<1>17. ASSUME NEW h \in Handler, Promote(h) PROVE TypeInv'
  <2>1. CASE End(h)
    BY <1>17, <2>1, EndType DEF Promote, End
  <2>2. ASSUME NEW i \in Connected,
               handler' = [handler EXCEPT ![h].pc = "set", ![h].id = i, ![h].flag = FALSE]
        PROVE  handler' \in [Handler -> Hand] /\ HandsOK'
    <3>1. handler' = [handler EXCEPT ![h] = [@ EXCEPT !.pc = "set", !.id = i, !.flag = FALSE]]
      BY <2>2
    <3>2. [handler[h] EXCEPT !.pc = "set", !.id = i, !.flag = FALSE] \in Hand
      OBVIOUS
    <3> QED
      BY <3>1, <3>2
  <2> QED
    BY <1>17, <2>1, <2>2 DEF Promote
<1>18. CASE Crash
  BY <1>18 DEF Crash
<1>19. CASE UNCHANGED vars
  BY <1>19 DEF vars
<1>20. ASSUME NEW h \in Handler, Reject(h) PROVE TypeInv'
  <2>1. handler' \in [Handler -> Hand] /\ HandsOK'
    BY <1>20 DEF Reject
  <2> QED
    BY <1>20, <2>1 DEF Reject
<1> QED
  BY <1>1, <1>2, <1>3, <1>4, <1>5, <1>6, <1>7, <1>8, <1>9, <1>10, <1>11, <1>12, <1>13,
     <1>14, <1>15, <1>16, <1>17, <1>18, <1>19, <1>20 DEF Next, Request, Proceed

(***************************************************************************)
(* A deleted account leaves no status and no default behind, nor does a    *)
(* check of it that ends later (the repository's updates do not insert);   *)
(* every handler has in hand what it goes on to use.                       *)
(***************************************************************************)
THEOREM AccountTypeCorrect == Spec => []TypeOK
<1>1. TypeInv /\ [Next]_vars => TypeInv'
  BY StepTypeInv
<1>2. TypeInv => TypeOK
  BY DEF TypeInv
<1> QED
  BY <1>1, <1>2, InitTypeInv, PTL DEF Spec

-----------------------------------------------------------------------------
LEMMA PromoteHand ==
  ASSUME TypeInv, NEW h \in Handler, Promote(h)
  PROVE  /\ handler'[h].pc \in {"idle", "set"}
         /\ handler'[h].pc = "set" => handler'[h].id \in Connected
         /\ handler'[h].pc = "idle" => Connected = {}
         /\ \A g \in Handler : g # h => handler'[g] = handler[g]
<1> USE DEF TypeInv, TypeOK
<1>1. CASE Connected = {} /\ End(h)
  BY <1>1 DEF End, Idle
<1>2. ASSUME NEW i \in Connected,
             handler' = [handler EXCEPT ![h].pc = "set", ![h].id = i, ![h].flag = FALSE]
      PROVE  /\ handler'[h].pc = "set" /\ handler'[h].id = i
             /\ \A g \in Handler : g # h => handler'[g] = handler[g]
  <2>1. handler' = [handler EXCEPT ![h] = [@ EXCEPT !.pc = "set", !.id = i, !.flag = FALSE]]
    BY <1>2
  <2> QED
    BY <2>1 DEF Hand
<1> QED
  BY <1>1, <1>2 DEF Promote

LEMMA InitVerified == Init => VerifiedInv /\ CheckInv
BY DEF Init, VerifiedInv, CheckInv, StoredWasVerified, FailureIsOfThisPassword, Connected, Idle

LEMMA StepVerified == TypeInv /\ VerifiedInv /\ [Next]_vars => VerifiedInv'
<1> SUFFICES ASSUME TypeInv, VerifiedInv, [Next]_vars PROVE VerifiedInv'
  OBVIOUS
<1> USE DEF TypeInv, TypeOK, VerifiedInv, StoredWasVerified, collection, checks,
        Connected, Idle, At
<1>1. ASSUME NEW h \in Handler, NEW hand, Begin(h, hand), hand.pc \notin {"first", "upsert"},
             UNCHANGED <<collection, checks>>
      PROVE  VerifiedInv'
  BY <1>1 DEF Begin
<1>2. ASSUME NEW h \in Handler, Connect(h) PROVE VerifiedInv'
  BY <1>1, <1>2 DEF Connect
<1>3. ASSUME NEW h \in Handler, Load(h) PROVE VerifiedInv'
  BY <1>1, <1>3 DEF Load
<1>4. ASSUME NEW h \in Handler, Find(h) PROVE VerifiedInv'
  BY <1>1, <1>4 DEF Find
<1>5. ASSUME NEW h \in Handler, Count(h) PROVE VerifiedInv'
  BY <1>5 DEF Count, GoOn, End, Hand
<1>6. ASSUME NEW h \in Handler, Verify(h) PROVE VerifiedInv'
  BY <1>6 DEF Verify, Asked, GoOn, End, Hand
<1>7. ASSUME NEW h \in Handler, First(h) PROVE VerifiedInv'
  BY <1>7 DEF First, Hand
<1>8. ASSUME NEW h \in Handler, Upsert(h) PROVE VerifiedInv'
  <2>1. ASSUME NEW i \in Id, Store(h, i) PROVE VerifiedInv'
    BY <1>8, <2>1 DEF Upsert, Store
  <2>2. created < MaxAccounts => created + 1 \in Id
    BY AccountAssumption DEF Id
  <2> QED
    BY <1>8, <2>1, <2>2 DEF Upsert, With
<1>9. ASSUME NEW h \in Handler, UpsertCollides(h) \/ Clear(h) PROVE VerifiedInv'
  BY <1>9 DEF UpsertCollides, Clear, End
<1>10. ASSUME NEW h \in Handler, Check(h) PROVE VerifiedInv'
  BY <1>10 DEF Check, Asked, Note, Hand
<1>11. ASSUME NEW h \in Handler, Send(h) PROVE VerifiedInv'
  BY <1>11 DEF Send, Asked, Note, End, Hand
<1>12. ASSUME NEW h \in Handler, RecordSuccess(h) \/ RecordFailure(h) \/ Set(h) PROVE VerifiedInv'
  BY <1>12 DEF RecordSuccess, RecordFailure, Set, End
<1>13. ASSUME NEW h \in Handler, Unset(h) PROVE VerifiedInv'
  BY <1>13 DEF Unset, GoOn, Hand
<1>14. ASSUME NEW h \in Handler, Delete(h) PROVE VerifiedInv'
  <2>1. \A g \in Handler : handler'[g].pc \in {"first", "upsert"} => handler'[g] = handler[g]
    BY <1>14 DEF Delete, GoOn, End, Hand
  <2>2. \A i \in Connected' : i \in Connected /\ password'[i] = password[i]
    BY <1>14 DEF Delete
  <2> QED
    BY <1>14, <2>1, <2>2 DEF Delete
<1>15. ASSUME NEW h \in Handler, Promote(h) PROVE VerifiedInv'
  <2>1. handler'[h].pc \in {"idle", "set"} /\ \A g \in Handler : g # h => handler'[g] = handler[g]
    BY <1>15, PromoteHand
  <2>2. UNCHANGED <<collection, checks, outrun>>
    BY <1>15 DEF Promote
  <2> QED
    BY <2>1, <2>2
<1>16. CASE Crash \/ \E h \in Handler : Reject(h)
  BY <1>16 DEF Crash, Reject
<1>17. CASE UNCHANGED vars
  BY <1>17 DEF vars
<1> QED
  BY <1>2, <1>3, <1>4, <1>5, <1>6, <1>7, <1>8, <1>9, <1>10, <1>11, <1>12, <1>13, <1>14,
     <1>15, <1>16, <1>17 DEF Next, Request, Proceed

(***************************************************************************)
(* Whatever overlaps, no password is stored that Gmail has not accepted    *)
(* (email-account.service.ts:53).                                          *)
(***************************************************************************)
THEOREM OnlyVerifiedIsStored == Spec => []StoredWasVerified
<1>1. TypeInv /\ VerifiedInv /\ [Next]_vars => (TypeInv /\ VerifiedInv)'
  BY StepTypeInv, StepVerified
<1>2. VerifiedInv => StoredWasVerified
  BY DEF VerifiedInv
<1> QED
  BY <1>1, <1>2, InitTypeInv, InitVerified, PTL DEF Spec

LEMMA StepCheckInv == TypeInv /\ CheckInv /\ [Next]_vars => CheckInv'
<1> SUFFICES ASSUME TypeInv, CheckInv, [Next]_vars PROVE CheckInv'
  OBVIOUS
<1> USE DEF TypeInv, TypeOK, CheckInv, FailureIsOfThisPassword, collection, checks,
        Connected, Idle, At
<1>1. ASSUME NEW h \in Handler, Connect(h) PROVE CheckInv'
  BY <1>1 DEF Connect, Begin
<1>2. ASSUME NEW h \in Handler, Load(h) PROVE CheckInv'
  BY <1>2 DEF Load, Begin
<1>3. ASSUME NEW h \in Handler, Find(h) PROVE CheckInv'
  BY <1>3 DEF Find, Begin
<1>4. ASSUME NEW h \in Handler, Count(h) PROVE CheckInv'
  BY <1>4 DEF Count, GoOn, End, Hand
<1>5. ASSUME NEW h \in Handler, Verify(h) PROVE CheckInv'
  BY <1>5 DEF Verify, Asked, GoOn, End, Hand
<1>6. ASSUME NEW h \in Handler, First(h) PROVE CheckInv'
  BY <1>6 DEF First, Hand
<1>7. ASSUME NEW h \in Handler, Upsert(h) PROVE CheckInv'
  <2>1. ASSUME NEW i \in Id, Store(h, i) PROVE CheckInv'
    <3>1. Connected' \subseteq Connected \cup {i}
      BY <2>1 DEF Store
    <3>2. \A g \in Handler : handler'[g].pc \in {"check", "send", "fail"}
                              => g # h /\ handler'[g] = handler[g]
      BY <2>1 DEF Store
    <3>3. \A g \in Handler : handler'[g].pc \in {"check", "send", "fail"} /\ handler'[g].id = i
                              => i \in outrun'
      BY <2>1, <3>2 DEF Store, CheckedMeanwhile
    <3>4. \A j \in Id \ {i} : /\ password'[j] = password[j]
                              /\ j \in outrun' <=> j \in outrun
                              /\ j \in failed' <=> j \in failed
                              /\ j \in Connected' <=> j \in Connected
      BY <2>1 DEF Store
    <3>5. i \notin failed' /\ failed' \subseteq failed /\ UNCHANGED <<accepted, rejected>>
      BY <1>7, <2>1 DEF Upsert, Store
    <3> HIDE DEF Connected
    <3>6. ASSUME NEW g \in Handler, handler'[g].pc \in {"check", "send", "fail"},
                 handler'[g].id \in Connected' \ outrun'
          PROVE  /\ handler'[g] = handler[g] /\ handler[g].id \in Connected \ outrun
                 /\ password'[handler[g].id] = password[handler[g].id]
      <4>1. handler'[g] = handler[g] /\ handler[g].id # i
        BY <3>2, <3>3, <3>6
      <4>2. handler[g].id \in Id
        BY <3>6, <4>1 DEF Connected
      <4> QED
        BY <3>4, <3>6, <4>1, <4>2
    <3>7. FailureIsOfThisPassword'
      BY <3>4, <3>5 DEF Connected
    <3> QED
      BY <3>5, <3>6, <3>7
  <2>2. created < MaxAccounts => created + 1 \in Id
    BY AccountAssumption DEF Id
  <2> QED
    BY <1>7, <2>1, <2>2 DEF Upsert, With
<1>8. ASSUME NEW h \in Handler, UpsertCollides(h) \/ Clear(h) PROVE CheckInv'
  BY <1>8 DEF UpsertCollides, Clear, End
<1>9. ASSUME NEW h \in Handler, Check(h) PROVE CheckInv'
  BY <1>9 DEF Check, Asked, Note, Hand
<1>10. ASSUME NEW h \in Handler, Send(h) PROVE CheckInv'
  BY <1>10 DEF Send, Asked, Note, End, Hand
<1>11. ASSUME NEW h \in Handler, RecordSuccess(h) \/ RecordFailure(h) \/ Set(h) PROVE CheckInv'
  BY <1>11 DEF RecordSuccess, RecordFailure, Set, End
<1>12. ASSUME NEW h \in Handler, Unset(h) PROVE CheckInv'
  BY <1>12 DEF Unset, GoOn, Hand
<1>13. ASSUME NEW h \in Handler, Delete(h) PROVE CheckInv'
  <2>1. \A g \in Handler : handler'[g].pc \in {"check", "send", "fail"} => handler'[g] = handler[g]
    BY <1>13 DEF Delete, GoOn, End, Hand
  <2>2. \A i \in Connected' : i \in Connected /\ password'[i] = password[i]
    BY <1>13 DEF Delete
  <2>3. failed' \subseteq Connected' /\ failed' \subseteq failed /\ UNCHANGED <<checks, outrun>>
    BY <1>13 DEF Delete
  <2> HIDE DEF Connected
  <2> QED
    BY <2>1, <2>2, <2>3
<1>14. ASSUME NEW h \in Handler, Promote(h) PROVE CheckInv'
  <2>1. handler'[h].pc \in {"idle", "set"} /\ \A g \in Handler : g # h => handler'[g] = handler[g]
    BY <1>14, PromoteHand
  <2>2. UNCHANGED <<collection, checks, outrun>>
    BY <1>14 DEF Promote
  <2> QED
    BY <2>1, <2>2
<1>15. CASE Crash \/ \E h \in Handler : Reject(h)
  BY <1>15 DEF Crash, Reject
<1>16. CASE UNCHANGED vars
  BY <1>16 DEF vars
<1> QED
  BY <1>1, <1>2, <1>3, <1>4, <1>5, <1>6, <1>7, <1>8, <1>9, <1>10, <1>11, <1>12, <1>13,
     <1>14, <1>15, <1>16 DEF Next, Request, Proceed

(***************************************************************************)
(* An account is marked as failed for the password it holds, unless that   *)
(* was replaced during a check (email-account.service.ts:104 and :251).    *)
(***************************************************************************)
THEOREM FailuresAreCurrent == Spec => []FailureIsOfThisPassword
<1>1. TypeInv /\ CheckInv /\ [Next]_vars => (TypeInv /\ CheckInv)'
  BY StepTypeInv, StepCheckInv
<1>2. CheckInv => FailureIsOfThisPassword
  BY DEF CheckInv
<1> QED
  BY <1>1, <1>2, InitTypeInv, InitVerified, PTL DEF Spec

-----------------------------------------------------------------------------
(***************************************************************************)
(* Served alone, a handler knows of the default what it needs.             *)
(***************************************************************************)
HasDefault == Connected # {} => default # {}

Alone(h) ==
  /\ \A g \in Handler \ {h} : handler[g].pc = "idle"
  /\ handler[h].pc \notin {"promote", "set", "clear"} => HasDefault
  /\ handler[h].pc = "upsert" => handler[h].flag \/ Connected # {}
  /\ handler[h].pc = "clear" => handler[h].id \in default
  /\ handler[h].pc \in {"unset", "delete", "set"} => handler[h].id \in Connected
  /\ handler[h].pc = "delete" => (handler[h].flag <=> handler[h].id \in default)

SerialInv ==
  ~spoiled => /\ Busy = {} => HasDefault
              /\ \A h \in Busy : Alone(h)

LEMMA InitSerial == Init => SerialInv
BY DEF Init, SerialInv, HasDefault, Connected, Busy, Idle

\* Where handler h is the only busy one, SerialInv says this of the next state.
LEMMA AloneSerial ==
  ASSUME TypeInv, NEW h \in Handler, handler' \in [Handler -> Hand],
         \A g \in Handler \ {h} : handler'[g].pc = "idle",
         handler'[h].pc = "idle" => HasDefault',
         handler'[h].pc # "idle" => Alone(h)'
  PROVE  SerialInv'
BY DEF SerialInv, Busy

LEMMA StepSerial == TypeInv /\ SerialInv /\ [Next]_vars => SerialInv'
<1> SUFFICES ASSUME TypeInv, SerialInv, [Next]_vars, ~spoiled' PROVE SerialInv'
  BY DEF SerialInv
<1>0. TypeInv'
  BY StepTypeInv
<1>1. CASE UNCHANGED vars
  BY <1>1 DEF vars, SerialInv, Busy, Alone, HasDefault, Connected
<1>2. ASSUME NEW h \in Handler, NEW hand, Begin(h, hand), UNCHANGED collection,
             hand.pc \notin {"idle", "promote", "set", "clear", "upsert"},
             hand.pc \in {"unset", "delete"} => hand.id \in Connected,
             hand.pc = "delete" => (hand.flag <=> hand.id \in default)
      PROVE  SerialInv'
  <2>1. ~spoiled /\ Busy = {} /\ HasDefault
    BY <1>2 DEF Begin, SerialInv, TypeInv, TypeOK
  <2>2. /\ handler'[h] = hand
        /\ \A g \in Handler \ {h} : handler'[g] = handler[g] /\ handler[g].pc = "idle"
    BY <1>2, <2>1 DEF Begin, Busy, TypeInv, TypeOK
  <2>3. HasDefault' /\ Connected' = Connected /\ default' = default
    BY <1>2, <2>1 DEF collection, HasDefault, Connected
  <2> QED
    BY <1>0, <1>2, <2>2, <2>3, AloneSerial DEF Alone, TypeInv, TypeOK
<1>3. ASSUME NEW h \in Handler, Request(h) PROVE SerialInv'
  <2>1. CASE Connect(h)
    BY <1>2, <2>1 DEF Connect
  <2>2. CASE Load(h)
    BY <1>2, <2>2 DEF Load
  <2>3. CASE Find(h)
    BY <1>2, <2>3 DEF Find
  <2> QED
    BY <1>3, <2>1, <2>2, <2>3 DEF Request
<1>4. ASSUME NEW h \in Handler, Proceed(h) PROVE SerialInv'
  <2>1. h \in Busy
    BY <1>4 DEF Proceed, Busy, Count, Verify, First, Upsert, UpsertCollides, Clear, Check,
       Send, RecordSuccess, RecordFailure, Unset, Set, Delete, Promote, At
  <2>2. ~spoiled
    BY <1>4 DEF Proceed, Count, Verify, First, Upsert, UpsertCollides, Clear, Check, Asked,
       Send, RecordSuccess, RecordFailure, Unset, Set, Delete, Promote, GoOn, End, Note, Store
  <2>3. Alone(h)
    BY <2>1, <2>2 DEF SerialInv
  <2>4. \A g \in Handler \ {h} : handler'[g].pc = "idle"
    <3>1. \A g \in Handler \ {h} : handler'[g] = handler[g]
      <4>1. CASE Promote(h)
        BY <4>1, PromoteHand
      <4> QED
        BY <1>4, <4>1 DEF Proceed, Count, Verify, First, Upsert, UpsertCollides, Clear, Check,
           Asked, Send, RecordSuccess, RecordFailure, Unset, Set, Delete, GoOn, End, Note, Store,
           TypeInv, TypeOK
    <3> QED
      BY <2>3, <3>1 DEF Alone
  <2> SUFFICES /\ handler'[h].pc = "idle" => HasDefault'
               /\ handler'[h].pc # "idle" => Alone(h)'
    BY <1>0, <2>4, AloneSerial DEF TypeInv, TypeOK
  <2> USE DEF At, TypeInv, TypeOK, Hand, Idle, collection
  <2>5. ASSUME UNCHANGED collection, HasDefault,
               handler'[h].pc \in {"idle", "verify", "first", "pass", "fail"}
        PROVE  /\ handler'[h].pc = "idle" => HasDefault'
               /\ handler'[h].pc # "idle" => Alone(h)'
    BY <2>4, <2>5 DEF Alone, HasDefault, Connected
  <2>6. CASE Count(h)
    BY <2>3, <2>5, <2>6 DEF Count, GoOn, End, Alone
  <2>7. CASE Verify(h)
    BY <2>3, <2>5, <2>7 DEF Verify, Asked, GoOn, End, Alone
  <2>8. CASE First(h)
    <3>1. HasDefault' /\ Connected' = Connected /\ handler'[h].pc = "upsert"
      BY <2>3, <2>8 DEF First, Alone, HasDefault, Connected
    <3>2. handler'[h].flag = (handler[h].flag \/ Connected = {})
      BY <2>8 DEF First
    <3> QED
      BY <2>4, <3>1, <3>2 DEF Alone
  <2>9. CASE Upsert(h)
    <3>1. ASSUME NEW i \in Id, Store(h, i)
          PROVE  /\ handler'[h].pc = "idle" => HasDefault'
                 /\ handler'[h].pc # "idle" => Alone(h)'
      <4>1. CASE handler[h].flag
        BY <2>4, <3>1, <4>1 DEF Store, Alone
      <4>2. CASE ~handler[h].flag
        <5>1. i \notin default /\ default # {}
          BY <1>0, <2>3, <2>9, <3>1, <4>2 DEF Store, Alone, HasDefault, Upsert
        <5> QED
          BY <3>1, <4>2, <5>1 DEF Store, HasDefault
      <4> QED
        BY <4>1, <4>2
    <3>2. created < MaxAccounts => created + 1 \in Id
      BY AccountAssumption DEF Id
    <3> QED
      BY <2>9, <3>1, <3>2 DEF Upsert, With, Connected
  <2>10. CASE UpsertCollides(h)
    BY <2>3, <2>5, <2>10 DEF UpsertCollides, End, Alone
  <2>11. CASE Clear(h)
    BY <2>3, <2>11 DEF Clear, End, Alone, HasDefault
  <2>12. CASE Check(h)
    BY <2>3, <2>5, <2>12 DEF Check, Asked, Note, Alone
  <2>13. CASE Send(h)
    BY <2>3, <2>5, <2>13 DEF Send, Asked, Note, End, Alone
  <2>14. CASE RecordSuccess(h) \/ RecordFailure(h)
    BY <2>3, <2>14 DEF RecordSuccess, RecordFailure, End, Alone, HasDefault, Connected
  <2>15. CASE Unset(h)
    BY <2>3, <2>4, <2>15 DEF Unset, GoOn, Alone, Connected
  <2>16. CASE Set(h)
    BY <2>3, <2>16 DEF Set, End, Alone, HasDefault
  <2>17. CASE Delete(h)
    <3>1. handler[h].id \in Connected /\ default # {} /\ default' = default \ {handler[h].id}
      BY <2>3, <2>17 DEF Delete, Alone, HasDefault
    <3>2. CASE handler[h].flag
      BY <2>4, <2>17, <3>1, <3>2 DEF Delete, GoOn, Alone
    <3>3. CASE ~handler[h].flag
      <4>1. handler[h].id \notin default
        BY <2>3, <2>17, <3>3 DEF Delete, Alone
      <4> QED
        BY <2>17, <3>1, <3>3, <4>1 DEF Delete, End, HasDefault
    <3> QED
      BY <3>2, <3>3
  <2>18. CASE Promote(h)
    <3>1. /\ handler'[h].pc \in {"idle", "set"}
          /\ handler'[h].pc = "set" => handler'[h].id \in Connected
          /\ handler'[h].pc = "idle" => Connected = {}
      BY <2>18, PromoteHand
    <3>2. UNCHANGED collection
      BY <2>18 DEF Promote
    <3> QED
      BY <2>4, <3>1, <3>2 DEF Alone, HasDefault, Connected
  <2> QED
    BY <1>4, <2>6, <2>7, <2>8, <2>9, <2>10, <2>11, <2>12, <2>13, <2>14, <2>15, <2>16,
       <2>17, <2>18 DEF Proceed
<1>5. CASE Crash \/ \E h \in Handler : Reject(h)
  BY <1>5 DEF Crash, Reject
<1> QED
  BY <1>1, <1>3, <1>4, <1>5 DEF Next

(***************************************************************************)
(* Requests served one at a time leave a workspace that has accounts with  *)
(* a default, unless the default was reconnected as an ordinary account or *)
(* a restart or a failing database call came in between.                   *)
(***************************************************************************)
THEOREM DefaultIsKept == Spec => []DefaultKept
<1>1. TypeInv /\ SerialInv /\ [Next]_vars => (TypeInv /\ SerialInv)'
  BY StepTypeInv, StepSerial
<1>2. SerialInv => DefaultKept
  BY DEF SerialInv, DefaultKept, HasDefault
<1> QED
  BY <1>1, <1>2, InitTypeInv, InitSerial, PTL DEF Spec

-----------------------------------------------------------------------------
(***************************************************************************)
(* The addresses in use, with those about to be: once a handler has passed *)
(* the check of the limit its address is counted.                          *)
(***************************************************************************)
Passed == {h \in Handler : handler[h].pc \in {"verify", "first", "upsert"}}

Emails == {email[i] : i \in Connected}

Pending == {handler[h].email : h \in Passed}

\* An address has one account, and the limit is overshot by handlers only.
LimitInv ==
  /\ \A i, j \in Connected : email[i] = email[j] => i = j
  /\ Cardinality(Emails \cup Pending) < Limit + Cardinality(Handler)

LEMMA ClaimsFinite ==
  ASSUME TypeInv
  PROVE  IsFiniteSet(Emails) /\ IsFiniteSet(Pending) /\ IsFiniteSet(Connected)
<1>1. IsFiniteSet(Address)
  <2>1. [o \in Offer |-> o[1]] \in Surjection(Offer, Address)
    BY DEF Address, Surjection
  <2> QED
    BY <2>1, FS_Surjection, AccountAssumption
<1>2. Emails \subseteq Address /\ Pending \subseteq Address
  BY DEF Emails, Pending, Passed, Connected, TypeInv, TypeOK, HandsOK, Connecting
<1>3. IsFiniteSet(Id)
  BY AccountAssumption, FS_Interval DEF Id
<1> QED
  BY <1>1, <1>2, <1>3, FS_Subset DEF Connected

\* There are no more addresses than accounts, nor fewer if each has one.
LEMMA EmailsCounted ==
  ASSUME TypeInv
  PROVE  /\ Cardinality(Emails) <= Cardinality(Connected)
         /\ (\A i, j \in Connected : email[i] = email[j] => i = j)
              => Cardinality(Connected) <= Cardinality(Emails)
<1> DEFINE f == [i \in Connected |-> email[i]]
<1>1. f \in Surjection(Connected, Emails)
  BY DEF Emails, Surjection
<1>2. ASSUME \A i, j \in Connected : email[i] = email[j] => i = j
      PROVE  f \in Injection(Connected, Emails)
  BY <1>2 DEF Emails, Injection, IsInjective
<1> HIDE DEF f
<1>3. Cardinality(Emails) <= Cardinality(Connected)
  BY <1>1, ClaimsFinite, FS_Surjection
<1>4. ASSUME \A i, j \in Connected : email[i] = email[j] => i = j
      PROVE  Cardinality(Connected) <= Cardinality(Emails)
  BY <1>2, <1>4, ClaimsFinite, FS_Injection
<1> QED
  BY <1>3, <1>4

LEMMA PendingCounted ==
  TypeInv => IsFiniteSet(Pending) /\ Cardinality(Pending) <= Cardinality(Handler)
<1> SUFFICES ASSUME TypeInv
             PROVE  IsFiniteSet(Pending) /\ Cardinality(Pending) <= Cardinality(Handler)
  OBVIOUS
<1> DEFINE f == [h \in Passed |-> handler[h].email]
<1>1. f \in Surjection(Passed, Pending)
  BY DEF Pending, Surjection
<1> HIDE DEF f
<1>2. IsFiniteSet(Passed) /\ Cardinality(Passed) <= Cardinality(Handler)
  BY AccountAssumption, FS_Subset DEF Passed
<1>3. Cardinality(Pending) <= Cardinality(Passed)
  BY <1>1, <1>2, FS_Surjection
<1> QED
  BY <1>2, <1>3, ClaimsFinite, FS_CardinalityType, AccountAssumption

\* A step that claims no address keeps the bound.
LEMMA FewerClaims ==
  ASSUME TypeInv, LimitInv, Emails' \cup Pending' \subseteq Emails \cup Pending
  PROVE  Cardinality(Emails' \cup Pending') < Limit + Cardinality(Handler)
<1>1. IsFiniteSet(Emails \cup Pending)
  BY ClaimsFinite, FS_Union
<1>2. Cardinality(Emails' \cup Pending') <= Cardinality(Emails \cup Pending)
  BY <1>1, FS_Subset
<1>3. /\ Cardinality(Emails \cup Pending) \in Nat
      /\ Cardinality(Emails' \cup Pending') \in Nat
      /\ Cardinality(Handler) \in Nat /\ Limit \in Nat
  BY <1>1, FS_Subset, FS_CardinalityType, AccountAssumption
<1> QED
  BY <1>2, <1>3 DEF LimitInv

LEMMA InitLimit == Init => LimitInv
<1> SUFFICES ASSUME Init PROVE LimitInv
  OBVIOUS
<1>1. Connected = {} /\ Emails \cup Pending = {}
  BY DEF Init, Connected, Emails, Pending, Passed, Idle
<1>2. Cardinality(Handler) \in Nat /\ Limit \in Nat /\ Limit > 0
  BY AccountAssumption, FS_CardinalityType
<1>3. Cardinality(Emails \cup Pending) = 0
  BY <1>1, FS_EmptySet
<1>4. Cardinality(Emails \cup Pending) < Limit + Cardinality(Handler)
  BY <1>2, <1>3
<1> QED
  BY <1>1, <1>4 DEF LimitInv

LEMMA StepLimit == TypeInv /\ LimitInv /\ [Next]_vars => LimitInv'
<1> SUFFICES ASSUME TypeInv, LimitInv, [Next]_vars PROVE LimitInv'
  OBVIOUS
<1>0. (IsFiniteSet(Pending) /\ Cardinality(Pending) <= Cardinality(Handler))'
  BY StepTypeInv, PendingCounted, PTL
<1> USE DEF TypeInv, TypeOK, Hand, At, Idle, collection, checks
<1>1. ASSUME UNCHANGED email,
             \A g \in Handler : handler'[g].pc \in {"verify", "first", "upsert"} =>
                 \/ g \in Passed /\ handler'[g].email = handler[g].email
                 \/ handler'[g].email \in Emails
      PROVE  LimitInv'
  <2>1. Connected' = Connected /\ Emails' = Emails
    BY <1>1 DEF Connected, Emails
  <2>2. Pending' \subseteq Emails \cup Pending
    BY <1>1 DEF Pending, Passed
  <2>3. Cardinality(Emails' \cup Pending') < Limit + Cardinality(Handler)
    BY <2>1, <2>2, FewerClaims
  <2> QED
    BY <1>1, <2>1, <2>3 DEF LimitInv
<1>2. ASSUME NEW h \in Handler, Connect(h) PROVE LimitInv'
  <2> PICK o \in Offer, makeDefault \in BOOLEAN :
         Begin(h, [pc |-> IF With(o[1]) = {} THEN "count" ELSE "verify",
                   email |-> o[1], password |-> o[2], id |-> 0, flag |-> makeDefault])
    BY <1>2 DEF Connect
  <2>1. With(o[1]) # {} => o[1] \in Emails
    BY DEF With, Emails
  <2>2. /\ handler'[h].email = o[1]
        /\ handler'[h].pc = "verify" => With(o[1]) # {}
        /\ handler'[h].pc \in {"count", "verify"}
        /\ \A g \in Handler : g # h => handler'[g] = handler[g]
    BY DEF Begin
  <2> QED
    BY <1>1, <1>2, <2>1, <2>2 DEF Connect, Passed
<1>3. ASSUME NEW h \in Handler, Load(h) \/ Find(h) PROVE LimitInv'
  BY <1>1, <1>3 DEF Load, Find, Begin, Passed
<1>4. ASSUME NEW h \in Handler, Count(h) PROVE LimitInv'
  <2>1. CASE End(h)
    BY <1>1, <1>4, <2>1 DEF Count, End, Passed
  <2>2. CASE ~(Cardinality(Connected) >= Limit)
    <3>1. Connected' = Connected /\ Emails' = Emails /\ email' = email
      BY <1>4 DEF Count, Connected, Emails
    <3>2. /\ Cardinality(Emails) <= Cardinality(Connected)
          /\ Cardinality(Pending') <= Cardinality(Handler)
          /\ IsFiniteSet(Emails) /\ IsFiniteSet(Pending') /\ IsFiniteSet(Connected)
      BY <1>0, EmailsCounted, ClaimsFinite
    <3>3. Cardinality(Emails \cup Pending') <= Cardinality(Emails) + Cardinality(Pending')
      <4>1. IsFiniteSet(Emails \cap Pending')
        BY <3>2, FS_Intersection
      <4>2. Cardinality(Emails \cup Pending')
              = Cardinality(Emails) + Cardinality(Pending') - Cardinality(Emails \cap Pending')
        BY <3>2, FS_Union
      <4>3. /\ Cardinality(Emails) \in Nat /\ Cardinality(Pending') \in Nat
            /\ Cardinality(Emails \cap Pending') \in Nat
        BY <3>2, <4>1, FS_CardinalityType
      <4> QED
        BY <4>2, <4>3
    <3>4. /\ Cardinality(Emails) \in Nat /\ Cardinality(Pending') \in Nat
          /\ Cardinality(Connected) \in Nat /\ Cardinality(Handler) \in Nat /\ Limit \in Nat
          /\ Cardinality(Emails \cup Pending') \in Nat
      BY <3>2, FS_Union, FS_CardinalityType, AccountAssumption
    <3> QED
      BY <2>2, <3>1, <3>2, <3>3, <3>4 DEF LimitInv
  <2> QED
    BY <1>4, <2>1, <2>2 DEF Count
<1>5. ASSUME NEW h \in Handler, Verify(h) \/ First(h) PROVE LimitInv'
  <2>1. /\ handler'[h].pc = "idle" \/ handler'[h].email = handler[h].email
        /\ \A g \in Handler : g # h => handler'[g] = handler[g]
        /\ h \in Passed /\ UNCHANGED email
    BY <1>5 DEF Verify, Asked, First, GoOn, End, Passed
  <2> QED
    BY <1>1, <2>1 DEF Passed
<1>6. ASSUME NEW h \in Handler, Upsert(h) PROVE LimitInv'
  <2>1. ASSUME NEW i \in Id, Store(h, i), With(handler[h].email) \subseteq {i} PROVE LimitInv'
    <3>1. /\ handler[h].email # None /\ h \in Passed
          /\ email' = [email EXCEPT ![i] = handler[h].email]
      <4>1. handler[h].pc = "upsert"
        BY <1>6 DEF Upsert
      <4>2. handler[h].email \in Address
        BY <4>1 DEF HandsOK, Connecting
      <4> QED
        BY <2>1, <4>1, <4>2, NoNames DEF Store, Passed
    <3>2. /\ Connected' = Connected \cup {i} /\ email'[i] = handler[h].email
          /\ \A j \in Connected \ {i} : email'[j] = email[j]
      BY <3>1 DEF Connected
    <3>3. \A j \in Connected \ {i} : email[j] # handler[h].email
      BY <2>1 DEF With
    <3>4. \A j, k \in Connected' : email'[j] = email'[k] => j = k
      BY <3>2, <3>3 DEF LimitInv
    <3>5. handler[h].email \in Pending
      BY <3>1 DEF Pending
    <3>6. Emails' \subseteq Emails \cup Pending
      BY <3>2, <3>5 DEF Emails
    <3>7. Pending' \subseteq Pending
      <4>1. \A g \in Passed' : g \in Passed /\ handler'[g] = handler[g]
        BY <2>1 DEF Store, Passed
      <4> QED
        BY <4>1 DEF Pending
    <3> QED
      BY <3>4, <3>6, <3>7, FewerClaims DEF LimitInv
  <2>2. CASE \E i \in With(handler[h].email) : Store(h, i)
    BY <2>1, <2>2 DEF With, Connected, LimitInv
  <2>3. CASE With(handler[h].email) = {} /\ created < MaxAccounts /\ Store(h, created + 1)
    <3>1. created + 1 \in Id
      BY <2>3, AccountAssumption DEF Id
    <3> QED
      BY <2>1, <2>3, <3>1
  <2> QED
    BY <1>6, <2>2, <2>3 DEF Upsert
<1>7. ASSUME NEW h \in Handler, Delete(h) PROVE LimitInv'
  <2>1. /\ Connected' \subseteq Connected
        /\ \A i \in Connected' : email'[i] = email[i]
    BY <1>7 DEF Delete, Connected
  <2>2. \A g \in Passed' : g \in Passed /\ handler'[g] = handler[g]
    BY <1>7 DEF Delete, GoOn, End, Passed
  <2>3. Emails' \subseteq Emails /\ Pending' \subseteq Pending
    BY <2>1, <2>2 DEF Emails, Pending
  <2> QED
    BY <2>1, <2>3, FewerClaims DEF LimitInv
<1>8. ASSUME NEW h \in Handler, Promote(h) PROVE LimitInv'
  <2>1. UNCHANGED email
    BY <1>8 DEF Promote
  <2> QED
    BY <1>1, <1>8, <2>1, PromoteHand DEF Passed
<1>9. ASSUME NEW h \in Handler,
             UpsertCollides(h) \/ Clear(h) \/ RecordSuccess(h) \/ RecordFailure(h) \/ Set(h) \/ Reject(h)
      PROVE  LimitInv'
  BY <1>1, <1>9 DEF UpsertCollides, Clear, RecordSuccess, RecordFailure, Set, Reject, End, Passed
<1>10. ASSUME NEW h \in Handler, Check(h) \/ Send(h) \/ Unset(h) PROVE LimitInv'
  BY <1>1, <1>10 DEF Check, Send, Asked, Note, Unset, GoOn, End, Passed
<1>11. CASE Crash
  BY <1>1, <1>11 DEF Crash
<1>12. CASE UNCHANGED vars
  BY <1>1, <1>12 DEF vars, Passed
<1> QED
  BY <1>2, <1>3, <1>4, <1>5, <1>6, <1>7, <1>8, <1>9, <1>10, <1>11, <1>12
  DEF Next, Request, Proceed

(***************************************************************************)
(* However many handlers connect accounts at once, the limit is exceeded   *)
(* by one less than their number at most (email-account.service.ts:43).    *)
(***************************************************************************)
THEOREM LimitNearlyKept == Spec => []LimitOvershoot
<1>1. TypeInv /\ LimitInv /\ [Next]_vars => (TypeInv /\ LimitInv)'
  BY StepTypeInv, StepLimit
<1>2. TypeInv /\ LimitInv => LimitOvershoot
  <2> SUFFICES ASSUME TypeInv, LimitInv PROVE LimitOvershoot
    OBVIOUS
  <2>1. IsFiniteSet(Emails \cup Pending) /\ Emails \subseteq Emails \cup Pending
    BY ClaimsFinite, FS_Union
  <2>2. Cardinality(Emails) <= Cardinality(Emails \cup Pending)
    BY <2>1, FS_Subset
  <2>3. Cardinality(Connected) <= Cardinality(Emails)
    BY EmailsCounted DEF LimitInv
  <2>4. /\ Cardinality(Connected) \in Nat /\ Cardinality(Emails) \in Nat
        /\ Cardinality(Emails \cup Pending) \in Nat
        /\ Cardinality(Handler) \in Nat /\ Limit \in Nat
    BY <2>1, ClaimsFinite, FS_CardinalityType, AccountAssumption
  <2> QED
    BY <2>2, <2>3, <2>4 DEF LimitInv, LimitOvershoot
<1> QED
  BY <1>1, <1>2, InitTypeInv, InitLimit, PTL DEF Spec

=============================================================================
