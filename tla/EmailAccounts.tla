---------------------------- MODULE EmailAccounts ----------------------------
(***************************************************************************)
(* The e-mail accounts of one workspace: the requests of                   *)
(* backend/src/modules/email-accounts/email-account.service.ts, the writes *)
(* of its repository under the two unique indexes of its model, and the    *)
(* worker's use of an account.                                             *)
(*                                                                         *)
(* Each database or SMTP round trip is a step, so the handlers interleave  *)
(* at every await.  Gmail is external: at any time it may take a password  *)
(* or refuse it, for users revoke passwords.  Encryption, names and dates  *)
(* are left out; nothing ever sets the status disabled, so an account is   *)
(* active or marked as failed.                                             *)
(***************************************************************************)
EXTENDS Naturals, FiniteSets

CONSTANTS Offer,        \* the (address, password) pairs users enter
          Handler,      \* requests and jobs that may be served at once
          Limit,        \* MAX_ACCOUNTS_PER_WORKSPACE
          MaxAccounts,  \* bound: accounts ever created
          MaxRequests,  \* bound: requests and jobs ever served
          Faults,       \* "crash": the process may be restarted; "reject": a
                        \* database call may fail
          None

Address == {o[1] : o \in Offer}
Password == {o[2] : o \in Offer}

\* Account ids, in the order of their creation.
Id == 1 .. MaxAccounts

VARIABLES
  requests,  \* how many requests and jobs have been taken up
  created,   \* how many accounts have been created
  email,     \* the address of each account; None if it does not exist
  password,  \* the password stored with it
  failed,    \* accounts whose status is verification_failed
  default,   \* accounts whose isDefault is set
  handler,   \* where each handler stands
  accepted,  \* history: passwords a check has succeeded with
  rejected,  \* history: passwords a check has failed with
  outrun,    \* history: accounts whose password was replaced during a check of
             \* the old one
  spoiled    \* history: something may have cost the workspace its default

collection == <<created, email, password, failed, default>>
checks == <<accepted, rejected>>
vars == <<requests, created, email, password, failed, default, handler,
          accepted, rejected, outrun, spoiled>>

ASSUME AccountAssumption ==
  /\ Limit \in Nat \ {0} /\ MaxAccounts \in Nat /\ MaxRequests \in Nat
  /\ IsFiniteSet(Offer) /\ IsFiniteSet(Handler) /\ Handler # {}
  /\ Faults \subseteq {"crash", "reject"}
  /\ None \notin Address \cup Password

Pcs == {"idle", "count", "verify", "first", "upsert", "clear",
        "check", "send", "pass", "fail",
        "unset", "set", "delete", "promote"}

\* What a handler has in hand: an address and a password it was given or has
\* read, an account, and whether that is to be, or was, the default.
Hand == [pc : Pcs, email : Address \cup {None}, password : Password \cup {None},
         id : Id \cup {0}, flag : BOOLEAN]

Idle == [pc |-> "idle", email |-> None, password |-> None, id |-> 0, flag |-> FALSE]

Connected == {i \in Id : email[i] # None}

With(e) == {i \in Connected : email[i] = e}

TypeOK ==
  /\ requests \in 0 .. MaxRequests
  /\ created \in 0 .. MaxAccounts
  /\ email \in [Id -> Address \cup {None}]
  /\ password \in [Id -> Password \cup {None}]
  /\ failed \subseteq Connected
  /\ default \subseteq Connected
  /\ handler \in [Handler -> Hand]
  /\ accepted \subseteq Password
  /\ rejected \subseteq Password
  /\ outrun \subseteq Id
  /\ spoiled \in BOOLEAN

Init ==
  /\ requests = 0 /\ created = 0
  /\ email = [i \in Id |-> None]
  /\ password = [i \in Id |-> None]
  /\ failed = {} /\ default = {}
  /\ handler = [h \in Handler |-> Idle]
  /\ accepted = {} /\ rejected = {} /\ outrun = {} /\ spoiled = FALSE

-----------------------------------------------------------------------------
At(h, pc) == handler[h].pc = pc

Busy == {h \in Handler : handler[h].pc # "idle"}

\* A handler takes up a request.
Begin(h, hand) ==
  /\ At(h, "idle")
  /\ requests < MaxRequests
  /\ requests' = requests + 1
  /\ handler' = [handler EXCEPT ![h] = hand]
  /\ spoiled' = (spoiled \/ Busy # {})

\* It goes on with what it has in hand, or is done.
GoOn(h, pc) ==
  /\ handler' = [handler EXCEPT ![h].pc = pc]
  /\ UNCHANGED <<requests, spoiled>>

End(h) ==
  /\ handler' = [handler EXCEPT ![h] = Idle]
  /\ UNCHANGED <<requests, spoiled>>

\* Gmail is asked whether it takes a password: Yes or No follows.
Asked(p, Yes, No) ==
  \/ accepted' = accepted \cup {p} /\ UNCHANGED rejected /\ Yes
  \/ rejected' = rejected \cup {p} /\ UNCHANGED accepted /\ No

-----------------------------------------------------------------------------
(***************************************************************************)
(* connect()                                                               *)
(***************************************************************************)

\* The address is looked up; a known one is not counted.
Connect(h) ==
  /\ \E o \in Offer, makeDefault \in BOOLEAN :
       Begin(h, [pc |-> IF With(o[1]) = {} THEN "count" ELSE "verify",
                 email |-> o[1], password |-> o[2], id |-> 0, flag |-> makeDefault])
  /\ UNCHANGED <<collection, checks, outrun>>

\* Mutant of Count: one too many.
CountTooMany(h) ==
  /\ At(h, "count")
  /\ IF Cardinality(Connected) > Limit THEN End(h) ELSE GoOn(h, "verify")
  /\ UNCHANGED <<collection, checks, outrun>>

Count(h) ==
  /\ At(h, "count")
  /\ IF Cardinality(Connected) >= Limit THEN End(h) ELSE GoOn(h, "verify")
  /\ UNCHANGED <<collection, checks, outrun>>

\* Mutant of Verify: the credential is stored whatever Gmail says.
VerifyLater(h) ==
  /\ At(h, "verify")
  /\ Asked(handler[h].password, GoOn(h, "first"), GoOn(h, "first"))
  /\ UNCHANGED <<collection, outrun>>

Verify(h) ==
  /\ At(h, "verify")
  /\ Asked(handler[h].password, GoOn(h, "first"), End(h))
  /\ UNCHANGED <<collection, outrun>>

\* The first account is made the default.
First(h) ==
  /\ At(h, "first")
  /\ handler' = [handler EXCEPT ![h].pc = "upsert",
                                ![h].flag = @ \/ Connected = {}]
  /\ UNCHANGED <<collection, checks, outrun, requests, spoiled>>

\* Checks of account i that are under way, other than h's.
CheckedMeanwhile(h, i) ==
  \E g \in Handler \ {h} :
    handler[g].id = i /\ handler[g].pc \in {"check", "send", "pass", "fail"}

\* Mutant of Store: the status is kept.
StoreStatusKept(h, i) ==
  /\ email' = [email EXCEPT ![i] = handler[h].email]
  /\ password' = [password EXCEPT ![i] = handler[h].password]
  /\ UNCHANGED failed
  /\ default' = IF handler[h].flag THEN default \cup {i} ELSE default \ {i}
  /\ outrun' = IF CheckedMeanwhile(h, i) THEN outrun \cup {i} ELSE outrun \ {i}
  /\ spoiled' = (spoiled \/ (i \in default /\ ~handler[h].flag))
  /\ handler' = [handler EXCEPT ![h] =
                   IF @.flag THEN [Idle EXCEPT !.pc = "clear", !.id = i] ELSE Idle]

\* Account i becomes what handler h was asked to connect.
Store(h, i) ==
  /\ email' = [email EXCEPT ![i] = handler[h].email]
  /\ password' = [password EXCEPT ![i] = handler[h].password]
  /\ failed' = failed \ {i}
  /\ default' = IF handler[h].flag THEN default \cup {i} ELSE default \ {i}
  /\ outrun' = IF CheckedMeanwhile(h, i) THEN outrun \cup {i} ELSE outrun \ {i}
  /\ spoiled' = (spoiled \/ (i \in default /\ ~handler[h].flag))
  /\ handler' = [handler EXCEPT ![h] =
                   IF @.flag THEN [Idle EXCEPT !.pc = "clear", !.id = i] ELSE Idle]

\* The account with the address is written over, or created.
Upsert(h) ==
  /\ At(h, "upsert")
  /\ ~(handler[h].flag /\ default \ With(handler[h].email) # {})
  /\ IF With(handler[h].email) # {}
     THEN /\ \E i \in With(handler[h].email) : Store(h, i)
          /\ UNCHANGED created
     ELSE /\ created < MaxAccounts
          /\ created' = created + 1
          /\ Store(h, created + 1)
  /\ UNCHANGED <<requests, checks>>

\* The index of the default refuses a second one.
UpsertCollides(h) ==
  /\ At(h, "upsert")
  /\ handler[h].flag /\ default \ With(handler[h].email) # {}
  /\ End(h)
  /\ UNCHANGED <<collection, checks, outrun>>

\* clearDefaultExcept()
Clear(h) ==
  /\ At(h, "clear")
  /\ default' = default \cap {handler[h].id}
  /\ End(h)
  /\ UNCHANGED <<created, email, password, failed, checks, outrun>>

-----------------------------------------------------------------------------
(***************************************************************************)
(* verifyStored() and sendTestEmail(), which note the outcome either way,  *)
(* and the worker's send, which notes a refused password only.             *)
(***************************************************************************)
Load(h) ==
  /\ \E i \in Connected, pc \in {"check", "send"} :
       Begin(h, [pc |-> pc, email |-> None, password |-> password[i], id |-> i,
                 flag |-> FALSE])
  /\ UNCHANGED <<collection, checks, outrun>>

Note(h, pc) ==
  /\ handler' = [handler EXCEPT ![h].pc = pc, ![h].password = None]
  /\ UNCHANGED <<requests, spoiled>>

Check(h) ==
  /\ At(h, "check")
  /\ Asked(handler[h].password, Note(h, "pass"), Note(h, "fail"))
  /\ UNCHANGED <<collection, outrun>>

Send(h) ==
  /\ At(h, "send")
  /\ Asked(handler[h].password, End(h), End(h) \/ Note(h, "fail"))
  /\ UNCHANGED <<collection, outrun>>

\* recordVerificationSuccess(), if the account is still there
RecordSuccess(h) ==
  /\ At(h, "pass")
  /\ failed' = failed \ {handler[h].id}
  /\ End(h)
  /\ UNCHANGED <<created, email, password, default, checks, outrun>>

\* recordVerificationFailure(), likewise
RecordFailure(h) ==
  /\ At(h, "fail")
  /\ failed' = failed \cup ({handler[h].id} \cap Connected)
  /\ End(h)
  /\ UNCHANGED <<created, email, password, default, checks, outrun>>

-----------------------------------------------------------------------------
(***************************************************************************)
(* setDefault() and disconnect().                                          *)
(***************************************************************************)

Find(h) ==
  /\ \E i \in Connected, pc \in {"unset", "delete"} :
       Begin(h, [pc |-> pc, email |-> None, password |-> None, id |-> i,
                 flag |-> pc = "delete" /\ i \in default])
  /\ UNCHANGED <<collection, checks, outrun>>

\* The flag is cleared everywhere else before it is set.
Unset(h) ==
  /\ At(h, "unset")
  /\ default' = default \cap {handler[h].id}
  /\ GoOn(h, "set")
  /\ UNCHANGED <<created, email, password, failed, checks, outrun>>

\* The repository's setDefault(): nothing happens if the account is gone, and
\* the index refuses a second default.
Set(h) ==
  /\ At(h, "set")
  /\ default' = IF default = {} THEN {handler[h].id} \cap Connected ELSE default
  /\ End(h)
  /\ UNCHANGED <<created, email, password, failed, checks, outrun>>

\* Mutant of Delete: no account is promoted.
DeleteOnly(h) ==
  LET i == handler[h].id IN
  /\ At(h, "delete")
  /\ email' = [email EXCEPT ![i] = None]
  /\ password' = [password EXCEPT ![i] = None]
  /\ failed' = failed \ {i}
  /\ default' = default \ {i}
  /\ End(h)
  /\ UNCHANGED <<created, checks, outrun>>

Delete(h) ==
  LET i == handler[h].id IN
  /\ At(h, "delete")
  /\ email' = [email EXCEPT ![i] = None]
  /\ password' = [password EXCEPT ![i] = None]
  /\ failed' = failed \ {i}
  /\ default' = default \ {i}
  /\ IF i \in Connected /\ handler[h].flag THEN GoOn(h, "promote") ELSE End(h)
  /\ UNCHANGED <<created, checks, outrun>>

\* findOldestRemaining()
Promote(h) ==
  /\ At(h, "promote")
  /\ IF Connected = {}
     THEN End(h)
     ELSE \E i \in Connected :
            /\ \A j \in Connected : i <= j
            /\ handler' = [handler EXCEPT ![h].pc = "set", ![h].id = i, ![h].flag = FALSE]
            /\ UNCHANGED <<requests, spoiled>>
  /\ UNCHANGED <<collection, checks, outrun>>

-----------------------------------------------------------------------------
\* The process is restarted.
Crash ==
  /\ "crash" \in Faults
  /\ handler' = [h \in Handler |-> Idle]
  /\ spoiled' = TRUE
  /\ UNCHANGED <<requests, collection, checks, outrun>>

\* A database call of a handler fails, and with it the request.
Reject(h) ==
  /\ "reject" \in Faults
  /\ handler[h].pc \notin {"idle", "verify", "check", "send"}
  /\ handler' = [handler EXCEPT ![h] = Idle]
  /\ spoiled' = TRUE
  /\ UNCHANGED <<requests, collection, checks, outrun>>

Request(h) == Connect(h) \/ Load(h) \/ Find(h)

Proceed(h) ==
  \/ Count(h) \/ Verify(h) \/ First(h) \/ Upsert(h) \/ UpsertCollides(h) \/ Clear(h)
  \/ Check(h) \/ Send(h) \/ RecordSuccess(h) \/ RecordFailure(h)
  \/ Unset(h) \/ Set(h) \/ Delete(h) \/ Promote(h)

Next ==
  \/ \E h \in Handler : Request(h) \/ Proceed(h) \/ Reject(h)
  \/ Crash

Spec == Init /\ [][Next]_vars

-----------------------------------------------------------------------------
(***************************************************************************)
(* Properties.                                                             *)
(***************************************************************************)

(***************************************************************************)
(* A credential is verified against Gmail before it is stored              *)
(* (email-account.service.ts:17), however requests overlap.                *)
(***************************************************************************)
StoredWasVerified ==
  \A i \in Connected : password[i] \in accepted

(***************************************************************************)
(* An account is marked as failed for the password it holds, unless that   *)
(* was replaced while a check of the old one was under way.                *)
(***************************************************************************)
FailureIsOfThisPassword ==
  \A i \in failed \ outrun : password[i] \in rejected

(***************************************************************************)
(* The limit is checked before the account is verified and written, so     *)
(* connects served together exceed it, but only by one for each handler    *)
(* more than one (email-account.service.ts:43).                            *)
(***************************************************************************)
LimitOvershoot ==
  Cardinality(Connected) < Limit + Cardinality(Handler)

(***************************************************************************)
(* Requests served one at a time leave a workspace that has accounts with  *)
(* a default one, unless a restart, a failing database call or a reconnect *)
(* of the default took it away (email-account.service.ts:66 and :176).     *)
(***************************************************************************)
DefaultKept ==
  ~spoiled /\ Busy = {} /\ Connected # {} => default # {}

=============================================================================
