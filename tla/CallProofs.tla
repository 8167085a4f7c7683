------------------------------ MODULE CallProofs ------------------------------
(***************************************************************************)
(* What holds of Calls for any number of calls and handlers, whatever the  *)
(* provider reports and in whatever order.                                 *)
(***************************************************************************)
EXTENDS Calls, TLAPS

\* A handler that is not idle has a call, whose line exists, and one with an
\* event in hand has a status.
HandsOK ==
  /\ \A h \in Handler : handler[h].pc # "idle" => handler[h].call \in Call
  /\ \A h \in Handler : handler[h].pc # "idle" => line[handler[h].call] # "none"
  /\ \A h \in Handler :
       handler[h].pc \in {"create", "apply", "find"} => handler[h].to \in Statuses
  /\ \A c \in Call : status[c] # "none" => line[c] # "none"
  /\ \A h \in Handler : handler[h].pc = "idle" => handler[h].call = None /\ ~handler[h].polls

TypeInv == TypeOK /\ HandsOK

\* What an ended line has been reported as is what it ended as, and so is the
\* event a handler has in hand.
EndInv ==
  /\ \A c \in Call : \A w \in reports[c] : w \in Terminal => line[c] = w
  /\ \A h \in Handler :
       /\ handler[h].pc \in {"create", "apply", "find"} /\ handler[h].to \in Terminal
            => line[handler[h].call] = handler[h].to
       /\ handler[h].pc = "cancel" =>
            line[handler[h].call] \in Terminal \/ handler[h].call \in unreached
  /\ OutcomeIsReal

Talked == {"in_progress", "completed"}

\* A call of which the line, a report or an event in hand says that it was
\* answered was.
TalkInv ==
  /\ \A c \in Call : line[c] \in Talked => c \in connected
  /\ \A c \in Call : reports[c] \cap Talked # {} => c \in connected
  /\ \A h \in Handler :
       /\ handler[h].pc \in {"apply", "find"} /\ handler[h].to \in Talked
            => handler[h].call \in connected
       /\ handler[h].pc = "touch" => handler[h].call \in connected
  /\ AnsweredWasConnected

\* Two handlers are on one call only if that is contended ...
SoloInv ==
  \A g, h \in Handler :
    handler[g].pc # "idle" /\ handler[g].call = handler[h].call
      => g = h \/ handler[g].call \in contended

\* ... and a handler alone on its call knows what the record says.
Knows(h) ==
  handler[h].pc # "idle" /\ handler[h].call \notin contended =>
    /\ handler[h].pc = "create" => status[handler[h].call] = "none"
    /\ handler[h].pc = "apply" => handler[h].to \in Allowed(status[handler[h].call])
    /\ handler[h].pc \in {"hangup", "cancel"} => Live(status[handler[h].call])

KnowInv == \A h \in Handler : Knows(h)

-----------------------------------------------------------------------------
LEMMA MappedType == \A w \in Words : Mapped(w) \in Statuses
BY DEF Mapped, Words, Statuses, Terminal

LEMMA AllowedType == \A s \in Statuses : Allowed(s) \subseteq Statuses /\ s \notin Allowed(s)
BY DEF Allowed, Statuses, Terminal

LEMMA OnLineType == \A s \in Statuses : OnLine(s) \subseteq Statuses
BY DEF OnLine, Statuses, Terminal

LEMMA StatusNames == "none" \notin Statuses /\ None \notin Call
BY CallAssumption DEF Statuses, Terminal

LEMMA InitTypeInv == Init => TypeInv
BY CallAssumption DEF Init, TypeInv, TypeOK, HandsOK, Idle, Pcs, Statuses

HandlersTyped ==
  /\ handler \in [Handler -> [pc : Pcs, call : Call \cup {None},
                              to : Statuses \cup {None}, polls : BOOLEAN]]
  /\ contended \subseteq Call

LEMMA BeginType ==
  ASSUME TypeInv, NEW h \in Handler, NEW c \in Call, NEW pc \in Pcs,
         NEW to \in Statuses \cup {None}, Begin(h, pc, c, to)
  PROVE  /\ HandlersTyped'
         /\ handler'[h].pc = pc /\ handler'[h].call = c /\ handler'[h].to = to
         /\ \A g \in Handler \ {h} : handler'[g] = handler[g]
<1> DEFINE b == pc = "ask" \/ handler[h].polls
<1>1. b \in BOOLEAN
  BY DEF TypeInv, TypeOK
<1>2. handler' = [handler EXCEPT ![h] = [pc |-> pc, call |-> c, to |-> to, polls |-> b]]
  BY DEF Begin
<1> HIDE DEF b
<1> QED
  BY <1>1, <1>2 DEF Begin, HandlersTyped, TypeInv, TypeOK

LEMMA EndType ==
  ASSUME TypeInv, NEW h \in Handler, End(h)
  PROVE  /\ HandlersTyped'
         /\ handler'[h] = Idle
         /\ \A g \in Handler \ {h} : handler'[g] = handler[g]
BY DEF End, Idle, Pcs, HandlersTyped, TypeInv, TypeOK

LEMMA BeginHands ==
  ASSUME TypeInv, NEW h \in Handler, NEW c \in Call, NEW pc \in Pcs \ {"idle"},
         NEW to \in Statuses \cup {None}, Begin(h, pc, c, to), UNCHANGED line,
         pc \in {"create", "apply", "find"} => to \in Statuses,
         line[c] # "none", \A d \in Call : status'[d] # "none" => line[d] # "none"
  PROVE  HandlersTyped' /\ HandsOK'
<1>1. /\ HandlersTyped'
      /\ handler'[h].pc = pc /\ handler'[h].call = c /\ handler'[h].to = to
      /\ \A g \in Handler \ {h} : handler'[g] = handler[g]
  BY BeginType
<1>2. HandsOK
  BY DEF TypeInv
<1> QED
  BY <1>1, <1>2 DEF HandsOK

\* What a handler that is done with its event, or goes on, leaves in order.
LEMMA DealtType ==
  ASSUME TypeInv, NEW h \in Handler, Dealt(h), UNCHANGED line,
         status' \in [Call -> Statuses \cup {"none"}],
         \A c \in Call : status'[c] # "none" => line[c] # "none"
  PROVE  /\ HandlersTyped'
         /\ HandsOK'
<1>1. CASE handler[h].polls
  <2>1. On(h) \in Call /\ Begin(h, "reread", On(h), None) /\ line[On(h)] # "none"
    BY <1>1 DEF Dealt, On, TypeInv, TypeOK, HandsOK
  <2>2. "reread" \in Pcs \ {"idle"} /\ "reread" \notin {"create", "apply", "find"}
    BY DEF Pcs
  <2> QED
    BY <2>1, <2>2, BeginHands
<1>2. CASE ~handler[h].polls
  BY <1>2, EndType DEF Dealt, Idle, HandsOK, TypeInv
<1> QED
  BY <1>1, <1>2

LEMMA ReadType ==
  ASSUME TypeInv, NEW h \in Handler, NEW c \in Call, NEW s \in Statuses,
         ReadForEvent(h, c, s), UNCHANGED <<line, status>>, line[c] # "none"
  PROVE  /\ HandlersTyped'
         /\ HandsOK'
<1>1. CASE Begin(h, "apply", c, s)
  <2>1. "apply" \in Pcs \ {"idle"} /\ \A d \in Call : status'[d] # "none" => line[d] # "none"
    BY DEF Pcs, TypeInv, HandsOK
  <2> QED
    BY <1>1, <2>1, BeginHands
<1>2. CASE Dealt(h)
  BY <1>2, DealtType DEF TypeInv, TypeOK, HandsOK
<1> QED
  BY <1>1, <1>2 DEF ReadForEvent

LEMMA StepTypeInv == TypeInv /\ [Next]_vars => TypeInv'
<1> SUFFICES ASSUME TypeInv, [Next]_vars PROVE TypeInv'
  OBVIOUS
<1> USE CallAssumption DEF TypeInv, TypeOK, HandsOK, HandlersTyped, records, provider, page
<1>1. ASSUME NEW c \in Call, LineMoves(c) PROVE TypeInv'
  <2> PICK s \in OnLine(line[c]) :
         /\ line' = [line EXCEPT ![c] = s]
         /\ reports' = [reports EXCEPT ![c] = @ \cup {s}]
         /\ connected' = IF s = "in_progress" THEN connected \cup {c} ELSE connected
    BY <1>1 DEF LineMoves
  <2>1. s \in Statuses /\ s # "none"
    BY <1>1, OnLineType, StatusNames DEF LineMoves, Live
  <2>2. reports' \in [Call -> SUBSET Words]
    BY <2>1 DEF Words
  <2> QED
    BY <1>1, <2>1, <2>2 DEF LineMoves
<1>2. ASSUME NEW c \in Call, LineMutters(c) PROVE TypeInv'
  BY <1>2 DEF LineMutters, Live, Words
<1>3. ASSUME NEW h \in Handler, NEW c \in Call, PlaceCall(h, c) PROVE TypeInv'
  <2> PICK w \in Placed :
         /\ line' = [line EXCEPT ![c] = Mapped(w)]
         /\ connected' = IF Mapped(w) \in {"in_progress", "completed"}
                         THEN connected \cup {c} ELSE connected
         /\ Begin(h, "create", c, Mapped(w)) \/ UNCHANGED <<handler, contended>>
    BY <1>3 DEF PlaceCall
  <2>1. Mapped(w) \in Statuses /\ Mapped(w) # "none"
    BY MappedType, StatusNames
  <2> QED
    BY <1>3, <2>1 DEF PlaceCall, At, Begin, Pcs
<1>4. ASSUME NEW h \in Handler, NEW c \in Call, Webhook(h, c) PROVE TypeInv'
  <2>1. PICK w \in reports[c] :
          IF status[c] = "none" THEN End(h) ELSE ReadForEvent(h, c, Mapped(w))
    BY <1>4 DEF Webhook
  <2>2. Mapped(w) \in Statuses
    BY MappedType
  <2>3. CASE End(h)
    BY <1>4, <2>3, EndType DEF Webhook, Idle
  <2>4. CASE status[c] # "none" /\ ReadForEvent(h, c, Mapped(w))
    BY <1>4, <2>2, <2>4, ReadType DEF Webhook
  <2> QED
    BY <2>1, <2>3, <2>4
<1>5. ASSUME NEW h \in Handler, NEW c \in Call, Cancel(h, c) PROVE TypeInv'
  BY <1>5, StatusNames DEF Cancel, At, Begin, Live, Pcs
<1>6. ASSUME NEW h \in Handler, NEW c \in Call, Refresh(h, c) PROVE TypeInv'
  <2>1. CASE Live(status[c]) /\ Begin(h, "ask", c, None) /\ UNCHANGED page
    <3>1. "ask" \in Pcs \ {"idle"} /\ line[c] # "none" /\ TypeInv
      BY <2>1, StatusNames DEF Pcs, Live
    <3>2. UNCHANGED <<line, reports, connected, status, answered, touched, unreached>>
      BY <1>6 DEF Refresh
    <3>3. HandlersTyped' /\ HandsOK'
      BY <2>1, <3>1, <3>2, BeginHands
    <3> QED
      BY <2>1, <3>2, <3>3
  <2>2. CASE Hears(c) /\ UNCHANGED <<handler, contended>>
    BY <1>6, <2>2 DEF Refresh, Hears
  <2> QED
    BY <1>6, <2>1, <2>2 DEF Refresh
<1>7. ASSUME NEW h \in Handler, CreateRecord(h) PROVE TypeInv'
  BY <1>7 DEF CreateRecord, At, On, End, Idle, Pcs
<1>8. ASSUME NEW h \in Handler, Apply(h) PROVE TypeInv'
  <2>1. /\ On(h) \in Call /\ line[On(h)] # "none" /\ handler[h].to \in Statuses
        /\ "touch" \in Pcs \ {"idle"} /\ UNCHANGED <<line, reports, page, connected, unreached, touched>>
    BY <1>8 DEF Apply, At, On, Pcs
  <2>2. /\ status' \in [Call -> Statuses \cup {"none"}]
        /\ \A c \in Call : status'[c] # "none" => line[c] # "none"
        /\ answered' \subseteq Call
    BY <1>8, <2>1 DEF Apply
  <2>3. CASE Begin(h, "touch", On(h), None)
    <3>1. HandlersTyped' /\ HandsOK'
      BY <2>1, <2>2, <2>3, BeginHands
    <3> QED
      BY <2>1, <2>2, <3>1
  <2>4. CASE Dealt(h)
    BY <2>1, <2>2, <2>4, DealtType
  <2> QED
    BY <1>8, <2>3, <2>4 DEF Apply
<1>9. ASSUME NEW h \in Handler, Touch(h) PROVE TypeInv'
  <2>1. Dealt(h) /\ On(h) \in Call
    BY <1>9 DEF Touch, At, On
  <2> QED
    BY <1>9, <2>1, DealtType DEF Touch
<1>10. ASSUME NEW h \in Handler, HangUp(h) PROVE TypeInv'
  BY <1>10 DEF HangUp, At, On, Begin, Live, Pcs, Statuses, Terminal, Words
<1>11. ASSUME NEW h \in Handler, RecordCancel(h) PROVE TypeInv'
  BY <1>11 DEF RecordCancel, At, On, End, Idle, Pcs, Statuses, Terminal
<1>12. ASSUME NEW h \in Handler, Ask(h) PROVE TypeInv'
  BY <1>12 DEF Ask, At, On, Begin, Pcs
<1>13. ASSUME NEW h \in Handler, AskFails(h) PROVE TypeInv'
  BY <1>13 DEF AskFails, End, Idle, Pcs
<1>14. ASSUME NEW h \in Handler, Find(h) PROVE TypeInv'
  <2>1. On(h) \in Call /\ handler[h].to \in Statuses /\ line[On(h)] # "none"
    BY <1>14 DEF Find, At, On
  <2> QED
    BY <1>14, <2>1, ReadType DEF Find
<1>17. ASSUME NEW h \in Handler, Reread(h) PROVE TypeInv'
  BY <1>17 DEF Reread, Hears, At, On, End, Idle, Pcs
<1>18. ASSUME NEW c \in Call, Leave(c) PROVE TypeInv'
  BY <1>18 DEF Leave
<1>15. CASE Crash
  BY <1>15 DEF Crash, Idle, Pcs
<1>16. CASE UNCHANGED vars
  BY <1>16 DEF vars
<1> QED
  BY <1>1, <1>2, <1>3, <1>4, <1>5, <1>6, <1>7, <1>8, <1>9, <1>10, <1>11, <1>12, <1>13, <1>14, <1>15, <1>16, <1>17, <1>18
     DEF Next, Proceed

(***************************************************************************)
(* The record's statuses are those of call.model.ts, the line's are known  *)
(* ones, and a handler at work has a call of which the provider knows.     *)
(***************************************************************************)
THEOREM CallTypeCorrect == Spec => []TypeOK
<1>1. TypeInv /\ [Next]_vars => TypeInv'
  BY StepTypeInv
<1>2. TypeInv => TypeOK
  BY DEF TypeInv
<1> QED
  BY <1>1, <1>2, InitTypeInv, PTL DEF Spec
-----------------------------------------------------------------------------
LEMMA EndNames ==
  /\ Terminal \subseteq Statuses
  /\ "completed" \in Terminal /\ "canceled" \in Terminal
  /\ "other" \notin Terminal /\ "none" \notin Terminal
BY DEF Terminal, Statuses

LEMMA MappedEnd == \A w \in Words : Mapped(w) \in Terminal => Mapped(w) = w
BY DEF Mapped, Words, Terminal

LEMMA InitEndInv == Init => EndInv
BY EndNames DEF Init, EndInv, OutcomeIsReal, Finished, Idle

LEMMA StepEndInv == TypeInv /\ EndInv /\ [Next]_vars => EndInv'
<1> SUFFICES ASSUME TypeInv, EndInv, [Next]_vars PROVE EndInv'
  OBVIOUS
<1> USE DEF TypeInv, TypeOK, HandsOK, EndInv, OutcomeIsReal, Finished, records, provider, page
<1>1. ASSUME NEW c \in Call, LineMoves(c) PROVE EndInv'
  <2> PICK s \in OnLine(line[c]) :
         /\ line' = [line EXCEPT ![c] = s]
         /\ reports' = [reports EXCEPT ![c] = @ \cup {s}]
         /\ connected' = IF s = "in_progress" THEN connected \cup {c} ELSE connected
    BY <1>1 DEF LineMoves
  <2>1. line[c] \notin Terminal /\ s \in Statuses
    BY <1>1, OnLineType DEF LineMoves, Live
  <2> QED
    BY <1>1, <2>1 DEF LineMoves
<1>2. ASSUME NEW c \in Call, LineMutters(c) PROVE EndInv'
  BY <1>2, EndNames DEF LineMutters
<1>3. ASSUME NEW h \in Handler, NEW c \in Call, PlaceCall(h, c) PROVE EndInv'
  <2> PICK w \in Placed :
         /\ line' = [line EXCEPT ![c] = Mapped(w)]
         /\ connected' = IF Mapped(w) \in {"in_progress", "completed"}
                         THEN connected \cup {c} ELSE connected
         /\ Begin(h, "create", c, Mapped(w)) \/ UNCHANGED <<handler, contended>>
    BY <1>3 DEF PlaceCall
  <2>1. status[c] = "none" /\ line[c] = "none"
    BY <1>3 DEF PlaceCall
  <2> QED
    BY <1>3, <2>1, StatusNames, EndNames DEF PlaceCall, At, Begin
<1>4. ASSUME NEW h \in Handler, NEW c \in Call, Webhook(h, c) PROVE EndInv'
  <2>1. ASSUME NEW w \in reports[c], status[c] # "none", ReadForEvent(h, c, Mapped(w))
        PROVE  EndInv'
    BY <1>4, <2>1, MappedEnd, StatusNames DEF Webhook, ReadForEvent, Dealt, On, At, Begin, End, Idle
  <2>2. CASE End(h)
    BY <1>4, <2>2 DEF Webhook, End, Idle
  <2> QED
    BY <1>4, <2>1, <2>2 DEF Webhook
<1>5. ASSUME NEW h \in Handler, NEW c \in Call, Cancel(h, c) PROVE EndInv'
  BY <1>5, EndNames DEF Cancel, At, Begin, Live
<1>6. ASSUME NEW h \in Handler, NEW c \in Call, Refresh(h, c) PROVE EndInv'
  BY <1>6 DEF Refresh, Hears, At, Begin, Live
<1>7. ASSUME NEW h \in Handler, CreateRecord(h) PROVE EndInv'
  BY <1>7 DEF CreateRecord, At, On, End, Idle
<1>8. ASSUME NEW h \in Handler, Apply(h) PROVE EndInv'
  BY <1>8 DEF Apply, Dealt, At, On, Begin, End, Idle
<1>9. ASSUME NEW h \in Handler, Touch(h) PROVE EndInv'
  BY <1>9 DEF Touch, Dealt, At, On, Begin, End, Idle
<1>10. ASSUME NEW h \in Handler, HangUp(h) PROVE EndInv'
  BY <1>10, EndNames DEF HangUp, At, On, Begin, Live
<1>11. ASSUME NEW h \in Handler, RecordCancel(h) PROVE EndInv'
  BY <1>11, EndNames DEF RecordCancel, At, On, End, Idle
<1>12. ASSUME NEW h \in Handler, Ask(h) PROVE EndInv'
  BY <1>12 DEF Ask, At, On, Begin
<1>13. ASSUME NEW h \in Handler, AskFails(h) PROVE EndInv'
  BY <1>13 DEF AskFails, End, Idle
<1>14. ASSUME NEW h \in Handler, Find(h) PROVE EndInv'
  BY <1>14 DEF Find, ReadForEvent, Dealt, At, On, Begin, End, Idle
<1>17. ASSUME NEW h \in Handler, Reread(h) PROVE EndInv'
  BY <1>17 DEF Reread, Hears, At, On, End, Idle, Pcs
<1>18. ASSUME NEW c \in Call, Leave(c) PROVE EndInv'
  BY <1>18 DEF Leave
<1>15. CASE Crash
  BY <1>15 DEF Crash, Idle
<1>16. CASE UNCHANGED vars
  BY <1>16 DEF vars
<1> QED
  BY <1>1, <1>2, <1>3, <1>4, <1>5, <1>6, <1>7, <1>8, <1>9, <1>10, <1>11, <1>12, <1>13, <1>14, <1>15, <1>16, <1>17, <1>18
     DEF Next, Proceed

(***************************************************************************)
(* However requests, webhooks and restarts interleave and whatever the     *)
(* provider fails at: a finished record says what its line ended as, or    *)
(* canceled, and the line is down unless the provider took no cancel       *)
(* (call.service.ts, exotel-provider.ts).                                  *)
(***************************************************************************)
THEOREM OutcomesAreReal == Spec => []OutcomeIsReal
<1>1. TypeInv /\ EndInv /\ [Next]_vars => (TypeInv /\ EndInv)'
  BY StepTypeInv, StepEndInv
<1>2. EndInv => OutcomeIsReal
  BY DEF EndInv
<1> QED
  BY <1>1, <1>2, InitTypeInv, InitEndInv, PTL DEF Spec
-----------------------------------------------------------------------------
LEMMA TalkNames == "none" \notin Talked /\ "other" \notin Talked /\ None \notin Call
BY CallAssumption DEF Talked

LEMMA MappedTalk == \A w \in Words : Mapped(w) \in Talked => Mapped(w) = w
BY DEF Mapped, Words, Talked

LEMMA InitTalkInv == Init => TalkInv
BY TalkNames DEF Init, TalkInv, AnsweredWasConnected, Idle

LEMMA StepTalkInv == TypeInv /\ TalkInv /\ [Next]_vars => TalkInv'
<1> SUFFICES ASSUME TypeInv, TalkInv, [Next]_vars PROVE TalkInv'
  OBVIOUS
<1> USE DEF TypeInv, TypeOK, HandsOK, TalkInv, AnsweredWasConnected, records, provider, page
<1>1. ASSUME NEW c \in Call, LineMoves(c) PROVE TalkInv'
  <2> PICK s \in OnLine(line[c]) :
         /\ line' = [line EXCEPT ![c] = s]
         /\ reports' = [reports EXCEPT ![c] = @ \cup {s}]
         /\ connected' = IF s = "in_progress" THEN connected \cup {c} ELSE connected
    BY <1>1 DEF LineMoves
  <2>1. s \in Talked => c \in connected'
    BY <1>1 DEF LineMoves, OnLine, Talked
  <2> QED
    BY <1>1, <2>1 DEF LineMoves
<1>2. ASSUME NEW c \in Call, LineMutters(c) PROVE TalkInv'
  BY <1>2, TalkNames DEF LineMutters
<1>3. ASSUME NEW h \in Handler, NEW c \in Call, PlaceCall(h, c) PROVE TalkInv'
  <2> PICK w \in Placed :
         /\ line' = [line EXCEPT ![c] = Mapped(w)]
         /\ connected' = IF Mapped(w) \in {"in_progress", "completed"}
                         THEN connected \cup {c} ELSE connected
         /\ Begin(h, "create", c, Mapped(w)) \/ UNCHANGED <<handler, contended>>
    BY <1>3 DEF PlaceCall
  <2>1. Mapped(w) \in Talked => c \in connected'
    BY DEF Talked
  <2>2. connected \subseteq connected'
    OBVIOUS
  <2> QED
    BY <1>3, <2>1, <2>2, StatusNames DEF PlaceCall, At, Begin
<1>4. ASSUME NEW h \in Handler, NEW c \in Call, Webhook(h, c) PROVE TalkInv'
  <2>1. ASSUME NEW w \in reports[c], status[c] # "none", ReadForEvent(h, c, Mapped(w))
        PROVE  TalkInv'
    BY <1>4, <2>1, MappedTalk, StatusNames DEF Webhook, ReadForEvent, Dealt, On, At, Begin, End, Idle
  <2>2. CASE End(h)
    BY <1>4, <2>2 DEF Webhook, End, Idle
  <2> QED
    BY <1>4, <2>1, <2>2 DEF Webhook
<1>5. ASSUME NEW h \in Handler, NEW c \in Call, Cancel(h, c) PROVE TalkInv'
  BY <1>5, TalkNames DEF Cancel, At, Begin, Live
<1>6. ASSUME NEW h \in Handler, NEW c \in Call, Refresh(h, c) PROVE TalkInv'
  BY <1>6 DEF Refresh, Hears, At, Begin, Live
<1>7. ASSUME NEW h \in Handler, CreateRecord(h) PROVE TalkInv'
  BY <1>7 DEF CreateRecord, At, On, End, Idle
<1>8. ASSUME NEW h \in Handler, Apply(h) PROVE TalkInv'
  BY <1>8 DEF Apply, Dealt, At, On, Begin, End, Idle, IsAnswered, Talked
<1>9. ASSUME NEW h \in Handler, Touch(h) PROVE TalkInv'
  BY <1>9 DEF Touch, Dealt, At, On, Begin, End, Idle
<1>10. ASSUME NEW h \in Handler, HangUp(h) PROVE TalkInv'
  BY <1>10, TalkNames DEF HangUp, At, On, Begin, Live
<1>11. ASSUME NEW h \in Handler, RecordCancel(h) PROVE TalkInv'
  BY <1>11, TalkNames DEF RecordCancel, At, On, End, Idle
<1>12. ASSUME NEW h \in Handler, Ask(h) PROVE TalkInv'
  BY <1>12 DEF Ask, At, On, Begin
<1>13. ASSUME NEW h \in Handler, AskFails(h) PROVE TalkInv'
  BY <1>13 DEF AskFails, End, Idle
<1>14. ASSUME NEW h \in Handler, Find(h) PROVE TalkInv'
  BY <1>14 DEF Find, ReadForEvent, Dealt, At, On, Begin, End, Idle
<1>17. ASSUME NEW h \in Handler, Reread(h) PROVE TalkInv'
  BY <1>17 DEF Reread, Hears, At, On, End, Idle, Pcs
<1>18. ASSUME NEW c \in Call, Leave(c) PROVE TalkInv'
  BY <1>18 DEF Leave
<1>15. CASE Crash
  BY <1>15 DEF Crash, Idle
<1>16. CASE UNCHANGED vars
  BY <1>16 DEF vars
<1> QED
  BY <1>1, <1>2, <1>3, <1>4, <1>5, <1>6, <1>7, <1>8, <1>9, <1>10, <1>11, <1>12, <1>13, <1>14, <1>15, <1>16, <1>17, <1>18
     DEF Next, Proceed

(***************************************************************************)
(* A call counts as answered, and its contact as contacted, only if        *)
(* somebody answered it or we hung up (call.service.ts:215).               *)
(***************************************************************************)
THEOREM AnsweredOnlyIfConnected == Spec => []AnsweredWasConnected
<1>1. TypeInv /\ TalkInv /\ [Next]_vars => (TypeInv /\ TalkInv)'
  BY StepTypeInv, StepTalkInv
<1>2. TalkInv => AnsweredWasConnected
  BY DEF TalkInv
<1> QED
  BY <1>1, <1>2, InitTypeInv, InitTalkInv, PTL DEF Spec
-----------------------------------------------------------------------------
LEMMA InitAlone == Init => SoloInv /\ KnowInv
BY DEF Init, SoloInv, KnowInv, Knows, Idle

LEMMA BeginSolo ==
  ASSUME TypeInv, SoloInv, NEW h \in Handler, NEW c \in Call, NEW pc, NEW to,
         Begin(h, pc, c, to)
  PROVE  SoloInv' /\ contended \subseteq contended'
<1>1. contended \subseteq contended'
  BY DEF Begin
<1>2. ASSUME NEW g \in Handler, g # h, handler[g].call = c PROVE c \in contended'
  BY <1>2 DEF Begin, WorkingOn, On, TypeInv, TypeOK
<1> QED
  BY <1>1, <1>2 DEF SoloInv, Begin, TypeInv, TypeOK

LEMMA EndSolo ==
  ASSUME TypeInv, SoloInv, NEW h \in Handler, End(h)
  PROVE  SoloInv' /\ contended \subseteq contended'
BY StatusNames DEF End, Idle, SoloInv, TypeInv, TypeOK, HandsOK

LEMMA DealtSolo ==
  ASSUME TypeInv, SoloInv, NEW h \in Handler, Dealt(h), On(h) \in Call \/ ~handler[h].polls
  PROVE  SoloInv' /\ contended \subseteq contended'
BY BeginSolo, EndSolo DEF Dealt

LEMMA StepSolo == TypeInv /\ SoloInv /\ [Next]_vars => SoloInv' /\ contended \subseteq contended'
<1> SUFFICES ASSUME TypeInv, SoloInv, [Next]_vars
             PROVE  SoloInv' /\ contended \subseteq contended'
  OBVIOUS
<1>1. ASSUME NEW h \in Handler, NEW c \in Call, NEW s, ReadForEvent(h, c, s)
      PROVE  SoloInv' /\ contended \subseteq contended'
  <2>1. On(h) \in Call \/ ~handler[h].polls
    BY DEF On, TypeInv, HandsOK
  <2> QED
    BY <1>1, <2>1, BeginSolo, DealtSolo DEF ReadForEvent
<1>2. CASE UNCHANGED <<handler, contended>>
  BY <1>2 DEF SoloInv
<1>3. ASSUME NEW c \in Call, LineMoves(c) \/ LineMutters(c) \/ Leave(c)
      PROVE  SoloInv' /\ contended \subseteq contended'
  BY <1>2, <1>3 DEF LineMoves, LineMutters, Leave
<1>4. ASSUME NEW h \in Handler, NEW c \in Call,
             PlaceCall(h, c) \/ Webhook(h, c) \/ Cancel(h, c) \/ Refresh(h, c)
      PROVE  SoloInv' /\ contended \subseteq contended'
  BY <1>1, <1>2, <1>4, BeginSolo, EndSolo DEF PlaceCall, Webhook, Cancel, Refresh
<1>5. ASSUME NEW h \in Handler, Proceed(h) \/ AskFails(h)
      PROVE  SoloInv' /\ contended \subseteq contended'
  <2>1. handler[h].pc # "idle" => On(h) \in Call
    BY DEF On, TypeInv, HandsOK
  <2>2. CASE CreateRecord(h) \/ RecordCancel(h) \/ AskFails(h) \/ Reread(h)
    BY <2>2, EndSolo DEF CreateRecord, RecordCancel, AskFails, Reread
  <2>3. CASE Apply(h) \/ Touch(h)
    BY <2>1, <2>3, BeginSolo, DealtSolo DEF Apply, Touch, At
  <2>4. CASE HangUp(h) \/ Ask(h)
    BY <2>1, <2>4, BeginSolo DEF HangUp, Ask, At
  <2>5. CASE Find(h)
    BY <2>1, <2>5, <1>1 DEF Find, At
  <2> QED
    BY <1>5, <2>2, <2>3, <2>4, <2>5 DEF Proceed
<1>6. CASE Crash
  BY <1>6 DEF Crash, Idle, SoloInv
<1>7. CASE UNCHANGED vars
  BY <1>2, <1>7 DEF vars
<1> QED
  BY <1>3, <1>4, <1>5, <1>6, <1>7 DEF Next

\* What handler h writes to its call is news to nobody who is alone.
LEMMA OthersKnow ==
  ASSUME TypeInv, SoloInv, KnowInv, NEW h \in Handler,
         contended \subseteq contended',
         \A g \in Handler : g # h => handler'[g] = handler[g],
         \A c \in Call : c # handler[h].call => status'[c] = status[c]
  PROVE  \A g \in Handler : g # h => Knows(g)'
<1> SUFFICES ASSUME NEW g \in Handler, g # h, handler[g].pc # "idle",
                    handler[g].call \notin contended'
             PROVE  Knows(g)'
  BY DEF Knows
<1>1. handler[g].call \in Call /\ handler[g].call # handler[h].call
  BY DEF TypeInv, HandsOK, SoloInv
<1> QED
  BY <1>1 DEF KnowInv, Knows

LEMMA Others ==
  ASSUME TypeInv, NEW h \in Handler,
         End(h) \/ \E c, pc, to : Begin(h, pc, c, to)
  PROVE  \A g \in Handler : g # h => handler'[g] = handler[g]
BY DEF End, Begin, TypeInv, TypeOK

LEMMA StepKnow == TypeInv /\ SoloInv /\ KnowInv /\ [Next]_vars => KnowInv'
<1> SUFFICES ASSUME TypeInv, SoloInv, KnowInv, [Next]_vars PROVE KnowInv'
  OBVIOUS
<1>0. contended \subseteq contended'
  BY StepSolo
<1>1. ASSUME UNCHANGED <<handler, status>> PROVE KnowInv'
  BY <1>0, <1>1 DEF KnowInv, Knows
<1>2. ASSUME NEW h \in Handler, End(h),
             \A c \in Call : c # handler[h].call => status'[c] = status[c]
      PROVE  KnowInv'
  <2>1. Knows(h)'
    BY <1>2 DEF End, Idle, Knows, TypeInv, TypeOK
  <2> QED
    BY <1>0, <1>2, <2>1, OthersKnow, Others DEF KnowInv
<1>3. ASSUME NEW h \in Handler, NEW c \in Call, NEW pc, NEW to, Begin(h, pc, c, to),
             \A d \in Call : d # handler[h].call => status'[d] = status[d],
             c \notin contended' =>
               /\ pc = "create" => status'[c] = "none"
               /\ pc = "apply" => to \in Allowed(status'[c])
               /\ pc \in {"hangup", "cancel"} => Live(status'[c])
      PROVE  KnowInv'
  <2>1. handler'[h].pc = pc /\ handler'[h].call = c /\ handler'[h].to = to
    BY <1>3 DEF Begin, TypeInv, TypeOK
  <2>2. Knows(h)'
    BY <1>3, <2>1 DEF Knows
  <2> QED
    BY <1>0, <1>3, <2>2, OthersKnow, Others DEF KnowInv
<1>17. ASSUME NEW h \in Handler, Dealt(h),
              \A c \in Call : c # handler[h].call => status'[c] = status[c]
       PROVE  KnowInv'
  <2>1. handler[h].polls => On(h) \in Call
    BY DEF On, TypeInv, TypeOK, HandsOK
  <2> QED
    BY <1>2, <1>3, <1>17, <2>1 DEF Dealt
<1>4. ASSUME NEW h \in Handler, NEW c \in Call, NEW s, ReadForEvent(h, c, s), UNCHANGED status
      PROVE  KnowInv'
  <2>1. CASE Dealt(h)
    BY <1>17, <1>4, <2>1
  <2>2. CASE Begin(h, "apply", c, s) /\ s \in Allowed(status[c])
    BY <1>3, <1>4, <2>2
  <2> QED
    BY <1>4, <2>1, <2>2 DEF ReadForEvent
<1>5. ASSUME NEW c \in Call, LineMoves(c) \/ LineMutters(c) \/ Leave(c) PROVE KnowInv'
  BY <1>1, <1>5 DEF LineMoves, LineMutters, Leave, records
<1>6. ASSUME NEW h \in Handler, NEW c \in Call, PlaceCall(h, c) PROVE KnowInv'
  <2>1. status[c] = "none" /\ UNCHANGED status
    BY <1>6 DEF PlaceCall, records, TypeInv, HandsOK
  <2>2. CASE UNCHANGED handler
    BY <1>1, <2>1, <2>2
  <2>3. ASSUME NEW w, Begin(h, "create", c, w) PROVE KnowInv'
    BY <1>3, <2>1, <2>3
  <2> QED
    BY <1>6, <2>2, <2>3 DEF PlaceCall
<1>7. ASSUME NEW h \in Handler, NEW c \in Call, Webhook(h, c) PROVE KnowInv'
  BY <1>2, <1>4, <1>7 DEF Webhook, records
<1>8. ASSUME NEW h \in Handler, NEW c \in Call, Cancel(h, c) \/ Refresh(h, c) PROVE KnowInv'
  BY <1>1, <1>3, <1>8 DEF Cancel, Refresh, records
<1>9. ASSUME NEW h \in Handler, CreateRecord(h) \/ RecordCancel(h) PROVE KnowInv'
  <2>1. End(h) /\ \A c \in Call : c # handler[h].call => status'[c] = status[c]
    BY <1>9 DEF CreateRecord, RecordCancel, On, TypeInv, TypeOK
  <2> QED
    BY <1>2, <2>1
<1>10. ASSUME NEW h \in Handler, Touch(h) \/ AskFails(h) \/ Reread(h) PROVE KnowInv'
  BY <1>2, <1>10, <1>17 DEF Touch, AskFails, Reread, records
<1>11. ASSUME NEW h \in Handler, Apply(h) PROVE KnowInv'
  <2>1. On(h) \in Call /\ \A c \in Call : c # handler[h].call => status'[c] = status[c]
    BY <1>11 DEF Apply, At, On, TypeInv, TypeOK, HandsOK
  <2>2. CASE Dealt(h)
    BY <1>17, <2>1, <2>2
  <2>3. CASE Begin(h, "touch", On(h), None)
    BY <1>3, <2>1, <2>3
  <2> QED
    BY <1>11, <2>2, <2>3 DEF Apply
<1>12. ASSUME NEW h \in Handler, HangUp(h) PROVE KnowInv'
  <2>1. On(h) \in Call /\ Begin(h, "cancel", On(h), None) /\ UNCHANGED status
    BY <1>12 DEF HangUp, At, On, records, TypeInv, HandsOK
  <2>2. On(h) \notin contended' => Live(status[On(h)])
    BY <1>0, <1>12 DEF HangUp, At, On, KnowInv, Knows
  <2> QED
    BY <1>3, <2>1, <2>2
<1>13. ASSUME NEW h \in Handler, Ask(h) PROVE KnowInv'
  <2>1. On(h) \in Call /\ Begin(h, "find", On(h), line[On(h)]) /\ UNCHANGED status
    BY <1>13 DEF Ask, At, On, records, TypeInv, HandsOK
  <2> QED
    BY <1>3, <2>1
<1>14. ASSUME NEW h \in Handler, Find(h) PROVE KnowInv'
  <2>1. On(h) \in Call /\ ReadForEvent(h, On(h), handler[h].to) /\ UNCHANGED status
    BY <1>14 DEF Find, At, On, records, TypeInv, HandsOK
  <2> QED
    BY <1>4, <2>1
<1>15. CASE Crash
  BY <1>15 DEF Crash, Idle, KnowInv, Knows
<1>16. CASE UNCHANGED vars
  BY <1>1, <1>16 DEF vars
<1> QED
  BY <1>5, <1>6, <1>7, <1>8, <1>9, <1>10, <1>11, <1>12, <1>13, <1>14, <1>15, <1>16
     DEF Next, Proceed

LEMMA AllowedForward == \A s \in Statuses : \A t \in Allowed(s) : Stage(s) < Stage(t)
BY DEF Allowed, Stage, Statuses, Terminal

LEMMA CancelForward == \A s \in Statuses : Live(s) => Stage(s) < Stage("canceled")
BY DEF Live, Stage, Statuses, Terminal

LEMMA StepForward ==
  TypeInv /\ SoloInv /\ KnowInv /\ [Next]_vars =>
    \A c \in Call \ contended' :
      status[c] \notin {"none", status'[c]} => Stage(status[c]) < Stage(status'[c])
<1> SUFFICES ASSUME TypeInv, SoloInv, KnowInv, [Next]_vars,
                    NEW c \in Call \ contended', status[c] \notin {"none", status'[c]}
             PROVE  Stage(status[c]) < Stage(status'[c])
  OBVIOUS
<1>1. c \notin contended
  BY StepSolo
<1>2. PICK h \in Handler : CreateRecord(h) \/ Apply(h) \/ RecordCancel(h)
  BY DEF Next, Proceed, vars, records, LineMoves, LineMutters, PlaceCall, Webhook, Cancel,
     Refresh, Touch, HangUp, Ask, AskFails, Find, Reread, Leave, Crash
<1>3. c = handler[h].call /\ handler[h].pc # "idle"
  BY <1>2 DEF CreateRecord, Apply, RecordCancel, At, On, TypeInv, TypeOK
<1>4. Knows(h)
  BY DEF KnowInv
<1>5. status'[c] \in Allowed(status[c]) \/ (Live(status[c]) /\ status'[c] = "canceled")
  BY <1>1, <1>2, <1>3, <1>4
     DEF Knows, CreateRecord, Apply, RecordCancel, At, On, TypeInv, TypeOK
<1>6. status[c] \in Statuses
  BY DEF TypeInv, TypeOK
<1> QED
  BY <1>5, <1>6, AllowedForward, CancelForward

(***************************************************************************)
(* On a call that two handlers never worked on at once, late, repeated and *)
(* unordered reports only move the record forward (call-state-machine.ts). *)
(***************************************************************************)
THEOREM StatusMovesForward == Spec => ForwardOnly
<1>1. TypeInv /\ SoloInv /\ KnowInv /\ [Next]_vars => (TypeInv /\ SoloInv /\ KnowInv)'
  BY StepTypeInv, StepSolo, StepKnow
<1>2. Init => TypeInv /\ SoloInv /\ KnowInv
  BY InitTypeInv, InitAlone
<1>3. TypeInv /\ SoloInv /\ KnowInv /\ [Next]_vars =>
        [\A c \in Call \ contended' :
           status[c] \notin {"none", status'[c]} =>
             Stage(status[c]) < Stage(status'[c])]_vars
  BY StepForward
<1> QED
  BY <1>1, <1>2, <1>3, PTL DEF Spec, ForwardOnly

=============================================================================
