------------------------------- MODULE Dialing -------------------------------
(***************************************************************************)
(* From a telephone number as someone writes it to the call that is        *)
(* placed: the normalization that tells contacts apart (phone.ts), the     *)
(* choice of a provider by destination (call-routing.ts), the checks of    *)
(* CallService.startCall() in their order, and the request the Exotel      *)
(* adapter makes.  What becomes of a call once it is placed is in Calls.   *)
(*                                                                         *)
(* A number is the sequence of its digits.  The separators people put      *)
(* between them are dropped by the code and are not in the model.          *)
(***************************************************************************)
EXTENDS Naturals, Sequences, FiniteSets, SequencesExt

CONSTANTS Written,   \* numbers of contacts as they are written: [plus, digits]
          Agent,     \* those of the agents
          DialCode,  \* the countries' dialling codes
          Holder     \* contacts that may be kept

VARIABLES
  env,    \* what is configured
  holder, \* contacts: the number as kept, and normalized
  placed  \* the last answer of startCall()

dialingVars == <<env, holder, placed>>

Home == <<9, 1>>  \* DEFAULT_COUNTRY_CODE
NationalLength == 10
MinDigits == 7
MaxDigits == 15
NoNumber == << >>

ASSUME DialingAssumption ==
  \A w \in Written \cup Agent : w.plus \in BOOLEAN /\ w.digits \in Seq(0 .. 9)

-----------------------------------------------------------------------------
(***************************************************************************)
(* normalizePhone(): the digits of an E.164 number, or none.               *)
(***************************************************************************)

\* Mutant of NormalizePhone: a number that begins with the country code is
\* taken to carry it, whatever its length.
NormalizeByPrefix(w) ==
  LET digits == w.digits
      long == Len(digits)
  IN  IF long < MinDigits \/ long > MaxDigits THEN NoNumber
      ELSE IF w.plus THEN digits
      ELSE IF IsPrefix(<<0, 0>>, digits) /\ long > 9 THEN SubSeq(digits, 3, long)
      ELSE IF IsPrefix(Home, digits) THEN digits
      ELSE IF long = NationalLength THEN Home \o digits
      ELSE IF long = NationalLength + 1 /\ Head(digits) = 0 THEN Home \o Tail(digits)
      ELSE digits

NormalizePhone(w) ==
  LET digits == w.digits
      long == Len(digits)
  IN  IF long < MinDigits \/ long > MaxDigits THEN NoNumber
      ELSE IF w.plus THEN digits
      ELSE IF IsPrefix(<<0, 0>>, digits) /\ long > 9 THEN SubSeq(digits, 3, long)
      ELSE IF IsPrefix(Home, digits) /\ long = Len(Home) + NationalLength THEN digits
      ELSE IF long = NationalLength THEN Home \o digits
      ELSE IF long = NationalLength + 1 /\ Head(digits) = 0 THEN Home \o Tail(digits)
      ELSE digits

E164(digits) == [plus |-> TRUE, digits |-> digits]

-----------------------------------------------------------------------------
(***************************************************************************)
(* Routing.                                                                *)
(***************************************************************************)

\* extractCountryCode(): the longest code the number begins with
Country(digits) ==
  LET codes == {c \in DialCode : IsPrefix(c, digits)}
  IN  IF codes = {} THEN NoNumber ELSE CHOOSE c \in codes : \A d \in codes : Len(d) <= Len(c)

\* DOMESTIC_PROVIDERS
Operator(country) == IF country = <<9, 1>> THEN "exotel" ELSE "none"

\* createCallModule(): a provider is there only when it is fully configured.
Available == IF {"account", "secret"} \subseteq env THEN {"exotel"} ELSE {}

\* CallerIdResolver.resolve()
CallerId(country) ==
  CASE country = <<9, 1>> /\ "callerId" \in env -> "callerId"
    [] "default" \in env -> "default"
    [] "callerId" \in env -> "callerId"
    [] OTHER -> "none"

\* routeCall()
RouteRefusal(digits) ==
  CASE Country(digits) = NoNumber -> "CALL_DESTINATION_INVALID"
    [] Operator(Country(digits)) \notin Available -> "CALL_DESTINATION_UNSUPPORTED"
    [] OTHER -> "none"

-----------------------------------------------------------------------------
(***************************************************************************)
(* The provider.                                                           *)
(***************************************************************************)

\* errorForStatus(): the code of the error and whether to try again
ErrorForStatus(status) ==
  CASE status \in {401, 403} -> [code |-> "CALL_PROVIDER_AUTH_FAILED", retryable |-> FALSE]
    [] status = 404 -> [code |-> "CALL_NOT_FOUND", retryable |-> FALSE]
    [] status = 429 -> [code |-> "CALL_PROVIDER_RATE_LIMITED", retryable |-> TRUE]
    [] status >= 500 -> [code |-> "CALL_PROVIDER_UNAVAILABLE", retryable |-> TRUE]
    [] OTHER -> [code |-> "CALL_PROVIDER_REJECTED", retryable |-> FALSE]

\* request(): what may come of it
Requests == {[code |-> "none"],
             [code |-> "CALL_PROVIDER_TIMEOUT", retryable |-> TRUE],
             [code |-> "CALL_PROVIDER_UNREACHABLE", retryable |-> TRUE]}
            \cup {ErrorForStatus(status) : status \in {400, 401, 404, 429, 500}}

\* placeCall() of the adapter: an answer without a call is an error too.
Placings == Requests \cup {[code |-> "CALL_PROVIDER_INVALID_RESPONSE", retryable |-> TRUE]}

\* toAppError()
HttpStatus(error) ==
  CASE error.code = "CALL_DESTINATION_UNSUPPORTED" -> 409
    [] error.retryable -> 503
    [] OTHER -> 400

-----------------------------------------------------------------------------
(***************************************************************************)
(* The steps.                                                              *)
(***************************************************************************)

NotPlaced == [status |-> 0]

DialingInit ==
  /\ env \in SUBSET {"account", "secret", "callerId", "default"}
  /\ holder = {} /\ placed = NotPlaced

\* A contact is kept unless another has its number.
Keep(phone, normalized) ==
  /\ Cardinality(holder) < Cardinality(Holder)
  /\ \A h \in holder : h.normalized # normalized
  /\ \E id \in Holder \ {h.id : h \in holder} :
       holder' = holder \cup {[id |-> id, phone |-> phone, normalized |-> normalized]}
  /\ placed' = NotPlaced /\ UNCHANGED env

\* ContactService.create(): the number is kept as it was written.
CreateContact(w) == NormalizePhone(w) # NoNumber /\ Keep(w, NormalizePhone(w))

\* RowBuilder and the commit: the normalized number is kept, and normalized again.
ImportContact(w) ==
  LET phone == E164(NormalizePhone(w))
  IN  NormalizePhone(w) # NoNumber /\ Keep(phone, NormalizePhone(phone))

\* startCall(), up to the record
StartCall(h, agent, request) ==
  LET to == NormalizePhone(h.phone)
      from == NormalizePhone(agent)
      refuse(error) == placed' = [status |-> HttpStatus(error), code |-> error.code]
  IN  /\ h \in holder
      /\ CASE to = NoNumber -> placed' = [status |-> 400, code |-> "CONTACT_PHONE_INVALID"]
           [] from = NoNumber -> placed' = [status |-> 400, code |-> "AGENT_PHONE_INVALID"]
           [] RouteRefusal(to) # "none" -> refuse([code |-> RouteRefusal(to), retryable |-> FALSE])
           [] CallerId(Country(to)) = "none" -> placed' = [status |-> 409, code |-> "CALLER_ID_NOT_CONFIGURED"]
           [] request.code # "none" -> refuse(request)
           [] OTHER -> placed' = [status |-> 201, id |-> h.id, to |-> to, from |-> from,
                                  callerId |-> CallerId(Country(to))]
      /\ UNCHANGED <<env, holder>>

DialingNext ==
  \/ \E w \in Written : CreateContact(w) \/ ImportContact(w)
  \/ \E h \in holder, agent \in Agent, request \in Placings : StartCall(h, agent, request)

DialingSpec == DialingInit /\ [][DialingNext]_dialingVars

-----------------------------------------------------------------------------
(***************************************************************************)
(* Properties.                                                             *)
(***************************************************************************)

\* The ways to write a national number, which never begins with a zero.
Spellings(n) ==
  {[plus |-> FALSE, digits |-> n], [plus |-> FALSE, digits |-> <<0>> \o n],
   [plus |-> FALSE, digits |-> Home \o n], [plus |-> FALSE, digits |-> <<0, 0>> \o Home \o n],
   [plus |-> TRUE, digits |-> Home \o n]}

Nationals == {w.digits : w \in {w \in Written : Len(w.digits) = NationalLength /\ Head(w.digits) # 0}}

(***************************************************************************)
(* No two contacts are the same line, however their numbers were written   *)
(* and whether typed or imported; and a call goes to the line its contact  *)
(* is told from the others by, though it is placed from the number as      *)
(* kept.                                                                   *)
(***************************************************************************)
OneContactPerLine ==
  /\ \A g, h \in holder, n \in Nationals :
       {g.phone, h.phone} \subseteq Spellings(n) => g = h
  /\ placed.status = 201 => \E h \in holder : h.id = placed.id /\ h.normalized = placed.to

=============================================================================
