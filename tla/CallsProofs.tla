------------------------------ MODULE CallsProofs ------------------------------
(***************************************************************************)
(* Lemmas about the life of a request (Calls) and about the names clients  *)
(* write (Names), for the proofs about the components that EXTEND them.    *)
(***************************************************************************)
EXTENDS Calls, Names, TLAPS

\* What a step of a component does to the variables of Calls.
CallsStep ==
    \/ UNCHANGED callVars
    \/ \E r \in Requests :
         \/ AnsweredAtOnce(r) \/ Sends(r) \/ Returns(r) \/ Executes(r)
         \/ \E status \in FailureCodes : Raises(r, status)
    \/ Crashes

\* The await of r ends.
Wakes(r) == Returns(r) \/ \E status \in FailureCodes : Raises(r, status)

\* How the three accounts of a request go together: no call without a handler that
\* makes one, no outcome before the await is over, and no reply to what the
\* service has not executed.
LifeInv ==
    \A r \in Requests :
        /\ pc[r] = "idle" => svc[r] = "none"
        /\ pc[r] = "waiting" => svc[r] \in {"pending", "executed"}
        /\ seen[r] # "none" => pc[r] = "answered" /\ svc[r] # "none"
        /\ seen[r] = "OK" => svc[r] = "executed"

\* A failed call ends with a status that is neither "OK" nor "none", and only such a
\* status is covered by a fallback.
LEMMA Failures ==
    /\ "OK" \notin FailureCodes /\ "none" \notin FailureCodes
    /\ "OK" \notin MOCKABLE_DOWNSTREAM_GAP_CODES
    /\ "none" \notin MOCKABLE_DOWNSTREAM_GAP_CODES
    /\ \A status \in FailureCodes :
          ShouldUseMockFallback(MapGrpcError(status)) =>
              status \in MOCKABLE_DOWNSTREAM_GAP_CODES
  BY CallsAssumption
     DEF CallsAssumption, StatusCode, MOCKABLE_DOWNSTREAM_GAP_CODES,
         ShouldUseMockFallback, MapGrpcError, GRPC_STATUS_TO_HTTP

\* A failed call is answered with a status of its own: neither 200, nor the 500 of an
\* answer that does not fit its model, nor the 0 of no answer.
LEMMA FailureStatus ==
    ASSUME NEW status \in FailureCodes
    PROVE  MapGrpcError(status).status_code \in
               {400, 401, 403, 404, 409, 429, 501, 502, 503, 504}
  <1>1. status \in StatusCode
    BY CallsAssumption DEF CallsAssumption
  <1> QED
    BY <1>1 DEF MapGrpcError, GRPC_STATUS_TO_HTTP, StatusCode

\* The initial state of the shared part is well typed.
LEMMA CallsTypeInit == CallsInit => CallsTypeOK /\ LifeInv
  BY CallsAssumption DEF CallsAssumption, CallsInit, CallsTypeOK, LifeInv

\* The steps of the shared part keep its variables well typed.
LEMMA CallsType == CallsTypeOK /\ CallsStep => CallsTypeOK'
  BY CallsAssumption
     DEF CallsTypeOK, CallsAssumption, CallsStep, callVars, AnsweredAtOnce, Sends, Returns,
         Executes, Raises, Refused, OutOfReach, Crashes

\* And they keep the three accounts together.
LEMMA LifeStep == CallsTypeOK /\ LifeInv /\ CallsStep => LifeInv'
  <1> SUFFICES ASSUME CallsTypeOK, LifeInv, CallsStep PROVE LifeInv'
    OBVIOUS
  <1> USE DEF CallsTypeOK, LifeInv
  <1>1. CASE UNCHANGED callVars
    BY <1>1 DEF callVars
  <1>2. ASSUME NEW r \in Requests,
               AnsweredAtOnce(r) \/ Sends(r) \/ Returns(r) \/ Executes(r)
        PROVE  LifeInv'
    BY <1>2 DEF AnsweredAtOnce, Sends, Returns, Executes
  <1>3. ASSUME NEW r \in Requests, NEW status \in FailureCodes, Raises(r, status)
        PROVE  LifeInv'
    BY <1>3, Failures DEF Raises, Refused, OutOfReach
  <1>4. CASE Crashes
    BY <1>4 DEF Crashes
  <1> QED
    BY <1>1, <1>2, <1>3, <1>4 DEF CallsStep

\* What has been is not undone: a request that has come in does not come in again,
\* one that is answered stays so with the outcome it had, and what the service has
\* executed stays executed.
LEMMA LifeGoesOn ==
    ASSUME CallsTypeOK, LifeInv, CallsStep, NEW q \in Requests
    PROVE  /\ pc[q] # "idle" => pc'[q] # "idle"
           /\ pc[q] = "answered" => pc'[q] = "answered" /\ seen'[q] = seen[q]
           /\ svc[q] = "executed" => svc'[q] = "executed"
           /\ svc[q] # "none" => svc'[q] # "none"
  <1> USE DEF CallsTypeOK, LifeInv
  <1>1. CASE UNCHANGED callVars
    BY <1>1 DEF callVars
  <1>2. ASSUME NEW r \in Requests,
               AnsweredAtOnce(r) \/ Sends(r) \/ Returns(r) \/ Executes(r)
        PROVE  /\ pc[q] # "idle" => pc'[q] # "idle"
               /\ pc[q] = "answered" => pc'[q] = "answered" /\ seen'[q] = seen[q]
               /\ svc[q] = "executed" => svc'[q] = "executed"
               /\ svc[q] # "none" => svc'[q] # "none"
    <2>1. CASE AnsweredAtOnce(r)
      BY <2>1 DEF AnsweredAtOnce
    <2>2. CASE Sends(r)
      BY <2>2 DEF Sends
    <2>3. CASE Returns(r)
      BY <2>3 DEF Returns
    <2>4. CASE Executes(r)
      BY <2>4 DEF Executes
    <2> QED
      BY <1>2, <2>1, <2>2, <2>3, <2>4
  <1>3. ASSUME NEW r \in Requests, NEW status \in FailureCodes, Raises(r, status)
        PROVE  /\ pc[q] # "idle" => pc'[q] # "idle"
               /\ pc[q] = "answered" => pc'[q] = "answered" /\ seen'[q] = seen[q]
               /\ svc[q] = "executed" => svc'[q] = "executed"
               /\ svc[q] # "none" => svc'[q] # "none"
    BY <1>3 DEF Raises, Refused, OutOfReach
  <1>4. CASE Crashes
    BY <1>4 DEF Crashes
  <1> QED
    BY <1>1, <1>2, <1>3, <1>4 DEF CallsStep

\* What ending its await makes of a request, and of no other.
LEMMA Waking ==
    ASSUME CallsTypeOK, NEW r \in Requests, Wakes(r)
    PROVE  /\ pc[r] = "waiting" /\ pc' = [pc EXCEPT ![r] = "answered"]
           /\ seen'[r] # "none" /\ epoch' = epoch
           /\ \A q \in Requests : q # r => seen'[q] = seen[q] /\ svc'[q] = svc[q]
  <1>1. CASE Returns(r)
    BY <1>1 DEF Returns, CallsTypeOK
  <1>2. ASSUME NEW status \in FailureCodes, Raises(r, status)
        PROVE  /\ pc[r] = "waiting" /\ pc' = [pc EXCEPT ![r] = "answered"]
               /\ seen'[r] # "none" /\ epoch' = epoch
               /\ \A q \in Requests : q # r => seen'[q] = seen[q] /\ svc'[q] = svc[q]
    BY <1>2, Failures DEF Raises, Refused, OutOfReach, CallsTypeOK
  <1> QED
    BY <1>1, <1>2 DEF Wakes

-----------------------------------------------------------------------------
(* Names. *)

\* A name of these four parts.
Written(word, prefixed, lower, blanks) ==
    [word |-> word, prefixed |-> prefixed, lower |-> lower, blanks |-> blanks]

\* What changing one part of a name makes of it.
LEMMA ChangedName ==
    ASSUME NEW w, NEW p, NEW l, NEW d, NEW n, n = Written(w, p, l, d), NEW f, NEW m
    PROVE  /\ m = [n EXCEPT !.lower = f] => m = Written(w, p, f, d)
           /\ m = [n EXCEPT !.blanks = f] => m = Written(w, p, l, f)
           /\ m = [n EXCEPT !.prefixed = f] => m = Written(w, f, l, d)
  <1>1. ASSUME m = [n EXCEPT !.lower = f] PROVE m = Written(w, p, f, d)
    BY <1>1 DEF Written
  <1>2. ASSUME m = [n EXCEPT !.blanks = f] PROVE m = Written(w, p, l, f)
    BY <1>2 DEF Written
  <1>3. ASSUME m = [n EXCEPT !.prefixed = f] PROVE m = Written(w, f, l, d)
    BY <1>3 DEF Written
  <1> QED
    BY <1>1, <1>2, <1>3

\* Normalizing a name leaves its word and its prefix.
LEMMA NormalizedName ==
    ASSUME NEW words, NEW name \in Name(words)
    PROVE  /\ Normalized(name).word = name.word
           /\ Normalized(name).prefixed = name.prefixed
           /\ name.prefixed = FALSE => Normalized(name) = Plain(name.word)
  <1> DEFINE no == FALSE
             bare == {}
             u == Upcased(name)
             v == Normalized(name)
             w == name.word
             p == name.prefixed
             l == name.lower
             d == name.blanks
  <1>1. u = [name EXCEPT !.lower = no]
    BY DEF Upcased
  <1>2. v = [u EXCEPT !.blanks = bare]
    BY DEF Normalized
  <1>3. name = Written(w, p, l, d)
    BY DEF Name, Written
  <1> HIDE DEF no, bare, u, v, w, p, l, d
  <1>4. u = Written(w, p, no, d)
    BY <1>1, <1>3, ChangedName
  <1>5. v = Written(w, p, no, bare)
    BY <1>2, <1>4, ChangedName
  <1>6. v.word = w /\ v.prefixed = p
    BY <1>5 DEF Written
  <1>7. p = FALSE => v = Plain(w)
    BY <1>5 DEF Written, Plain, no, bare
  <1> QED
    BY <1>6, <1>7 DEF v, w, p

\* The parser reads a name it knows as its word, and it knows a name by its word.
LEMMA ParsedName ==
    ASSUME NEW words, NEW name \in Name(words), NEW values
    PROVE  /\ Parse(name, values) \in values \cup {"UNSPECIFIED"}
           /\ Parse(name, values) # "UNSPECIFIED" => Parse(name, values) = name.word
           /\ name.word \in values => Parse(name, values) = name.word
  <1>1. name.prefixed \in BOOLEAN
    BY DEF Name
  <1> QED
    BY <1>1, NormalizedName DEF Parse

===============================================================================
