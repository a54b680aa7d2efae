--------------------------- MODULE Routing_proofs ---------------------------
(*****************************************************************************)
(* For any adapters, countries, configurations, callers, scores and          *)
(* latencies: what the circuit of an adapter says, which provider serves a   *)
(* country, and what is made of the carriers' answers.                       *)
(*****************************************************************************)
EXTENDS SmartRouter, Carriers, Induction

(* The smart router *)

LEMMA RouterInvInit == Init => IInv
  BY RouterAssumption DEF Init, IInv, CountersOK, CircuitReflectsStats, Stats, NoStats

\* What one more call does to the counters, counted or not.
LEMMA CountedOK ==
  ASSUME NEW s \in Stats, NEW ok \in BOOLEAN, NEW ms \in Nat, s.total = s.success + s.failure
  PROVE  LET n == Counted(s, ok, ms) IN
           /\ n \in Stats /\ n.total = n.success + n.failure
           /\ ~ok => \/ n.total = s.total /\ n.failure = s.failure
                     \/ n.total = s.total + 1 /\ n.failure = s.failure + 1
<1>1. s.total \in Nat /\ s.success \in Nat /\ s.failure \in Nat /\ s.latency \in Nat
  BY DEF Stats
<1>2. CASE s.total + 1 \notin Totals
  BY <1>2 DEF Counted
<1>3. CASE s.total + 1 \in Totals
  <2>1. CASE ok
    <3>1. Counted(s, ok, ms) = [total |-> s.total + 1, latency |-> s.latency + ms,
                                success |-> s.success + 1, failure |-> s.failure + 0]
      BY <1>3, <2>1 DEF Counted
    <3> DEFINE n == Counted(s, ok, ms)
    <3> HIDE DEF n
    <3>2. /\ n.total = s.total + 1 /\ n.success = s.success + 1 /\ n.failure = s.failure
          /\ n \in Stats
      BY <1>1, <3>1 DEF Stats, n
    <3>3. n.total = n.success + n.failure
      BY <1>1, <3>2
    <3> QED BY <2>1, <3>2, <3>3 DEF n
  <2>2. CASE ~ok
    <3>1. Counted(s, ok, ms) = [total |-> s.total + 1, latency |-> s.latency + ms,
                                success |-> s.success + 0, failure |-> s.failure + 1]
      BY <1>3, <2>2 DEF Counted
    <3> DEFINE n == Counted(s, ok, ms)
    <3> HIDE DEF n
    <3>2. /\ n.total = s.total + 1 /\ n.success = s.success /\ n.failure = s.failure + 1
          /\ n \in Stats
      BY <1>1, <3>1 DEF Stats, n
    <3>3. n.total = n.success + n.failure
      BY <1>1, <3>2
    <3> QED BY <3>2, <3>3 DEF n
  <2> QED BY <2>1, <2>2
<1> QED BY <1>2, <1>3

\* What the invariant says of one adapter.
Honest(s, isOpen, n) ==
  isOpen <=> n > 0 /\ s.total > MinRequests /\ 2 * s.failure > s.total

AdapterOK(a) ==
  /\ stats[a] \in Stats /\ failing[a] \in Nat
  /\ stats[a].total = stats[a].success + stats[a].failure
  /\ Honest(stats[a], a \in open, failing[a])

\* It is enough to look at the adapter whose call is recorded.
LEMMA OneAdapter ==
  ASSUME IInv, NEW x, NEW s, NEW n,
         stats' = [stats EXCEPT ![x] = s], failing' = [failing EXCEPT ![x] = n],
         open' \ {x} = open \ {x},
         x \in Adapters => /\ s \in Stats /\ n \in Nat /\ s.total = s.success + s.failure
                           /\ Honest(s, x \in open', n)
  PROVE  IInv'
<1>1. /\ stats \in [Adapters -> Stats] /\ failing \in [Adapters -> Nat]
      /\ \A b \in Adapters : AdapterOK(b)
  BY DEF IInv, CountersOK, CircuitReflectsStats, AdapterOK, Honest
<1>2. ASSUME NEW b \in Adapters
      PROVE  /\ stats'[b] \in Stats /\ failing'[b] \in Nat
             /\ stats'[b].total = stats'[b].success + stats'[b].failure
             /\ Honest(stats'[b], b \in open', failing'[b])
  <2>1. CASE b = x
    <3>1. stats'[b] = s /\ failing'[b] = n
      BY <1>1, <2>1
    <3> QED BY <2>1, <3>1
  <2>2. CASE b # x
    <3>1. stats'[b] = stats[b] /\ failing'[b] = failing[b] /\ (b \in open' <=> b \in open)
      BY <1>1, <2>2
    <3>2. AdapterOK(b)
      BY <1>1
    <3> QED BY <3>1, <3>2 DEF AdapterOK, Honest
  <2> QED BY <2>1, <2>2
<1>3. stats' \in [Adapters -> Stats] /\ failing' \in [Adapters -> Nat]
  <2>1. DOMAIN stats' = Adapters /\ DOMAIN failing' = Adapters
    BY <1>1
  <2>2. stats' = [b \in Adapters |-> stats'[b]] /\ failing' = [b \in Adapters |-> failing'[b]]
    BY <1>1
  <2> QED BY <1>2, <2>2
<1> QED BY <1>2, <1>3 DEF IInv, CountersOK, CircuitReflectsStats, Honest

\* A success is counted, and closes the circuit.
LEMMA SuccessOK ==
  ASSUME IInv, NEW r \in Requests, RecordSuccess(r)
  PROVE  IInv'
<1> DEFINE a == req[r].adapter
<1>1. PICK ms \in Latencies : stats' = [stats EXCEPT ![a] = Counted(stats[a], TRUE, ms)]
  BY DEF RecordSuccess
<1> DEFINE s == Counted(stats[a], TRUE, ms)
<1>2. open' = open \ {a} /\ failing' = [failing EXCEPT ![a] = 0]
  BY DEF RecordSuccess
<1>3. open' \ {a} = open \ {a} /\ a \notin open'
  BY <1>2
<1>4. ASSUME a \in Adapters
      PROVE  s \in Stats /\ s.total = s.success + s.failure
  <2>1. stats[a] \in Stats /\ stats[a].total = stats[a].success + stats[a].failure
    BY <1>4 DEF IInv, CountersOK
  <2>2. ms \in Nat
    BY RouterAssumption
  <2> QED BY <2>1, <2>2, CountedOK
<1>5. Honest(s, a \in open', 0)
  BY <1>3 DEF Honest
<1> HIDE DEF a, s
<1> QED BY <1>1, <1>2, <1>3, <1>4, <1>5, OneAdapter DEF s

\* A failure is counted, and opens the circuit exactly if the counters now say so.
LEMMA FailureOK ==
  ASSUME IInv, NEW r \in Requests, RecordFailure(r)
  PROVE  IInv'
<1> DEFINE a == req[r].adapter
<1>1. PICK ms \in Latencies : stats' = [stats EXCEPT ![a] = Counted(stats[a], FALSE, ms)]
  BY DEF RecordFailure
<1> DEFINE s == Counted(stats[a], FALSE, ms)
           n == IF failing[a] < Streak THEN failing[a] + 1 ELSE Streak
           due == s.total > MinRequests /\ 2 * s.failure > s.total
<1>2. failing' = [failing EXCEPT ![a] = n]
  BY DEF RecordFailure
<1>3. ASSUME a \in Adapters
      PROVE  /\ stats[a] \in Stats /\ ms \in Nat /\ stats'[a] = s
             /\ failing[a] \in Nat /\ MinRequests \in Nat
             /\ stats[a].total = stats[a].success + stats[a].failure
             /\ stats[a].total \in Nat /\ stats[a].success \in Nat /\ stats[a].failure \in Nat
             /\ Honest(stats[a], a \in open, failing[a])
  BY <1>1, <1>3, RouterAssumption
     DEF IInv, CountersOK, CircuitReflectsStats, Honest, Stats
<1>4. ASSUME a \in Adapters
      PROVE  /\ s \in Stats /\ s.total = s.success + s.failure
             /\ \/ s.total = stats[a].total /\ s.failure = stats[a].failure
                \/ s.total = stats[a].total + 1 /\ s.failure = stats[a].failure + 1
             /\ n \in Nat /\ n > 0
  <2>1. n \in Nat /\ n > 0
    <3>1. failing[a] \in Nat
      BY <1>3, <1>4
    <3>2. Streak \in Nat /\ Streak > 0
      BY RouterAssumption
    <3> HIDE DEF a
    <3> QED BY <3>1, <3>2
  <2> QED BY <1>3, <1>4, <2>1, CountedOK
<1>5. /\ open' \ {a} = open \ {a}
      /\ IF stats'[a].total > MinRequests /\ 2 * stats'[a].failure > stats'[a].total
         THEN a \in open' ELSE open' = open
  BY DEF RecordFailure
<1>6. ASSUME a \in Adapters PROVE Honest(s, a \in open', n)
  <2>1. (stats'[a].total > MinRequests /\ 2 * stats'[a].failure > stats'[a].total) <=> due
    BY <1>3, <1>6
  <2>2. CASE due
    <3>1. a \in open'
      BY <1>5, <2>1, <2>2
    <3> HIDE DEF n
    <3> QED BY <1>4, <1>6, <2>2, <3>1 DEF Honest
  <2>3. CASE ~due
    <3>1. ~(stats[a].total > MinRequests /\ 2 * stats[a].failure > stats[a].total)
      <4>1. SUFFICES ASSUME stats[a].total > MinRequests, 2 * stats[a].failure > stats[a].total
                     PROVE  due
        BY <2>3
      <4> HIDE DEF s
      <4> QED BY <1>3, <1>4, <1>6, <4>1
    <3>2. a \notin open'
      BY <1>3, <1>5, <1>6, <2>1, <2>3, <3>1 DEF Honest
    <3> QED BY <2>3, <3>2 DEF Honest
  <2> QED BY <2>2, <2>3
<1> HIDE DEF a, s, n
<1> QED BY <1>1, <1>2, <1>4, <1>5, <1>6, OneAdapter DEF s, n

\* Every step keeps the invariant of the smart router.
LEMMA RouterInvStep == IInv /\ [Next]_vars => IInv'
<1> SUFFICES ASSUME IInv, [Next]_vars PROVE IInv'
  OBVIOUS
<1>1. CASE UNCHANGED <<stats, open, failing>>
  BY <1>1 DEF IInv, CountersOK, CircuitReflectsStats
<1>2. CASE Tick
  BY <1>1, <1>2 DEF Tick
<1>3. ASSUME NEW r \in Requests, NEW kind \in Kinds, NEW c \in Countries, Begin(r, kind, c)
      PROVE  IInv'
  BY <1>1, <1>3 DEF Begin
<1>4. ASSUME NEW r \in Requests, Select(r) PROVE IInv'
  BY <1>1, <1>4 DEF Select
<1>5. ASSUME NEW r \in Requests, RecordSuccess(r) PROVE IInv'
  BY <1>5, SuccessOK
<1>6. ASSUME NEW r \in Requests, RecordFailure(r) PROVE IInv'
  BY <1>6, FailureOK
<1>7. CASE UNCHANGED vars
  BY <1>1, <1>7 DEF vars
<1> QED BY <1>2, <1>3, <1>4, <1>5, <1>6, <1>7 DEF Next, Work

\* The counters and circuits of the smart router agree at all times.
THEOREM RouterInvariance == Spec => []IInv
  BY RouterInvInit, RouterInvStep, PTL DEF Spec

\* However calls and answers interleave, a circuit is open exactly if its counters
\* and the last answer say so.
THEOREM CircuitsAreHonest == Spec => []CircuitReflectsStats
<1>1. IInv => CircuitReflectsStats
  BY DEF IInv
<1> QED BY <1>1, RouterInvariance, PTL

-----------------------------------------------------------------------------
(* The carrier router and its adapters *)

(* Calls *)

Outcomes ==
  {Missing, Error, Silent("verified", 95), Silent("verified", 99), Silent("verified", 100),
   Silent("fallback", 0)} \union {SwapResult(e[1], e[2]) : e \in BOOLEAN \X BOOLEAN}

CallState ==
  [pc : {"idle", "token", "request", "simulate", "date", "answered"},
   kind : {Missing, "silent", "simswap"}, country : CallCountries \union {Missing},
   check : Replies \union {Missing}, result : Outcomes]

FromSandbox(c, mapping) == c.country \in DOMAIN mapping /\ mapping[c.country].type = "sandbox"

\* The carrier has said yes.
Reported(check) == check # Missing /\ OK(check) /\ check.body # "no"

\* What has been answered so far rests on what a carrier, or the sandbox, has said.
Truthful(c, mapping) ==
  /\ c.pc = "simulate" => FromSandbox(c, mapping)
  /\ c.pc = "date" => c.kind = "simswap" /\ Reported(c.check)
  /\ c.pc = "answered" /\ c.kind = "silent" /\ c.result.status = "verified" =>
       FromSandbox(c, mapping) \/ (OK(c.check) /\ c.check.body # "no" /\ c.result.confidence = 100)
  /\ c.pc = "answered" /\ c.kind = "simswap" =>
       \/ c.result = Error /\ ~Reported(c.check)
       \/ \E dated \in BOOLEAN : c.result = SwapResult(FALSE, dated) /\ ~Reported(c.check)
       \/ \E dated \in BOOLEAN : /\ c.result = SwapResult(TRUE, dated)
                                 /\ Reported(c.check) \/ FromSandbox(c, mapping)

CarriersIInv ==
  /\ call \in [Calls -> CallState]
  /\ \A r \in Calls : Truthful(call[r], countryMapping)

\* One call goes on, the others stay.
LEMMA OneCall ==
  ASSUME CarriersIInv, NEW r \in Calls, NEW c \in CallState, Truthful(c, countryMapping),
         call' = [call EXCEPT ![r] = c], UNCHANGED <<file, countryMapping>>
  PROVE  CarriersIInv'
<1>1. call' \in [Calls -> CallState]
  BY DEF CarriersIInv
<1>2. ASSUME NEW q \in Calls PROVE Truthful(call'[q], countryMapping)
  BY DEF CarriersIInv
<1>3. countryMapping' = countryMapping
  OBVIOUS
<1> QED
  BY <1>1, <1>2, <1>3 DEF CarriersIInv

\* What a call becomes.
LEMMA Becoming ==
  ASSUME CarriersIInv, NEW r \in Calls, NEW pc \in {"request", "date", "answered"},
         NEW check \in Replies \union {Missing}, NEW result \in Outcomes,
         Become(r, pc, check, result)
  PROVE  \E c \in CallState : /\ call' = [call EXCEPT ![r] = c]
                              /\ c.pc = pc /\ c.check = check /\ c.result = result
                              /\ c.kind = call[r].kind /\ c.country = call[r].country
<1> DEFINE c == [call[r] EXCEPT !.pc = pc, !.check = check, !.result = result]
<1>1. call[r] \in CallState /\ call \in [Calls -> CallState]
  BY DEF CarriersIInv
<1>2. /\ c \in CallState /\ c.pc = pc /\ c.check = check /\ c.result = result
      /\ c.kind = call[r].kind /\ c.country = call[r].country
  BY <1>1 DEF CallState
<1>3. call' = [call EXCEPT ![r] = c]
  BY DEF Become
<1> QED
  BY <1>2, <1>3

\* The results a call may have.
LEMMA AnOutcome ==
  /\ Missing \in Outcomes /\ Error \in Outcomes
  /\ Silent("verified", 95) \in Outcomes /\ Silent("verified", 99) \in Outcomes
  /\ Silent("verified", 100) \in Outcomes /\ Silent("fallback", 0) \in Outcomes
  /\ \A d, e \in BOOLEAN : SwapResult(d, e) \in Outcomes
<1>1. ASSUME NEW d \in BOOLEAN, NEW e \in BOOLEAN PROVE SwapResult(d, e) \in Outcomes
  <2> DEFINE pair == <<d, e>>
  <2>1. pair \in BOOLEAN \X BOOLEAN /\ SwapResult(d, e) = SwapResult(pair[1], pair[2])
    OBVIOUS
  <2> QED
    BY <2>1 DEF Outcomes
<1> QED
  BY <1>1 DEF Outcomes

\* A call begins with nothing said; a country nobody serves is answered at once.
LEMMA AskOK ==
  ASSUME CarriersIInv, NEW r \in Calls, NEW kind \in {"silent", "simswap"}, NEW c \in CallCountries,
         Ask(r, kind, c)
  PROVE  CarriersIInv'
<1> DEFINE n == [pc |-> IF ~RouterSupports(c) THEN "answered"
                        ELSE IF countryMapping[c].type = "sandbox" THEN "simulate" ELSE "token",
                 kind |-> kind, country |-> c, check |-> Missing,
                 result |-> IF RouterSupports(c) THEN Missing
                            ELSE IF kind = "silent" THEN Silent("fallback", 0) ELSE Error]
<1>1. call' = [call EXCEPT ![r] = n] /\ UNCHANGED <<file, countryMapping>>
  BY DEF Ask
<1>2. n \in CallState
  BY AnOutcome DEF CallState
<1>3. Truthful(n, countryMapping)
  <2>1. CASE RouterSupports(c)
    BY <2>1 DEF Truthful, RouterSupports, FromSandbox
  <2>2. CASE ~RouterSupports(c)
    <3>1. n.pc = "answered" /\ n.kind = kind /\ n.check = Missing
          /\ n.result = IF kind = "silent" THEN Silent("fallback", 0) ELSE Error
      BY <2>2
    <3>2. ~Reported(Missing) /\ Silent("fallback", 0).status # "verified"
      BY DEF Reported, Silent
    <3> HIDE DEF n
    <3> QED
      BY <3>1, <3>2 DEF Truthful
  <2> QED
    BY <2>1, <2>2
<1> HIDE DEF n
<1> QED
  BY <1>1, <1>2, <1>3, OneCall

\* Only a call of the sandbox is simulated.
LEMMA SimulateOK ==
  ASSUME CarriersIInv, NEW r \in Calls, Simulate(r)
  PROVE  CarriersIInv'
<1>1. call[r].pc = "simulate" /\ UNCHANGED <<file, countryMapping>> /\ FromSandbox(call[r], countryMapping)
  BY DEF Simulate, CarriersIInv, Truthful
<1>2. PICK result \in IF call[r].kind = "silent"
                      THEN {Silent("verified", 95), Silent("verified", 99), Silent("fallback", 0)}
                      ELSE {SwapResult(TRUE, TRUE), SwapResult(FALSE, TRUE)} :
           Become(r, "answered", Missing, result)
  BY DEF Simulate
<1>3. result \in Outcomes
  BY AnOutcome, <1>2
<1>4. PICK c \in CallState : /\ call' = [call EXCEPT ![r] = c]
                             /\ c.pc = "answered" /\ c.check = Missing /\ c.result = result
                             /\ c.kind = call[r].kind /\ c.country = call[r].country
  BY <1>2, <1>3, Becoming
<1>5. FromSandbox(c, countryMapping) /\ ~Reported(c.check)
  BY <1>1, <1>4 DEF FromSandbox, Reported
<1>6. c.kind = "simswap" => \E d \in BOOLEAN : result = SwapResult(TRUE, d) \/ result = SwapResult(FALSE, d)
  BY <1>2, <1>4
<1>7. Truthful(c, countryMapping)
  BY <1>4, <1>5, <1>6 DEF Truthful
<1> QED
  BY <1>1, <1>4, <1>7, OneCall

\* No token, no result.
LEMMA AuthorizeOK ==
  ASSUME CarriersIInv, NEW r \in Calls, Authorize(r)
  PROVE  CarriersIInv'
<1>1. UNCHANGED <<file, countryMapping>>
  BY DEF Authorize
<1>2. CASE Become(r, "request", Missing, Missing)
  <2>1. PICK c \in CallState : call' = [call EXCEPT ![r] = c] /\ c.pc = "request"
    BY <1>2, AnOutcome, Becoming
  <2>2. Truthful(c, countryMapping)
    BY <2>1 DEF Truthful
  <2> QED
    BY <1>1, <2>1, <2>2, OneCall
<1>3. CASE Become(r, "answered", Missing, Error)
  <2>1. PICK c \in CallState : call' = [call EXCEPT ![r] = c] /\ c.pc = "answered"
                               /\ c.check = Missing /\ c.result = Error
    BY <1>3, AnOutcome, Becoming
  <2>2. Error.status # "verified" /\ ~Reported(Missing)
    BY DEF Error, Reported
  <2>3. Truthful(c, countryMapping)
    BY <2>1, <2>2 DEF Truthful
  <2> QED
    BY <1>1, <2>1, <2>3, OneCall
<1> QED
  BY <1>2, <1>3 DEF Authorize

\* A reply that is well formed says yes or no.
LEMMA Saying ==
  ASSUME NEW reply \in Replies, OK(reply)
  PROVE  SaysYes(reply) \in BOOLEAN /\ (SaysYes(reply) <=> Reported(reply))
<1>1. reply # Missing
  BY CarriersAssumption
<1>2. reply.body \in {"no", "yes", "dated", "garbage"}
  BY DEF Replies, Lost
<1> QED
  BY <1>1, <1>2 DEF OK, SaysYes, Reported

\* The reply is kept with the result made of it, by which it can be checked.
LEMMA ReplyOK ==
  ASSUME CarriersIInv, NEW r \in Calls, NEW reply \in Replies, Reply(r, reply)
  PROVE  CarriersIInv'
<1> DEFINE type == Adapter(r).type
           kind == call[r].kind
           result == IF kind = "silent" THEN Verified(reply) ELSE Swap(type, reply)
           more == type = "camara" /\ kind = "simswap" /\ OK(reply) /\ SaysYes(reply)
           pc == IF more THEN "date" ELSE "answered"
<1>1. Become(r, pc, reply, result) /\ UNCHANGED <<file, countryMapping>>
  BY DEF Reply
<1>2. kind \in {Missing, "silent", "simswap"}
  BY DEF CarriersIInv, CallState
<1> HIDE DEF kind, type
<1>3. Verified(reply) \in Outcomes /\ Swap(type, reply) \in Outcomes
  <2>1. OK(reply) => SaysYes(reply) \in BOOLEAN
    BY Saying
  <2> DEFINE dated == type = "ipification" /\ reply.body = "dated"
  <2>2. dated \in BOOLEAN
    OBVIOUS
  <2>3. OK(reply) => Swap(type, reply) = SwapResult(SaysYes(reply), dated)
    BY DEF Swap
  <2> HIDE DEF dated
  <2>4. OK(reply) => Swap(type, reply) \in Outcomes
    BY <2>1, <2>2, <2>3, AnOutcome
  <2> QED
    BY <2>4, AnOutcome DEF Verified, Swap
<1>4. result \in Outcomes /\ pc \in {"request", "date", "answered"}
  BY <1>3
<1> HIDE DEF result, pc, more
<1>5. PICK c \in CallState : /\ call' = [call EXCEPT ![r] = c]
                             /\ c.pc = pc /\ c.check = reply /\ c.result = result /\ c.kind = kind
  BY <1>1, <1>4, Becoming DEF kind
<1>6. Truthful(c, countryMapping)
  <2>1. CASE more
    BY <1>5, <2>1, Saying DEF Truthful, more, pc
  <2>2. CASE ~more
    <3>1. c.pc = "answered"
      BY <1>5, <2>2 DEF pc
    <3>2. CASE kind = "silent"
      <4>1. result = Verified(reply)
        BY <3>2 DEF result
      <4>2. CASE OK(reply) /\ SaysYes(reply)
        <5>1. reply.body # "no" /\ result.confidence = 100
          BY <4>1, <4>2 DEF SaysYes, Verified, Silent
        <5> QED
          BY <1>5, <3>1, <3>2, <4>2, <5>1 DEF Truthful
      <4>3. CASE ~(OK(reply) /\ SaysYes(reply))
        <5>1. result.status = "fallback"
          BY <4>1, <4>3 DEF Verified, Silent
        <5> QED
          BY <1>5, <3>1, <3>2, <5>1 DEF Truthful
      <4> QED
        BY <4>2, <4>3
    <3>3. CASE kind # "silent"
      <4>1. result = Swap(type, reply)
        BY <3>3 DEF result
      <4>2. CASE ~OK(reply)
        <5>1. result = Error /\ ~Reported(reply)
          BY <4>1, <4>2 DEF Swap, Reported
        <5> QED
          BY <1>5, <3>1, <3>3, <5>1 DEF Truthful
      <4>3. CASE OK(reply)
        <5> DEFINE yes == SaysYes(reply)
                   dated == type = "ipification" /\ reply.body = "dated"
        <5>1. result = SwapResult(yes, dated) /\ dated \in BOOLEAN
          BY <4>1, <4>3 DEF Swap
        <5>2. yes \in BOOLEAN /\ (yes <=> Reported(reply))
          BY <4>3, Saying
        <5> HIDE DEF yes, dated
        <5>3. \/ yes = TRUE /\ Reported(reply)
              \/ yes = FALSE /\ ~Reported(reply)
          BY <5>2
        <5>4. CASE yes = TRUE /\ Reported(reply)
          BY <1>5, <3>1, <3>3, <5>1, <5>4 DEF Truthful
        <5>5. CASE yes = FALSE /\ ~Reported(reply)
          BY <1>5, <3>1, <3>3, <5>1, <5>5 DEF Truthful
        <5> QED
          BY <5>3, <5>4, <5>5
      <4> QED
        BY <4>2, <4>3
    <3> QED
      BY <3>2, <3>3
  <2> QED
    BY <2>1, <2>2
<1> QED
  BY <1>1, <1>5, <1>6, OneCall

\* The second reply changes no result but its date.
LEMMA DateOK ==
  ASSUME CarriersIInv, NEW r \in Calls, NEW reply \in Replies, RetrieveDate(r, reply)
  PROVE  CarriersIInv'
<1> DEFINE dated == OK(reply) /\ reply.body = "dated"
           check == call[r].check
<1>1. /\ Become(r, "answered", check, SwapResult(TRUE, dated)) /\ call[r].pc = "date"
      /\ UNCHANGED <<file, countryMapping>>
  BY DEF RetrieveDate
<1>2. dated \in BOOLEAN /\ TRUE \in BOOLEAN
  BY DEF OK
<1>3. check \in Replies \union {Missing} /\ call[r].kind = "simswap" /\ Reported(check)
  BY <1>1 DEF CarriersIInv, CallState, Truthful
<1> HIDE DEF dated, check
<1>4. PICK c \in CallState : /\ call' = [call EXCEPT ![r] = c]
                             /\ c.pc = "answered" /\ c.check = check /\ c.kind = "simswap"
                             /\ c.result = SwapResult(TRUE, dated)
  <2> DEFINE pc == "answered"
             result == SwapResult(TRUE, dated)
  <2>1. pc \in {"request", "date", "answered"} /\ result \in Outcomes
    BY <1>2, AnOutcome
  <2>2. Become(r, pc, check, result)
    BY <1>1
  <2> HIDE DEF pc, result
  <2>3. PICK c \in CallState : /\ call' = [call EXCEPT ![r] = c]
                               /\ c.pc = pc /\ c.check = check /\ c.result = result
                               /\ c.kind = call[r].kind /\ c.country = call[r].country
    BY <1>3, <2>1, <2>2, Becoming
  <2> QED
    BY <1>3, <2>3 DEF pc, result
<1>5. Truthful(c, countryMapping)
  BY <1>2, <1>3, <1>4 DEF Truthful
<1> QED
  BY <1>1, <1>4, <1>5, OneCall

\* What is known of a call agrees with its result, whatever the others do.
THEOREM CarriersInvariance == CarriersSpec => []CarriersIInv
<1>1. CarriersInit => CarriersIInv
  <2> SUFFICES ASSUME CarriersInit PROVE CarriersIInv
    OBVIOUS
  <2>1. NoCall \in CallState /\ Truthful(NoCall, countryMapping)
    BY AnOutcome DEF NoCall, CallState, Truthful
  <2>2. call = [r \in Calls |-> NoCall]
    BY DEF CarriersInit
  <2> QED
    BY <2>1, <2>2 DEF CarriersIInv
<1>2. CarriersIInv /\ [CarriersNext]_carrierVars => CarriersIInv'
  <2> SUFFICES ASSUME CarriersIInv, [CarriersNext]_carrierVars PROVE CarriersIInv'
    OBVIOUS
  <2>1. ASSUME NEW r \in Calls, NEW kind \in {"silent", "simswap"}, NEW c \in CallCountries,
               Ask(r, kind, c)
        PROVE  CarriersIInv'
    BY <2>1, AskOK
  <2>2. ASSUME NEW r \in Calls, Simulate(r) PROVE CarriersIInv'
    BY <2>2, SimulateOK
  <2>3. ASSUME NEW r \in Calls, Authorize(r) PROVE CarriersIInv'
    BY <2>3, AuthorizeOK
  <2>4. ASSUME NEW r \in Calls, NEW reply \in Replies, Reply(r, reply) PROVE CarriersIInv'
    BY <2>4, ReplyOK
  <2>5. ASSUME NEW r \in Calls, NEW reply \in Replies, RetrieveDate(r, reply) PROVE CarriersIInv'
    BY <2>5, DateOK
  <2>6. CASE UNCHANGED carrierVars
    BY <2>6 DEF carrierVars, CarriersIInv
  <2> QED
    BY <2>1, <2>2, <2>3, <2>4, <2>5, <2>6 DEF CarriersNext
<1> QED
  BY <1>1, <1>2, PTL DEF CarriersSpec

\* A phone is verified on the word of the carrier, or of the sandbox, alone.
THEOREM PhonesAreVerifiedByCarriers == CarriersSpec => []VerifiedOnCarriersWord
<1>1. CarriersIInv => VerifiedOnCarriersWord
  <2> SUFFICES ASSUME CarriersIInv, NEW r \in Calls, Answered(r, "silent"),
                      call[r].result.status = "verified"
               PROVE  \/ Simulated(r)
                      \/ OK(call[r].check) /\ call[r].check.body # "no" /\ call[r].result.confidence = 100
    BY DEF VerifiedOnCarriersWord
  <2> QED
    BY DEF CarriersIInv, Truthful, Answered, Simulated, FromSandbox, RouterSupports, Adapter
<1> QED
  BY <1>1, CarriersInvariance, PTL

-----------------------------------------------------------------------------
(* What the engine makes of a swap *)

\* Without policies the built-in signals decide.
LEMMA WithoutPolicies ==
  ASSUME NEW in, NEW hour
  PROVE  Evaluate(<< >>, in, hour).verdict = EvaluateBuiltinSignals(in).verdict
<1> DEFINE S == {i \in DOMAIN << >> : Applies(<< >>[i], in)}
           kept == FilterPolicies(<< >>, in)
           before == EvaluateBuiltinSignals(in)
           Eq(f) == f = [n \in 0 .. Len(kept) |->
                           IF n = 0 THEN before ELSE ApplyPolicy(f[n - 1], kept[n], in, hour)]
           after == CHOOSE f : Eq(f)
<1>1. S = {}
  OBVIOUS
<1>2. kept = [k \in 1 .. Cardinality({}) |->
                << >>[CHOOSE i \in S : Cardinality({j \in S : Before(<< >>, j, i)}) = k - 1]]
  BY <1>1 DEF FilterPolicies, ByPriority
<1>3. Cardinality({}) = 0
  BY FS_EmptySet
<1> HIDE DEF S
<1>4. DOMAIN kept = 1 .. 0
  BY <1>2, <1>3
<1>5. kept = << >>
  BY <1>2, <1>3
<1>6. Len(kept) = 0
  BY <1>5
<1>7. Evaluate(<< >>, in, hour).verdict = after[Len(kept)].verdict
  BY DEF Evaluate, EvaluatePolicyRules
<1> HIDE DEF kept, before
<1>8. Eq([n \in 0 .. 0 |-> before])
  BY <1>6
<1>9. Eq(after)
  <2> HIDE DEF Eq
  <2> QED
    BY <1>8
<1>10. after[0] = before
  BY <1>6, <1>9
<1> QED
  BY <1>6, <1>7, <1>10 DEF before

\* A swap of high risk is blocked, and nothing takes that back.
LEMMA HighSwapBlocks ==
  ASSUME NEW in, in.swap = "high", in.result = "verified", in.confidence = 0,
         in.deviceChanged = FALSE
  PROVE  EvaluateBuiltinSignals(in).verdict = "block"
<1> DEFINE r0 == [risk |-> in.risk, verdict |-> "allow"]
           s == BuiltinSignals(in)
<1>1. EvaluateBuiltinSignals(in) = Meet(Meet(Meet(Meet(r0, s[1]), s[2]), s[3]), s[4])
  BY DEF EvaluateBuiltinSignals
<1>2. /\ s[1] = Demand(Swapped(in), 50, "block")
      /\ s[2] = Demand(in.result = "failed", 20, "challenge")
      /\ s[3] = Demand(in.confidence > 0 /\ in.confidence < 70, 15, "challenge")
      /\ s[4] = Demand(in.deviceChanged, 10, "allow")
  BY DEF BuiltinSignals
<1>3. Swapped(in)
  BY DEF Swapped
<1>4. s[1].there /\ s[1].verdict = "block" /\ ~s[2].there /\ ~s[3].there /\ ~s[4].there
  <2> DEFINE there == Swapped(in)
             failed == in.result = "failed"
             doubtful == in.confidence > 0 /\ in.confidence < 70
             changed == in.deviceChanged
  <2>1. there /\ ~failed /\ ~doubtful /\ ~changed
    BY <1>3
  <2>2. /\ s[1] = Demand(there, 50, "block") /\ s[2] = Demand(failed, 20, "challenge")
        /\ s[3] = Demand(doubtful, 15, "challenge") /\ s[4] = Demand(changed, 10, "allow")
    BY <1>2
  <2> HIDE DEF s, there, failed, doubtful, changed
  <2> QED
    BY <2>1, <2>2 DEF Demand
<1>5. Severity("block") > Severity("allow")
  BY DEF Severity, Severities
<1> HIDE DEF s, r0
<1>6. r0.verdict = "allow"
  BY DEF r0
<1> DEFINE r1 == Meet(r0, s[1])
<1>7. r1.verdict = "block"
  BY <1>4, <1>5, <1>6 DEF Meet, Escalate, AddRisk
<1> HIDE DEF r1
<1>8. Meet(r1, s[2]) = r1 /\ Meet(r1, s[3]) = r1 /\ Meet(r1, s[4]) = r1
  BY <1>4 DEF Meet
<1>9. EvaluateBuiltinSignals(in) = r1
  BY <1>1, <1>8 DEF r1
<1> QED
  BY <1>7, <1>9

\* A swap that a carrier has reported is blocked, and none is made up.
THEOREM ReportedSwapsBlock == CarriersSpec => []ReportedSwapBlocks
<1>1. CarriersIInv => ReportedSwapBlocks
  <2> SUFFICES ASSUME CarriersIInv, NEW r \in Calls, Answered(r, "simswap")
               PROVE  LET result == call[r].result
                          reported == call[r].check # Missing /\ OK(call[r].check)
                                      /\ call[r].check.body # "no"
                          in == [swap |-> IF result.status = "error" THEN "none"
                                          ELSE IF result.detected THEN result.riskLevel ELSE "no",
                                 result |-> "verified", confidence |-> 0, deviceChanged |-> FALSE,
                                 risk |-> 0]
                      IN /\ reported => Evaluate(<< >>, in, 0).verdict = "block"
                         /\ Swapped(in) => reported \/ Simulated(r)
    BY DEF ReportedSwapBlocks
  <2> DEFINE result == call[r].result
             reported == Reported(call[r].check)
             in == [swap |-> IF result.status = "error" THEN "none"
                             ELSE IF result.detected THEN result.riskLevel ELSE "no",
                    result |-> "verified", confidence |-> 0, deviceChanged |-> FALSE, risk |-> 0]
             simulated == FromSandbox(call[r], countryMapping)
  <2>1. Simulated(r) <=> simulated
    BY DEF Simulated, RouterSupports, Adapter, FromSandbox
  <2>2. \/ result = Error /\ ~reported
        \/ \E dated \in BOOLEAN : result = SwapResult(FALSE, dated) /\ ~reported
        \/ \E dated \in BOOLEAN : result = SwapResult(TRUE, dated) /\ (reported \/ simulated)
    BY DEF CarriersIInv, Truthful, Answered
  <2> HIDE DEF result, reported, simulated
  <2>3. CASE result = Error /\ ~reported
    <3>1. in.swap = "none"
      BY <2>3 DEF Error
    <3> QED
      BY <2>1, <2>3, <3>1 DEF Swapped, result, reported, Reported
  <2>4. CASE \E dated \in BOOLEAN : result = SwapResult(FALSE, dated) /\ ~reported
    <3>1. in.swap = "no"
      BY <2>4 DEF SwapResult
    <3> QED
      BY <2>1, <2>4, <3>1 DEF Swapped, result, reported, Reported
  <2>5. CASE \E dated \in BOOLEAN : result = SwapResult(TRUE, dated) /\ (reported \/ simulated)
    <3>1. /\ in.swap = "high" /\ in.result = "verified" /\ in.confidence = 0
          /\ in.deviceChanged = FALSE
      BY <2>5 DEF SwapResult
    <3> HIDE DEF in
    <3>2. EvaluateBuiltinSignals(in).verdict = "block"
      BY <3>1, HighSwapBlocks
    <3>3. Evaluate(<< >>, in, 0).verdict = "block"
      BY <3>2, WithoutPolicies
    <3> QED
      BY <2>1, <2>5, <3>3 DEF in, result, reported, Reported
  <2> QED
    BY <2>2, <2>3, <2>4, <2>5
<1> QED
  BY <1>1, CarriersInvariance, PTL

-----------------------------------------------------------------------------
(* Which provider serves a country *)

\* A configuration is a sequence of entries, or there is none.
LEMMA AnEntry ==
  ASSUME file \in Files
  PROVE  /\ Entries \in Seq(Entry) /\ DOMAIN Entries = 1 .. Len(Entries) /\ Len(Entries) \in Nat
         /\ Entries # file <=> file \in {Missing, Unreadable}
<1>1. CASE file \in {Missing, Unreadable}
  <2>1. Entries = << >>
    BY <1>1 DEF Entries
  <2>2. Entries \in Seq(Entry) /\ Entries # file
    BY <1>1, <2>1, CarriersAssumption
  <2> QED
    BY <1>1, <2>2
<1>2. CASE file \notin {Missing, Unreadable}
  <2>1. Entries = file /\ file \in Seq(Entry)
    BY <1>2, CarriersAssumption DEF Entries
  <2> QED
    BY <1>2, <2>1
<1> QED
  BY <1>1, <1>2

\* Of the first n entries, the last one that has been registered for a country has it.
Serving(m, n) ==
  /\ \A c : c \in DOMAIN m <=> \E i \in 1 .. n : Registered(i) /\ c \in Supported(Entries[i])
  /\ \A i \in 1 .. n : \A c \in Supported(Entries[i]) :
       Registered(i) /\ (\A j \in 1 .. n : Registered(j) /\ c \in Supported(Entries[j]) => j <= i)
         => m[c] = Entries[i]

\* The adapters after each entry.
Builds(after, N) ==
  /\ after[0] = << >>
  /\ \A n \in 1 .. N : after[n] = IF Registered(n) THEN RegisterAdapter(after[n - 1], Entries[n])
                                  ELSE after[n - 1]
  /\ BuildAdapters = after[N]

\* The mappings after each entry: the function that BuildAdapters defines exists.
LEMMA AdaptersInOrder ==
  ASSUME file \in Files
  PROVE  \E after : Builds(after, Len(Entries))
<1> DEFINE N == Len(Entries)
           E == {Entries[i] : i \in 1 .. N}
           U == UNION {Supported(e) : e \in E}
           S == UNION {[D -> E] : D \in SUBSET U}
           none == << >>
           next(n, m) == IF Registered(n) THEN RegisterAdapter(m, Entries[n]) ELSE m
           step == [e \in (1 .. N) \X S |-> next(e[1], e[2])]
           Eq(f) == f = [n \in 0 .. N |-> IF n = 0 THEN << >>
                                          ELSE IF Registered(n) THEN RegisterAdapter(f[n - 1], Entries[n])
                                          ELSE f[n - 1]]
<1>1. N \in Nat
  BY AnEntry
<1>2. none \in S
  <2>1. {} \in SUBSET U /\ none \in [{} -> E]
    OBVIOUS
  <2> QED
    BY <2>1
<1>3. ASSUME NEW n \in 1 .. N, NEW m \in S PROVE next(n, m) \in S
  <2>1. PICK D \in SUBSET U : m \in [D -> E]
    OBVIOUS
  <2>2. Entries[n] \in E
    OBVIOUS
  <2>3. Supported(Entries[n]) \in SUBSET U
    BY <2>2
  <2> DEFINE D2 == D \union Supported(Entries[n])
  <2>4. RegisterAdapter(m, Entries[n]) \in [D2 -> E]
    <3> HIDE DEF E, U, S
    <3>1. DOMAIN m = D
      BY <2>1
    <3> QED
      BY <2>1, <2>2, <3>1 DEF RegisterAdapter
  <2>5. D2 \in SUBSET U
    BY <2>3
  <2>6. RegisterAdapter(m, Entries[n]) \in S
    <3> HIDE DEF D2, U, E
    <3> QED
      BY <2>4, <2>5
  <2> QED
    BY <2>6
<1> HIDE DEF N, S, next
<1>4. step \in Steps(N, S)
  BY <1>3 DEF Steps
<1>5. PICK f : Computes(f, N, S, none, step)
  <2> HIDE DEF step, none
  <2> QED
    BY <1>1, <1>2, <1>4, Recursion
<1>6. f \in [0 .. N -> S] /\ f[0] = none /\ \A n \in 1 .. N : f[n] = next(n, f[n - 1])
  <2>1. ASSUME NEW n \in 1 .. N PROVE n - 1 \in 0 .. N
    BY <1>1
  <2>2. f \in [0 .. N -> S] /\ f[0] = none
    BY <1>5 DEF Computes
  <2>3. \A n \in 1 .. N : <<n, f[n - 1]>> \in (1 .. N) \X S
    BY <2>1, <2>2
  <2> QED
    BY <1>5, <2>2, <2>3 DEF Computes
<1> DEFINE after == CHOOSE g : Eq(g)
<1>7. Eq(f)
  BY <1>6 DEF next
<1>8. Eq(after)
  <2> HIDE DEF Eq
  <2> QED
    BY <1>7
<1>9. BuildAdapters = after[N]
  BY DEF BuildAdapters, N
<1> HIDE DEF after
<1>10. after[0] = none
  BY <1>1, <1>8
<1>11. \A n \in 1 .. N : after[n] = IF Registered(n) THEN RegisterAdapter(after[n - 1], Entries[n])
                                    ELSE after[n - 1]
  BY <1>1, <1>8
<1> QED
  BY <1>9, <1>10, <1>11 DEF Builds, N

\* One entry more is registered over those before it, or is not.
LEMMA OneMore ==
  ASSUME NEW n \in Nat \ {0}, NEW m, Serving(m, n - 1)
  PROVE  Serving(IF Registered(n) THEN RegisterAdapter(m, Entries[n]) ELSE m, n)
<1>1. \A i \in 1 .. n - 1 : i \in 1 .. n
  OBVIOUS
<1>2. \A i \in 1 .. n : i = n \/ i \in 1 .. n - 1
  OBVIOUS
<1>3. n \in 1 .. n /\ \A i \in 1 .. n - 1 : ~(n <= i)
  OBVIOUS
<1>4. \A c : c \in DOMAIN m <=> \E i \in 1 .. n - 1 : Registered(i) /\ c \in Supported(Entries[i])
  BY DEF Serving
<1>5. \A i \in 1 .. n - 1 : \A c \in Supported(Entries[i]) :
        Registered(i) /\ (\A j \in 1 .. n - 1 : Registered(j) /\ c \in Supported(Entries[j]) => j <= i)
          => m[c] = Entries[i]
  BY DEF Serving
<1>6. CASE Registered(n)
  <2> DEFINE k == RegisterAdapter(m, Entries[n])
  <2>1. /\ DOMAIN k = DOMAIN m \union Supported(Entries[n])
        /\ \A c \in Supported(Entries[n]) : k[c] = Entries[n]
        /\ \A c \in DOMAIN m : c \notin Supported(Entries[n]) => k[c] = m[c]
    BY DEF RegisterAdapter
  <2> HIDE DEF k
  <2>2. \A c : c \in DOMAIN k <=> \E i \in 1 .. n : Registered(i) /\ c \in Supported(Entries[i])
    BY <1>1, <1>2, <1>3, <1>4, <1>6, <2>1
  <2>3. ASSUME NEW i \in 1 .. n, NEW c \in Supported(Entries[i]), Registered(i),
               \A j \in 1 .. n : Registered(j) /\ c \in Supported(Entries[j]) => j <= i
        PROVE  k[c] = Entries[i]
    <3>1. CASE i = n
      BY <2>1, <2>3, <3>1
    <3>2. CASE i # n
      <4>1. i \in 1 .. n - 1
        BY <1>2, <3>2
      <4>2. c \notin Supported(Entries[n])
        BY <1>3, <1>6, <2>3, <4>1
      <4>3. c \in DOMAIN m /\ m[c] = Entries[i]
        BY <1>1, <1>4, <1>5, <2>3, <4>1
      <4> QED
        BY <2>1, <4>2, <4>3
    <3> QED
      BY <3>1, <3>2
  <2>4. Serving(k, n)
    BY <2>2, <2>3 DEF Serving
  <2> QED
    BY <1>6, <2>4 DEF k
<1>7. CASE ~Registered(n)
  <2>1. \A c : c \in DOMAIN m <=> \E i \in 1 .. n : Registered(i) /\ c \in Supported(Entries[i])
    BY <1>1, <1>2, <1>4, <1>7
  <2>2. ASSUME NEW i \in 1 .. n, NEW c \in Supported(Entries[i]), Registered(i),
               \A j \in 1 .. n : Registered(j) /\ c \in Supported(Entries[j]) => j <= i
        PROVE  m[c] = Entries[i]
    <3>1. i \in 1 .. n - 1
      BY <1>2, <1>7, <2>2
    <3> QED
      BY <1>1, <1>5, <2>2, <3>1
  <2>3. Serving(m, n)
    BY <2>1, <2>2 DEF Serving
  <2> QED
    BY <1>7, <2>3
<1> QED
  BY <1>6, <1>7

\* Hence, by induction, each country has the last adapter registered for it.
LEMMA Building ==
  ASSUME file \in Files
  PROVE  Serving(BuildAdapters, Len(Entries))
<1> DEFINE N == Len(Entries)
<1>1. N \in Nat
  BY AnEntry
<1>2. PICK after : Builds(after, N)
  BY AdaptersInOrder
<1>3. /\ after[0] = << >> /\ BuildAdapters = after[N]
      /\ \A n \in 1 .. N : after[n] = IF Registered(n) THEN RegisterAdapter(after[n - 1], Entries[n])
                                      ELSE after[n - 1]
  BY <1>2 DEF Builds
<1> HIDE DEF N
<1> DEFINE T == {n \in 0 .. N : Serving(after[n], n)}
<1>4. 0 \in T
  <2>1. DOMAIN << >> = {} /\ 1 .. 0 = {}
    OBVIOUS
  <2>2. Serving(<< >>, 0)
    BY <2>1 DEF Serving
  <2> QED
    BY <1>1, <1>3, <2>2
<1>5. ASSUME NEW n \in 1 .. N, n - 1 \in T PROVE n \in T
  <2>1. n \in Nat \ {0} /\ n \in 0 .. N /\ Serving(after[n - 1], n - 1)
    BY <1>1, <1>5
  <2> DEFINE m == after[n - 1]
  <2> HIDE DEF T
  <2>2. Serving(IF Registered(n) THEN RegisterAdapter(m, Entries[n]) ELSE m, n)
    <3> HIDE DEF m
    <3>1. Serving(m, n - 1)
      BY <2>1 DEF m
    <3> QED
      BY <2>1, <3>1, OneMore
  <2>3. Serving(after[n], n)
    BY <1>3, <2>2
  <2> QED
    BY <2>1, <2>3 DEF T
<1> HIDE DEF T
<1>6. 0 .. N \subseteq T
  BY <1>1, <1>4, <1>5, IntervalInduction
<1>7. N \in 0 .. N
  BY <1>1
<1> QED
  BY <1>3, <1>6, <1>7 DEF T, N

\* That, and the sandbox after a failure, is what the configuration lists.
LEMMA Listing ==
  ASSUME CarriersInit
  PROVE  EachCountryServedAsListed
<1> DEFINE N == Len(Entries)
           enabled == {i \in DOMAIN Entries : Entries[i].enabled}
           built == {i \in enabled : \A j \in enabled : j <= i => Buildable(Entries[j])}
           failed == Entries # file \/ built # enabled
           listed(c) == {i \in built : c \in Supported(Entries[i])}
           m == BuildAdapters
<1>1. file \in Files /\ countryMapping = IF BuildFailed THEN RegisterAdapter(m, Sandbox) ELSE m
  BY DEF CarriersInit
<1>2. /\ N \in Nat /\ DOMAIN Entries = 1 .. N /\ (Entries # file <=> file \in {Missing, Unreadable})
      /\ \A i \in 1 .. N : Entries[i].enabled \in BOOLEAN
  <2>1. Entries \in Seq(Entry) /\ N \in Nat /\ DOMAIN Entries = 1 .. N
        /\ (Entries # file <=> file \in {Missing, Unreadable})
    BY <1>1, AnEntry
  <2>2. \A i \in 1 .. N : Entries[i] \in Entry
    BY <2>1
  <2> QED
    BY <2>1, <2>2 DEF Entry
<1>3. Serving(m, N)
  BY <1>1, Building
<1> HIDE DEF N, m
<1>4. \A i \in 1 .. N : i \in built <=> Registered(i)
  <2> SUFFICES ASSUME NEW i \in 1 .. N PROVE i \in built <=> Registered(i)
    OBVIOUS
  <2>1. i \in built <=> i \in enabled /\ \A j \in enabled : j <= i => Buildable(Entries[j])
    OBVIOUS
  <2>2. \A j \in 1 .. i : j \in 1 .. N /\ j <= i
    BY <1>2
  <2>3. \A j \in 1 .. N : j <= i => j \in 1 .. i
    BY <1>2
  <2>4. Registered(i) <=> i \in enabled /\ \A j \in 1 .. i : ~(Entries[j].enabled /\ ~Buildable(Entries[j]))
    BY <1>2 DEF Registered, Fails
  <2>5. \A j : j \in enabled <=> j \in 1 .. N /\ Entries[j].enabled
    BY <1>2
  <2> HIDE DEF enabled, built
  <2> QED
    BY <2>1, <2>2, <2>3, <2>4, <2>5
<1>5. BuildFailed <=> failed
  <2>1. \A i : Fails(i) <=> Entries[i].enabled /\ ~Buildable(Entries[i])
    BY DEF Fails
  <2>2. ASSUME NEW i \in DOMAIN Entries, Fails(i) PROVE built # enabled
    <3>1. i \in enabled /\ i <= i /\ ~Buildable(Entries[i])
      BY <1>2, <2>1, <2>2
    <3> QED
      BY <3>1
  <2>3. ASSUME built # enabled PROVE \E i \in DOMAIN Entries : Fails(i)
    BY <2>1, <2>3
  <2> QED
    BY <1>2, <2>2, <2>3 DEF BuildFailed
<1>6. built \subseteq 1 .. N
  BY <1>2
<1> HIDE DEF built, failed
<1>7. ASSUME NEW c
      PROVE  /\ c \in DOMAIN m <=> listed(c) # {}
             /\ listed(c) # {} => m[c] = Entries[Max(listed(c))]
  <2>1. c \in DOMAIN m <=> \E i \in 1 .. N : Registered(i) /\ c \in Supported(Entries[i])
    BY <1>3 DEF Serving
  <2>2. \A i : i \in listed(c) <=> i \in 1 .. N /\ Registered(i) /\ c \in Supported(Entries[i])
    BY <1>4, <1>6
  <2> DEFINE L == listed(c)
  <2> HIDE DEF listed
  <2>3. ASSUME L # {} PROVE m[c] = Entries[Max(L)]
    <3>1. L \in SUBSET (1 .. N)
      BY <2>2
    <3>2. Max(L) \in L /\ \A i \in L : i <= Max(L)
      BY <1>2, <2>3, <3>1, Greatest
    <3> DEFINE k == Max(L)
    <3>3. k \in 1 .. N /\ Registered(k) /\ c \in Supported(Entries[k])
      BY <2>2, <3>2
    <3>4. \A j \in 1 .. N : Registered(j) /\ c \in Supported(Entries[j]) => j <= k
      BY <2>2, <3>2
    <3> HIDE DEF k
    <3>5. m[c] = Entries[k]
      BY <1>3, <3>3, <3>4 DEF Serving
    <3> QED
      BY <3>5 DEF k
  <2> QED
    BY <2>1, <2>2, <2>3
<1> HIDE DEF listed
<1>8. /\ DOMAIN RegisterAdapter(m, Sandbox) = DOMAIN m \union SandboxCountries
      /\ \A c \in SandboxCountries : RegisterAdapter(m, Sandbox)[c] = Sandbox
      /\ \A c \in DOMAIN m : c \notin SandboxCountries => RegisterAdapter(m, Sandbox)[c] = m[c]
  <2>1. Supported(Sandbox) = SandboxCountries
    BY DEF Supported, Sandbox
  <2> QED
    BY <2>1 DEF RegisterAdapter
<1>9. ASSUME NEW c \in CallCountries
      PROVE  IF failed /\ c \in SandboxCountries THEN countryMapping[c] = Sandbox
             ELSE /\ RouterSupports(c) <=> listed(c) # {}
                  /\ listed(c) # {} => countryMapping[c] = Entries[Max(listed(c))]
  <2>1. CASE failed
    BY <1>1, <1>5, <1>7, <1>8, <2>1 DEF RouterSupports
  <2>2. CASE ~failed
    BY <1>1, <1>5, <1>7, <2>2 DEF RouterSupports
  <2> QED
    BY <2>1, <2>2
<1> QED
  BY <1>9 DEF EachCountryServedAsListed, listed, built, failed

\* The last of the providers built that lists a country serves it.
THEOREM CountriesAreServedAsListed == CarriersSpec => []EachCountryServedAsListed
<1>1. CarriersInit => EachCountryServedAsListed
  BY Listing
<1>2. EachCountryServedAsListed /\ [CarriersNext]_carrierVars => EachCountryServedAsListed'
  <2> SUFFICES ASSUME EachCountryServedAsListed, [CarriersNext]_carrierVars
               PROVE  EachCountryServedAsListed'
    OBVIOUS
  <2>1. file' = file /\ countryMapping' = countryMapping
    BY DEF CarriersNext, Ask, Simulate, Authorize, Reply, RetrieveDate, carrierVars
  <2> QED
    BY <2>1 DEF EachCountryServedAsListed, Entries, RouterSupports
<1> QED
  BY <1>1, <1>2, PTL DEF CarriersSpec
=============================================================================
