----------------------------- MODULE Statistics -----------------------------
(***************************************************************************)
(* The dashboard's counters (handler/stats.go) and the verification log    *)
(* (handler/logs.go), both in memory.  Records add to their counters, and  *)
(* the dashboard loads them, one atomic operation at a time.  (With        *)
(* PostgreSQL it falls back on them when the query fails or finds none.)   *)
(***************************************************************************)
EXTENDS Integers, Sequences, FiniteSets, Functions

CONSTANTS
  Recorders,    \* goroutines that record one event each
  Kinds,        \* the kinds of events they record
  Sessions,
  Cap, Limit,   \* of the log: entries kept (1000) and returned (50)
  Absent,
  MaxEntries    \* bound of the model: entries appended

VARIABLES
  stats,        \* the counters
  recorder,     \* the kind of each recorder's event, and how many counters it added to
  dashboard,    \* the counters loaded so far
  busy,         \* history: recorders under way at some time since the first load
  entries,      \* the log, newest first
  appended      \* history: all entries, oldest first

statsVars == <<stats, recorder, dashboard, busy, entries, appended>>

Seeded == [totalRequests |-> 124892, silentSuccess |-> 105825, silentFallback |-> 19067,
           otpSent |-> 18200, otpVerified |-> 17100, riskBlocked |-> 342, simSwapDetected |-> 89]

\* (Definitions named Bug_... are plausible mistakes, which the properties must catch.)
\* The total first.
Bug_Adds ==
  [silentSuccess |-> <<"totalRequests", "silentSuccess">>,
   silentFallback |-> <<"totalRequests", "silentFallback">>,
   otpSent |-> <<"otpSent">>, otpVerified |-> <<"otpVerified">>,
   riskBlocked |-> <<"riskBlocked">>, simSwapDetected |-> <<"simSwapDetected">>]

\* What each kind of record adds to, in order.
Adds ==
  [silentSuccess |-> <<"silentSuccess", "totalRequests">>,
   silentFallback |-> <<"silentFallback", "totalRequests">>,
   otpSent |-> <<"otpSent">>, otpVerified |-> <<"otpVerified">>,
   riskBlocked |-> <<"riskBlocked">>, simSwapDetected |-> <<"simSwapDetected">>]

ASSUME StatisticsAssumption ==
  /\ IsFiniteSet(Recorders) /\ Kinds \subseteq DOMAIN Adds /\ Absent \notin Kinds \union Sessions
  /\ Cap \in Nat \ {0} /\ Limit \in Nat

\* The order in which memoryDashboard loads.
Loads == <<"totalRequests", "silentSuccess", "silentFallback", "riskBlocked">>

UnderWay(r) == recorder[r].kind # Absent /\ recorder[r].added < Len(Adds[recorder[r].kind])

\* SeededEntries of the log, of sessions nobody asks for.
SeededEntries == << [n |-> 0, session |-> Absent] >>

StatsInit ==
  /\ stats = Seeded
  /\ recorder = [r \in Recorders |-> [kind |-> Absent, added |-> 0]]
  /\ dashboard = << >>
  /\ busy = {}
  /\ entries = SeededEntries
  /\ appended = SeededEntries

\* The next counter of an event; if it is the first, the event begins.
Record(r, kind) ==
  /\ recorder[r].kind = Absent \/ (recorder[r].kind = kind /\ UnderWay(r))
  /\ stats' = [stats EXCEPT ![Adds[kind][recorder[r].added + 1]] = @ + 1]
  /\ recorder' = [recorder EXCEPT ![r] = [kind |-> kind, added |-> @.added + 1]]
  /\ busy' = IF dashboard = << >> THEN busy ELSE busy \union {r}
  /\ UNCHANGED <<dashboard, entries, appended>>

\* memoryDashboard loads the next counter; after the last, it begins anew.
Load ==
  /\ LET loaded == IF Len(dashboard) = Len(Loads) THEN << >> ELSE dashboard IN
       /\ dashboard' = Append(loaded, stats[Loads[Len(loaded) + 1]])
       /\ busy' = IF loaded = << >> THEN {r \in Recorders : UnderWay(r)} ELSE busy
  /\ UNCHANGED <<stats, recorder, entries, appended>>

\* The share of n in total, in hundredths of a percent, as memoryDashboard may show it:
\* round2 cuts off, and where the quotient comes out even, floating point may fall just
\* short of it.
Percent(n, total) ==
  LET cut == (10000 * n) \div total
  IN IF total = 0 THEN {0}
     ELSE IF n \in {0, total} \/ cut * total # 10000 * n THEN {cut}
     ELSE {cut - 1, cut}
-----------------------------------------------------------------------------
(* The log *)

Kept(log) == SubSeq(log, 1, IF Len(log) > Cap THEN Cap ELSE Len(log))

AppendEntry(session) ==
  /\ Len(appended) < MaxEntries
  /\ LET entry == [n |-> Len(appended), session |-> session] IN
       /\ entries' = Kept(<<entry>> \o entries)
       /\ appended' = Append(appended, entry)
  /\ UNCHANGED <<stats, recorder, dashboard, busy>>

IsOf(session, e) == session \in {Absent, e.session}

\* The limit is applied before the filter.
Bug_Query(session) ==
  {i \in DOMAIN entries : i <= Limit /\ IsOf(session, entries[i])}

\* Where in the log the entries are that are returned: the first ones of a session, or of any.
Query(session) ==
  {i \in DOMAIN entries :
     /\ IsOf(session, entries[i])
     /\ Cardinality({j \in 1 .. i : IsOf(session, entries[j])}) <= Limit}

StatsNext ==
  \/ Load
  \/ \E r \in Recorders, kind \in Kinds : Record(r, kind)
  \/ \E session \in Sessions : AppendEntry(session)

StatsSpec == StatsInit /\ [][StatsNext]_statsVars
-----------------------------------------------------------------------------
(* Properties *)

Loaded(counter) == dashboard[CHOOSE i \in DOMAIN Loads : Loads[i] = counter]

\* The successes and fallbacks a dashboard has loaded never fall short of its total,
\* whatever is recorded while it loads, and exceed it by no more events than were under
\* way or begun meanwhile.  So the two rates it shows, each cut off, lack at most 0.02 of
\* 100 % (the seeded counters make 99.99 %), and have more only by the share of those events.
RatesAddUp ==
  Len(dashboard) = Len(Loads) =>
    LET total == Loaded("totalRequests")
        ok == Loaded("silentSuccess")
        fallback == Loaded("silentFallback")
        events == Cardinality(busy)
    IN /\ ok + fallback - total \in 0 .. events
       /\ \A x \in Percent(ok, total), y \in Percent(fallback, total) :
            x + y >= 9998 /\ (x + y - 10000) * total <= 10000 * events

\* A query leaves out an entry of the session only if the log has dropped it for as
\* many newer ones as it may hold, or the answer is full of newer ones of the session.
QueryFindsNewest ==
  \A session \in Sessions : LET found == {entries[i] : i \in Query(session)} IN
    \A e \in Range(appended) : e.session = session /\ e \notin found =>
      \/ e.n + Cap < Len(appended)
      \/ Cardinality(Query(session)) = Limit /\ \A x \in found : x.n > e.n /\ x.session = session
=============================================================================
