------------------------------ MODULE Carriers ------------------------------
(***************************************************************************)
(* The carriers behind the server: the adapters built from the providers'  *)
(* configuration, the router by country (adapter/telco/adapter.go), and    *)
(* calls of the adapters, which may be refused a token, lose the carrier's *)
(* answer, or get one of another status or another form; then what the     *)
(* policy engine makes of a SIM swap that the client passes on.            *)
(* Silent verification passes the hash of a phone number where the         *)
(* carriers expect the number; the model lets them answer anything.        *)
(***************************************************************************)
EXTENDS Verdicts, FiniteSetsExt

CONSTANTS
  CallCountries,
  SandboxCountries,   \* those the sandbox supports
  Files,              \* providers' configurations: sequences of entries, or
  Missing, Unreadable,   \* Missing (not configured), or Unreadable
  Calls            \* goroutines

Entry == [type : STRING, enabled : BOOLEAN, countries : SUBSET STRING, key : STRING]

VARIABLES
  file,             \* the configuration
  countryMapping,   \* countryMapping[c]: the adapter (its entry) that serves c
  call              \* what each request is doing

carrierVars == <<file, countryMapping, call>>

\* The adapter the server makes up for itself.
Sandbox == [type |-> "sandbox", enabled |-> TRUE, countries |-> {}, key |-> "good"]
-----------------------------------------------------------------------------
(* Assembly *)

\* A file of Vonage's key that cannot be read; a key that is none is built in all the same.
Buildable(entry) ==
  /\ entry.type \in {"sandbox", "ipification", "vonage", "camara"}
  /\ entry.type = "vonage" => entry.key # "unreadable"

Supported(entry) == IF entry.type = "sandbox" THEN SandboxCountries ELSE entry.countries

\* (Definitions named Bug_... are plausible mistakes, which the properties must catch.)
\* The adapter that is registered first stays.
Bug_RegisterAdapter(mapping, entry) ==
  [c \in DOMAIN mapping \union Supported(entry) |->
     IF c \in DOMAIN mapping THEN mapping[c] ELSE entry]

\* The adapter that is registered last has the country.
RegisterAdapter(mapping, entry) ==
  [c \in DOMAIN mapping \union Supported(entry) |->
     IF c \in Supported(entry) THEN entry ELSE mapping[c]]

Entries == IF file \in {Missing, Unreadable} THEN << >> ELSE file

\* BuildAdapters skips what is not enabled and stops at an entry it cannot build.
Fails(i) == Entries[i].enabled /\ ~Buildable(Entries[i])
Registered(i) == Entries[i].enabled /\ \A j \in 1 .. i : ~Fails(j)

BuildAdapters ==
  LET after[n \in 0 .. Len(Entries)] ==
        IF n = 0 THEN << >>
        ELSE IF Registered(n) THEN RegisterAdapter(after[n - 1], Entries[n]) ELSE after[n - 1]
  IN after[Len(Entries)]

\* The sandbox comes after what has been registered until a failure.
BuildFailed == file \in {Missing, Unreadable} \/ \E i \in DOMAIN Entries : Fails(i)

NoCall == [pc |-> "idle", kind |-> Missing, country |-> Missing, check |-> Missing, result |-> Missing]

CarriersInit ==
  /\ file \in Files
  /\ countryMapping = IF BuildFailed THEN RegisterAdapter(BuildAdapters, Sandbox) ELSE BuildAdapters
  /\ call = [r \in Calls |-> NoCall]

RouterSupports(c) == c \in DOMAIN countryMapping
-----------------------------------------------------------------------------
(* Calls *)

\* What becomes of a request to a carrier: lost, or an answer with a body that says
\* no or yes, perhaps with the date of the swap, or is no JSON.
Lost == [status |-> 0, body |-> "garbage"]
Replies == {Lost} \union [status : {200, 404, 500}, body : {"no", "yes", "dated", "garbage"}]

ASSUME CarriersAssumption ==
  /\ Files \subseteq {Missing, Unreadable} \union Seq(Entry)
  /\ << >> \notin {Missing, Unreadable} /\ Missing \notin Replies

OK(reply) == reply.status = 200 /\ reply.body # "garbage"
SaysYes(reply) == reply.body \in {"yes", "dated"}

Silent(status, confidence) == [status |-> status, confidence |-> confidence]
SwapResult(detected, dated) ==
  [status |-> "ok", detected |-> detected, dated |-> dated,
   riskLevel |-> IF detected THEN "high" ELSE "low",
   recommendation |-> IF detected THEN "block" ELSE "allow"]
Error == [status |-> "error"]

Adapter(r) == countryMapping[call[r].country]

Become(r, pc, check, result) ==
  call' = [call EXCEPT ![r] = [@ EXCEPT !.pc = pc, !.check = check, !.result = result]]

\* SilentVerify is asked only for supported countries; CheckSIMSwap fails for others.
Ask(r, kind, c) ==
  /\ call[r].pc \in {"idle", "answered"}
  /\ call' = [call EXCEPT ![r] =
       [pc |-> IF ~RouterSupports(c) THEN "answered"
               ELSE IF countryMapping[c].type = "sandbox" THEN "simulate" ELSE "token",
        kind |-> kind, country |-> c, check |-> Missing,
        result |-> IF RouterSupports(c) THEN Missing
                   ELSE IF kind = "silent" THEN Silent("fallback", 0) ELSE Error]]
  /\ UNCHANGED <<file, countryMapping>>

\* The sandbox throws dice.
Simulate(r) ==
  /\ call[r].pc = "simulate"
  /\ \E result \in IF call[r].kind = "silent"
                   THEN {Silent("verified", 95), Silent("verified", 99), Silent("fallback", 0)}
                   ELSE {SwapResult(TRUE, TRUE), SwapResult(FALSE, TRUE)} :
       Become(r, "answered", Missing, result)
  /\ UNCHANGED <<file, countryMapping>>

\* OAuth2Client.GetToken, or Vonage's own JWT.  Without a token the call fails.
Authorize(r) ==
  /\ call[r].pc = "token"
  /\ \E granted \in IF Adapter(r).type = "vonage" THEN {Adapter(r).key = "good"} ELSE BOOLEAN :
       IF granted THEN Become(r, "request", Missing, Missing)
       ELSE Become(r, "answered", Missing, Error)
  /\ UNCHANGED <<file, countryMapping>>

\* The body of any answer taken for the carrier's word.
Bug_Verified(reply) ==
  IF SaysYes(reply) THEN Silent("verified", 100) ELSE Silent("fallback", 0)

\* Whatever goes wrong makes the client fall back on a one-time code.
Verified(reply) ==
  IF OK(reply) /\ SaysYes(reply) THEN Silent("verified", 100) ELSE Silent("fallback", 0)

\* ipification may send the date along; Vonage has none.
Swap(type, reply) ==
  IF OK(reply) THEN SwapResult(SaysYes(reply), type = "ipification" /\ reply.body = "dated")
  ELSE Error

\* The carrier's answer, or none within the client's timeout.  CAMARA is asked for the
\* date of a swap by another request.
Reply(r, reply) ==
  /\ call[r].pc = "request"
  /\ LET type == Adapter(r).type
         result == IF call[r].kind = "silent" THEN Verified(reply) ELSE Swap(type, reply)
         more == type = "camara" /\ call[r].kind = "simswap" /\ OK(reply) /\ SaysYes(reply)
     IN Become(r, IF more THEN "date" ELSE "answered", reply, result)
  /\ UNCHANGED <<file, countryMapping>>

\* A date that cannot be had fails the call.
Bug_RetrieveDate(r, reply) ==
  /\ call[r].pc = "date"
  /\ Become(r, "answered", call[r].check,
            IF OK(reply) THEN SwapResult(TRUE, reply.body = "dated") ELSE Error)
  /\ UNCHANGED <<file, countryMapping>>

\* The swap is reported with or without its date.
RetrieveDate(r, reply) ==
  /\ call[r].pc = "date"
  /\ Become(r, "answered", call[r].check, SwapResult(TRUE, OK(reply) /\ reply.body = "dated"))
  /\ UNCHANGED <<file, countryMapping>>

CarriersNext ==
  \E r \in Calls :
    \/ \E kind \in {"silent", "simswap"}, c \in CallCountries : Ask(r, kind, c)
    \/ Simulate(r) \/ Authorize(r)
    \/ \E reply \in Replies : Reply(r, reply) \/ RetrieveDate(r, reply)

CarriersSpec == CarriersInit /\ [][CarriersNext]_carrierVars
-----------------------------------------------------------------------------
(* Properties *)

Answered(r, kind) == call[r].pc = "answered" /\ call[r].kind = kind

Simulated(r) == RouterSupports(call[r].country) /\ Adapter(r).type = "sandbox"

\* A phone is verified only if the carrier itself said so, with status 200 and with full
\* confidence, or if the sandbox serves the country.
VerifiedOnCarriersWord ==
  \A r \in Calls : Answered(r, "silent") /\ call[r].result.status = "verified" =>
    \/ Simulated(r)
    \/ OK(call[r].check) /\ call[r].check.body # "no" /\ call[r].result.confidence = 100

\* A swap that a carrier has reported is blocked by the engine, whether or not its date
\* could be had; and a client that was told of a swap was told so by a carrier.
ReportedSwapBlocks ==
  \A r \in Calls : Answered(r, "simswap") =>
    LET result == call[r].result
        reported == call[r].check # Missing /\ OK(call[r].check) /\ call[r].check.body # "no"
        in == [swap |-> IF result.status = "error" THEN "none"
                        ELSE IF result.detected THEN result.riskLevel ELSE "no",
               result |-> "verified", confidence |-> 0, deviceChanged |-> FALSE, risk |-> 0]
    IN /\ reported => Evaluate(<< >>, in, 0).verdict = "block"
       /\ Swapped(in) => reported \/ Simulated(r)

\* Of the providers before one that cannot be built, the last one that lists a country
\* serves it, unless the failure brings in the sandbox, which takes its own countries
\* from all; and nothing but a failure brings in a sandbox that is not configured.
EachCountryServedAsListed ==
  LET enabled == {i \in DOMAIN Entries : Entries[i].enabled}
      built == {i \in enabled : \A j \in enabled : j <= i => Buildable(Entries[j])}
      failed == Entries # file \/ built # enabled
  IN \A c \in CallCountries :
       LET listed == {i \in built : c \in Supported(Entries[i])} IN
         IF failed /\ c \in SandboxCountries THEN countryMapping[c] = Sandbox
         ELSE /\ RouterSupports(c) <=> listed # {}
              /\ listed # {} => countryMapping[c] = Entries[Max(listed)]
=============================================================================
