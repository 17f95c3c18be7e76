---------------------------- MODULE ScrapeService ----------------------------
(***************************************************************************)
(* What the exporter promises a scraper, without channels or tasks'        *)
(* insides: a scrape is served at most once, and its report is the answer  *)
(* of an atomic look at the registry.  It holds data of registered         *)
(* managers only, and of every registered manager that is still running.   *)
(***************************************************************************)
EXTENDS ExporterTypes

VARIABLES
  asked,      \* "idle", "pending", "served" or "dropped", for each scrape
  given,      \* the tasks whose data a served scrape has
  registry,   \* scope -> the task that answers for it
  dead        \* tasks that have ended

serviceVars == <<asked, given, registry, dead>>

RegisteredTasks == {registry[s] : s \in Scopes} \ {NoTask}

Init ==
  /\ asked = [r \in Requests |-> "idle"]
  /\ given = [r \in Requests |-> {}]
  /\ registry = [s \in Scopes |-> NoTask]
  /\ dead = {}

Ask(r) ==
  /\ asked[r] = "idle"
  /\ asked' = [asked EXCEPT ![r] = "pending"]
  /\ UNCHANGED <<given, registry, dead>>

Serve(r) ==
  /\ asked[r] = "pending"
  /\ \E report \in SUBSET RegisteredTasks :
       /\ RegisteredTasks \ dead \subseteq report
       /\ given' = [given EXCEPT ![r] = report]
  /\ asked' = [asked EXCEPT ![r] = "served"]
  /\ UNCHANGED <<registry, dead>>

\* The scraper goes away before it is served, or the exporter fails.
Drop(r) ==
  /\ asked[r] = "pending"
  /\ asked' = [asked EXCEPT ![r] = "dropped"]
  /\ UNCHANGED <<given, registry, dead>>

Register(s) ==
  /\ \E t \in Tasks \ (dead \union RegisteredTasks) :
       registry' = [registry EXCEPT ![s] = t]
  /\ UNCHANGED <<asked, given, dead>>

Unregister(S) ==
  /\ registry' = [s \in Scopes |-> IF s \in S THEN NoTask ELSE registry[s]]
  /\ UNCHANGED <<asked, given, dead>>

Die(t) ==
  /\ dead' = dead \union {t}
  /\ UNCHANGED <<asked, given, registry>>

Next ==
  \/ \E r \in Requests : Ask(r) \/ Serve(r) \/ Drop(r)
  \/ \E s \in Scopes : Register(s)
  \/ \E S \in SUBSET Scopes : Unregister(S)
  \/ \E t \in Tasks : Die(t)

Spec == Init /\ [][Next]_serviceVars

=============================================================================
