---------------------------- MODULE ExporterTypes ----------------------------
(***************************************************************************)
(* The identities that the modules of the scrape path share.               *)
(***************************************************************************)
CONSTANTS
  Uids,       \* the users that may log in
  System,     \* the scope of the system manager
  Tasks,      \* manager tasks, enough for every spawn of a behaviour
  NoTask,     \* no task is registered for a scope
  Requests,   \* the scrapes of a behaviour; each has a handler of its own
  NoRequest

\* coordinator.rs, enum Scope: System or User(uid).
Scopes == Uids \union {System}

ASSUME IdentityAssumption ==
  /\ System \notin Uids
  /\ NoTask \notin Tasks
  /\ NoRequest \notin Requests

=============================================================================
