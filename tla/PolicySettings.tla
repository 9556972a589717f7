---------------------------- MODULE PolicySettings ----------------------------
(***************************************************************************)
(* The policy configuration lives twice: in policy_config, the row that    *)
(* survives a restart, and in the engine, the copy that Evaluate reads.    *)
(* PATCH /dashboard/settings/policy writes the row, then the copy; a       *)
(* restart fills the copy from the row.                                    *)
(***************************************************************************)
EXTENDS PolicyRules

CONSTANTS
  Configs,     \* configurations an operator may send that pass validation
  Default,     \* policy.DefaultConfig, also what the seed writes into the row
  Updaters,    \* settings requests that may run at once
  MayFail      \* whether statements may fail and the process may die

ASSUME SettingsAssumption ==
  /\ Configs \subseteq PolicyConfig
  /\ Default \in Configs
  /\ None \notin Configs
  /\ MayFail \in BOOLEAN

VARIABLES
  stored,    \* policy_config
  live,      \* Engine.config
  update,    \* each request: where it stands and what it wants
  saved      \* history: what the row ever held

settingsVars == <<stored, live, update, saved>>

Update == [pc : {"idle", "save", "apply"}, cfg : Configs \cup {None}]
NoUpdate == [pc |-> "idle", cfg |-> None]

SettingsTypeOK ==
  /\ stored \in Configs
  /\ live \in Configs
  /\ update \in [Updaters -> Update]
  /\ saved \subseteq Configs

SettingsInit ==
  /\ stored = Default
  /\ live = Default
  /\ update = [u \in Updaters |-> NoUpdate]
  /\ saved = {Default}

\* UpdateSettings decodes and validates the request.
BeginUpdate(u, cfg) ==
  /\ update[u].pc = "idle"
  /\ update' = [update EXCEPT ![u] = [pc |-> "save", cfg |-> cfg]]
  /\ UNCHANGED <<stored, live, saved>>

\* The upsert of the row.
SaveConfig(u) ==
  /\ update[u].pc = "save"
  /\ stored' = update[u].cfg
  /\ saved' = saved \cup {update[u].cfg}
  /\ update' = [update EXCEPT ![u] = [pc |-> "apply", cfg |-> @.cfg]]
  /\ UNCHANGED live

\* Mutant: the error of the upsert is dropped.
SaveConfigFails_GoesOn(u) ==
  /\ MayFail
  /\ update[u].pc = "save"
  /\ update' = [update EXCEPT ![u] = [pc |-> "apply", cfg |-> @.cfg]]
  /\ UNCHANGED <<stored, live, saved>>

\* The upsert fails: the engine is left alone.
SaveConfigFails(u) ==
  /\ MayFail
  /\ update[u].pc = "save"
  /\ update' = [update EXCEPT ![u] = NoUpdate]
  /\ UNCHANGED <<stored, live, saved>>

\* Engine.UpdateConfig, under its mutex.
UpdateConfig(u) ==
  /\ update[u].pc = "apply"
  /\ live' = update[u].cfg
  /\ update' = [update EXCEPT ![u] = NoUpdate]
  /\ UNCHANGED <<stored, saved>>

\* The process starts again: GetConfig, or the default when the row cannot be
\* read.
LoadConfig ==
  /\ MayFail
  /\ live' \in {stored, Default}
  /\ update' = [u \in Updaters |-> NoUpdate]
  /\ UNCHANGED <<stored, saved>>

SettingsNext ==
  \E u \in Updaters :
    \/ \E cfg \in Configs : BeginUpdate(u, cfg)
    \/ SaveConfig(u) \/ SaveConfigFails(u) \/ UpdateConfig(u)

------------------------------------------------------------------------------
\* What takes effect is durable first: the engine only ever enforces what the
\* row held, whatever fails and however requests and restarts interleave.
EnforcedWasDurable == live \in saved

\* The inductive invariant: every copy of a configuration that is, or is about to
\* be, enforced has been in the row.
SettingsInv ==
  /\ SettingsTypeOK
  /\ {stored, live, Default} \subseteq saved
  /\ \A u \in Updaters :
       /\ update[u].pc # "idle" => update[u].cfg \in Configs
       /\ update[u].pc = "apply" => update[u].cfg \in saved
==============================================================================
