------------------------------ MODULE CfsPlugin ------------------------------
(***************************************************************************)
(* The cFS plugin of the CTF test framework (cfs_plugin.py).  A test      *)
(* script registers cFS targets by name (local, SP0 or remote over ssh), *)
(* or lets start_cfs register them lazily from the sections of the CTF    *)
(* configuration file, and then starts, commands, checks and shuts them   *)
(* down, by name or, with the name "", all registered targets.            *)
(*                                                                         *)
(* The controllers (CfsController and its kin) are not part of this code: *)
(* what they return is a free choice.  Only the plugin's own state is     *)
(* modelled: the dictionary of targets (a sequence, in insertion order),  *)
(* the initialized flag, and the commands each controller was asked to    *)
(* send.                                                                   *)
(***************************************************************************)
EXTENDS Naturals, Sequences, SequencesExt

CONSTANTS
    Sections,   \* Config.sections(), in order: [name, cfs, protocol]
    CallNames,  \* the names a test script passes ("" for all targets)
    Mults,      \* the mult arguments of send_mult_cfs_commands
    MaxSent     \* bound on the commands sent to one controller

DefaultName == "default"
Protocols == {"local", "ssh", "sp0", ""}
SectionNames == {Sections[i].name : i \in DOMAIN Sections}
Names == (CallNames \ {""}) \cup SectionNames \cup {DefaultName}

ASSUME /\ \A i \in DOMAIN Sections :
              Sections[i].cfs \in BOOLEAN /\ Sections[i].protocol \in Protocols
       /\ "" \in CallNames
       /\ Mults \subseteq Nat /\ MaxSent \in Nat

VARIABLES
    targets,      \* the keys of self.targets, in insertion order
    deleted,      \* "del self.targets" has run: later uses raise AttributeError
    initialized,  \* self.initialized
    sent,         \* sent[n]: send_cfs_command calls made on n's controller
    ret           \* what the last plugin call returned, or "raised"

vars == <<targets, deleted, initialized, sent, ret>>

Returns == {"none", "true", "false", "raised"}

\* A free controller result: True or False.
Results == {"true", "false"}

-----------------------------------------------------------------------------
\* cfs_protocol of a name in the configuration file, "" when it has none.
ProtocolOf(n) ==
    IF \E i \in DOMAIN Sections : Sections[i].name = n
    THEN Sections[CHOOSE i \in DOMAIN Sections : Sections[i].name = n].protocol
    ELSE ""

\* "if not name: name = 'default'"
NameOf(n) == IF n = "" THEN DefaultName ELSE n

\* The common tail of the three register_* methods: a name already in
\* self.targets is refused; otherwise the controller is created and, when
\* its initialize() returns True (ok), stored.  validationFails is
\* get_error_count() > 0 for the local and SP0 forms.
Register(ts, n, validationFails, ok) ==
    IF n \in Range(ts) \/ validationFails \/ ~ok THEN ts ELSE Append(ts, n)

\* get_configuration(name): the "cfs_" sections for "", else the one name;
\* register_cfs_local() (the default target) when the list is empty; each
\* name registered with the form its cfs_protocol gives, and a name with
\* no known protocol only logged.  okf[s] is whether that registration
\* passes validation and the controller initializes.
GetConfiguration(ts, name, okf) ==
    LET insts == IF name = ""
                 THEN [k \in 1..Len(SelectSeq(Sections, LAMBDA s : s.cfs)) |->
                          SelectSeq(Sections, LAMBDA s : s.cfs)[k].name]
                 ELSE <<name>>
    IN IF insts = <<>>
       THEN Register(ts, DefaultName, FALSE, okf[DefaultName])
       ELSE FoldLeft(LAMBDA acc, s :
                        IF ProtocolOf(s) # "" THEN Register(acc, s, FALSE, okf[s]) ELSE acc,
                     ts, insts)

\* name_instances: every registered target for "", else the one name.
Instances(ts, name) == IF name = "" THEN ts ELSE <<name>>

\* Faulty form of NotFound: only an empty list refused.
NotFoundEmptyOnly(ts, name) == Instances(ts, name) = <<>>

\* "(len(name_instances) == 0) or (name_instances[0] not in self.targets)"
NotFound(ts, name) ==
    LET insts == Instances(ts, name)
    IN insts = <<>> \/ insts[1] \notin Range(ts)

Init ==
    /\ targets = <<>>
    /\ deleted = FALSE
    /\ initialized = FALSE
    /\ sent = [n \in Names |-> 0]
    /\ ret = "none"

\* A method body that first uses self.targets raises once it is deleted.
Raises ==
    /\ deleted
    /\ ret' = "raised"
    /\ UNCHANGED <<targets, deleted, initialized, sent>>

(* register_cfs_local and register_cfs_sp0: validation, then initialize.  *)
RegisterValidated(n) ==
    \/ Raises
    \/ /\ ~deleted
       /\ \E validationFails, ok \in BOOLEAN :
            /\ targets' = Register(targets, NameOf(n), validationFails, ok)
            /\ initialized' = (initialized \/ targets' # targets)
            /\ ret' = IF targets' # targets THEN "true" ELSE "false"
       /\ UNCHANGED <<deleted, sent>>

RegisterCfsLocal(n) == RegisterValidated(n)
RegisterCfsSp0(n) == RegisterValidated(n)

(* register_cfs_remote: no validation; the ssh connection and initialize. *)
RegisterCfsRemote(n) ==
    \/ Raises
    \/ /\ ~deleted
       /\ \E ok \in BOOLEAN :
            /\ targets' = Register(targets, NameOf(n), FALSE, ok)
            /\ initialized' = (initialized \/ targets' # targets)
            /\ ret' = IF targets' # targets THEN "true" ELSE "false"
       /\ UNCHANGED <<deleted, sent>>

(* start_cfs: get_configuration first while no target was ever            *)
(* registered, then start_cfs on every instance.                           *)
StartCfs(n) ==
    \/ Raises
    \/ /\ ~deleted
       /\ \E okf \in [Names -> BOOLEAN] :
            LET ts == IF initialized THEN targets ELSE GetConfiguration(targets, n, okf)
            IN /\ targets' = ts
               /\ initialized' = (initialized \/ ts # targets)
               /\ IF NotFound(ts, n) THEN ret' = "false" ELSE ret' \in Results
       /\ UNCHANGED <<deleted, sent>>

(* build_cfs, enable_cfs_output, check_tlm_value, check_event,            *)
(* shutdown_cfs: the controller method on every instance; all(status).     *)
PerTargetCall(n) ==
    \/ Raises
    \/ /\ ~deleted
       /\ IF NotFound(targets, n) THEN ret' = "false" ELSE ret' \in Results
       /\ UNCHANGED <<targets, deleted, initialized, sent>>

BuildCfs(n) == PerTargetCall(n)
EnableCfsOutput(n) == PerTargetCall(n)
CheckTlmValue(n) == PerTargetCall(n)
CheckEvent(n) == PerTargetCall(n)
ShutdownCfs(n) == PerTargetCall(n)

\* The commands each controller gets from a call that sends k to every
\* instance in turn.
SendTo(insts, k) == [x \in Names |-> IF x \in Range(insts) THEN sent[x] + k ELSE sent[x]]

(* send_cfs_command: one command to every instance.                       *)
SendCfsCommand(n) ==
    \/ Raises
    \/ /\ ~deleted
       /\ IF NotFound(targets, n)
          THEN ret' = "false" /\ UNCHANGED sent
          ELSE /\ \A x \in Range(Instances(targets, n)) : sent[x] < MaxSent
               /\ sent' = SendTo(Instances(targets, n), 1)
               /\ ret' \in Results
       /\ UNCHANGED <<targets, deleted, initialized>>

\* How many commands each instance gets: i = 0 is set once before the
\* "for name_instance" loop, so "while i < mult" sends mult commands to
\* the first instance and none to the others.
MultCounts(insts, mult) ==
    [k \in DOMAIN insts |-> IF k = 1 THEN mult ELSE 0]

(* send_mult_cfs_commands.                                                 *)
SendMultCfsCommands(n, mult) ==
    \/ Raises
    \/ /\ ~deleted
       /\ IF NotFound(targets, n)
          THEN ret' = "false" /\ UNCHANGED sent
          ELSE LET insts == Instances(targets, n)
                   c == MultCounts(insts, mult)
               IN /\ \A k \in DOMAIN insts : sent[insts[k]] + c[k] <= MaxSent
                  /\ sent' = [x \in Names |->
                                IF \E k \in DOMAIN insts : insts[k] = x
                                THEN sent[x] + c[CHOOSE k \in DOMAIN insts : insts[k] = x]
                                ELSE sent[x]]
                  \* all([]) is True when mult is 0
                  /\ ret' \in IF \A k \in DOMAIN insts : c[k] = 0 THEN {"true"} ELSE Results
       /\ UNCHANGED <<targets, deleted, initialized>>

(* shutdown: every controller shut down, then "del self.targets".         *)
Shutdown ==
    \/ Raises
    \/ /\ ~deleted
       /\ deleted' = TRUE
       /\ ret' = "none"
       /\ UNCHANGED <<targets, initialized, sent>>

Next ==
    \/ \E n \in CallNames :
          \/ RegisterCfsLocal(n) \/ RegisterCfsSp0(n) \/ RegisterCfsRemote(n)
          \/ StartCfs(n) \/ BuildCfs(n)
          \/ EnableCfsOutput(n) \/ CheckTlmValue(n) \/ CheckEvent(n) \/ ShutdownCfs(n)
          \/ SendCfsCommand(n)
          \/ \E m \in Mults : SendMultCfsCommands(n, m)
    \/ Shutdown

Spec == Init /\ [][Next]_vars

-----------------------------------------------------------------------------
(* No command is ever sent to a name that is not a registered target: the *)
(* "not in self.targets" check guards every call by name.                  *)
SentOnlyToRegistered ==
    \A x \in Names : sent[x] > 0 => x \in Range(targets)

(* send_mult_cfs_commands with the name "" sends mult commands to every   *)
(* registered target, as send_cfs_command sends one to each.              *)
MultCommandReachesEveryTarget ==
    [][\A m \in Mults :
          (SendMultCfsCommands("", m) /\ ~deleted /\ targets # <<>>) =>
             \A x \in Range(targets) : sent'[x] = sent[x] + m]_vars
=============================================================================
