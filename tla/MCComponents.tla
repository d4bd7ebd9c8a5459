---------------------------- MODULE MCComponents ----------------------------
(***************************************************************************)
(* The smaller components on small instances.  They share no state, so     *)
(* that their behaviours can be looked at apart: the component that makes  *)
(* the steps is chosen at the beginning, and the others stay in their      *)
(* initial states.                                                         *)
(***************************************************************************)
EXTENDS CorrectionLoop, CreditorLifecycle, UsageStats, PinInfo,
        AccountConfig, AccountObjects

CONSTANT Components     \* those that may be chosen

VARIABLE component

all_vars == <<component, loop_vars, lifecycle_vars, usage_vars, pin_vars,
              config_vars, object_vars>>

Init ==
    /\ component \in Components
    /\ LoopStart
    /\ component # "CorrectionLoop" => from = 0 /\ previous_principal = 0
    /\ LifecycleInit
    /\ UsageInit
    /\ PinInit
    /\ ConfigInit
    /\ ObjectsInit

Chosen(c) == component = c /\ UNCHANGED component

Next ==
    \/ /\ Chosen("CorrectionLoop") /\ LoopNext
       /\ UNCHANGED <<lifecycle_vars, usage_vars, pin_vars, config_vars, object_vars>>
    \/ /\ Chosen("CreditorLifecycle") /\ LifecycleNext
       /\ UNCHANGED <<loop_vars, usage_vars, pin_vars, config_vars, object_vars>>
    \/ /\ Chosen("UsageStats") /\ UsageNext
       /\ UNCHANGED <<loop_vars, lifecycle_vars, pin_vars, config_vars, object_vars>>
    \/ /\ Chosen("PinInfo") /\ PinNext
       /\ UNCHANGED <<loop_vars, lifecycle_vars, usage_vars, config_vars, object_vars>>
    \/ /\ Chosen("AccountConfig") /\ ConfigNext
       /\ UNCHANGED <<loop_vars, lifecycle_vars, usage_vars, pin_vars, object_vars>>
    \/ /\ Chosen("AccountObjects") /\ ObjectsNext
       /\ UNCHANGED <<loop_vars, lifecycle_vars, usage_vars, pin_vars, config_vars>>

Spec == Init /\ [][Next]_all_vars

\* The loop goes on.
LoopFairness == WF_loop_vars(component = "CorrectionLoop" /\ LoopNext)

\* Time passes, transactions end, and the scanner passes over the table again
\* and again; that is to say, it deletes what it keeps finding.
LifecycleFairness ==
    /\ WF_lifecycle_vars(component = "CreditorLifecycle" /\ NextDay)
    /\ \A d \in Debtors :
           WF_lifecycle_vars(component = "CreditorLifecycle" /\ InsertAccount(d))
    /\ WF_lifecycle_vars(component = "CreditorLifecycle" /\ ScanCreditor)
    /\ WF_lifecycle_vars(component = "CreditorLifecycle" /\ DeleteCreditor)

\* Time passes, the scanner passes over the table again and again, and
\* heartbeats arrive as long as there is a server account.  Messages that
\* configure an account are sent once, and may be lost; those that discard an
\* orphan are sent with every heartbeat, and are not rejected.
ConfigFairness ==
    /\ WF_config_vars(component = "AccountConfig" /\ NextTick)
    /\ WF_config_vars(component = "AccountConfig" /\ _set_config_error)
    /\ WF_config_vars(component = "AccountConfig" /\ Heartbeat)
    /\ WF_config_vars(component = "AccountConfig" /\ _discard_orphaned_account)
    /\ WF_config_vars(component = "AccountConfig" /\
           \E c \in configure_account : c.data = HugeNegligible /\ Configure(c))

FairSpec == Spec /\ LoopFairness /\ LifecycleFairness /\ ConfigFairness

\* The types of all variables, with the bounds and the relations of the columns
\* that the tables promise by constraints or by sequences.
ComponentsTypeOK ==
    /\ LifecycleTypeOK
    /\ UsageTypeOK
    /\ PinTypeOK
    /\ ConfigTypeOK
    /\ ObjectsTypeOK

-----------------------------------------------------------------------------
(* Constants that are functions                                            *)

PinLengths == [p \in Pins |-> IF p = "1234" THEN 4 ELSE 5]

\* Small limits with the shape of the real ones: none without a PIN, and more
\* of them for a longer PIN.
SmallMaxAfa == [n \in 0..10 |-> IF n = 0 THEN 0 ELSE n - 1]

=============================================================================
