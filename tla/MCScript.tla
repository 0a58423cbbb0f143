------------------------------ MODULE MCScript ------------------------------
(***************************************************************************)
(* Instances of Script: trees that use every step, alone and nested.  They *)
(* share a run with Staging, of which a behaviour stages agents or runs a  *)
(* script, and never both.                                                 *)
(***************************************************************************)
EXTENDS MCStaging, Script

Trees ==
    {<<Leaf("runTo"), Leaf("runTo"), Leaf("eval")>>,
     <<Leaf("continue"), Leaf("step"), Leaf("stack"), Leaf("log")>>,
     <<Repeat(2, <<Leaf("step")>>), Leaf("finish"), Leaf("eval")>>,
     <<Branch(<<Leaf("runTo")>>, <<Leaf("log"), Leaf("continue")>>), Leaf("stack")>>,
     <<Repeat(1, <<Branch(<<Leaf("runTo")>>, <<>>)>>), Leaf("step")>>}

VARIABLE part   \* of the engine that a behaviour is of: "staging" or "script"

AnyTree == CHOOSE s \in Trees : TRUE

PartsInit ==
    /\ Init /\ Begun
    /\ \/ part = "staging" /\ script = AnyTree /\ outcome = "ran"
       \/ part = "script" /\ ScriptInit /\ kind = "agents" /\ windows = TRUE /\ root = "absent"

OfStaging == part = "staging" /\ Next /\ UNCHANGED <<svars, part>>

OfScript(step) == part = "script" /\ step /\ UNCHANGED <<vars, part>>

PartsNext == OfStaging \/ OfScript(ScriptNext)

PartsSpec ==
    /\ PartsInit /\ [][PartsNext]_<<vars, svars, part>>
    /\ WF_svars(OfScript(Engine)) /\ WF_svars(OfScript(Clock))

=============================================================================
