------------------------------ MODULE MCRerun ------------------------------
(***************************************************************************)
(* Instances of Rerun and Linetable for TLC: every line of a few           *)
(* instructions that a compiler could write, in every kind of frame; and   *)
(* every table of a few entries, with every move that it is used for.      *)
(***************************************************************************)
EXTENDS Rerun, Linetable

TwoSlots   == {"a", "b"}
OneParam   == {"a"}
OneCell    == {"c"}
OneGlobal  == {"g"}

Of(op, names) == {Ins(op, <<n>>, 0) : n \in names}

Pairs == {<<"a", "b">>, <<"b", "a">>}

Straight ==
    Of("load", TwoSlots) \cup Of("store", TwoSlots) \cup Of("check", {"b"})
    \cup {Ins("storeLoad", p, 0) : p \in Pairs}
    \cup {Ins("call", <<>>, 1), Ins("const", <<>>, 0), Ins("pop", <<>>, 0),
          Ins("copy", <<>>, 1), Ins("swap", <<>>, 2), Ins("build", <<>>, 2)}

Other ==
    Of("name", TwoSlots) \cup Of("storeName", TwoSlots) \cup Of("delete", TwoSlots)
    \cup Of("global", OneGlobal) \cup Of("storeGlobal", OneGlobal)
    \cup Of("deref", OneCell) \cup Of("storeDeref", OneCell)
    \cup {Ins("load2", <<"a", "b">>, 0), Ins("store2", <<"b", "a">>, 0),
          Ins("global", <<"g">>, 1), Ins("call", <<>>, 2), Ins("unpack", <<>>, 0),
          Ins("copy", <<>>, 2), Ins("swap", <<>>, 3), Ins("nop", <<>>, 0),
          Ins("other", <<>>, 0), Ins("return", <<>>, 0), Ins("returnConst", <<>>, 0)}

Everything == Straight \cup Other

CONSTANT ShortCode   \* how long a code object is that holds anything

(* Anything in a short one; in a long one, what an ordinary line holds, in *)
(* an ordinary function.                                                   *)
Plain(c) == \A k \in DOMAIN c : Ins(c[k].op, c[k].names, c[k].arg) \in Straight /\ c[k].line = 1

ShortOrPlain(f, c) ==
    CASE Len(c) < ShortCode -> Everything
      [] Len(c) >= ShortCode /\ ~f.body /\ Odd(f) = 0 /\ Plain(c) -> Straight
      [] OTHER -> {}

(* The second line is for what is ordinary and short. *)
OneLineOrShort ==
    Last(code').line = 1 \/ (Odd(frame) = 0 /\ Len(code') <= ShortCode)

JumpsAndSteps == {-100, 0, 2, 40}

(* A behaviour writes instructions, or a table, and never both. *)
AnyFrame == CHOOSE f \in Frames : Odd(f) = 0
AnyFirst == CHOOSE n \in Firsts : TRUE

BothInit == Init /\ TableInit /\ (first = AnyFirst \/ frame = AnyFrame)

BothNext ==
    \/ Next /\ OneLineOrShort /\ first = AnyFirst /\ lines = <<>> /\ UNCHANGED tvars
    \/ TableNext /\ frame = AnyFrame /\ code = <<>> /\ UNCHANGED vars

BothSpec == BothInit /\ [][BothNext]_<<vars, tvars>>

=============================================================================
