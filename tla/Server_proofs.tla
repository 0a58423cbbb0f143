---------------------------- MODULE Server_proofs ----------------------------
(***************************************************************************)
(* Where the calls of Server act, what they tell of, and who is told that  *)
(* a session joined: for any programs, children, stops and calls.          *)
(*                                                                         *)
(* A number does not name a stop.  The invariant says of each phase of a   *)
(* call why the addressing rules find the one stop it can be about.        *)
(***************************************************************************)
EXTENDS Server, SequenceTheorems, FiniteSetTheorems, FunctionTheorems, TLAPS

Numbers  == 1..MaxStops
Stops    == Programs \X Numbers
Places   == Programs \X (0..MaxStops)
Kinds    == ByStop \cup ByProgram \cup {"run"}
ARequest == {r \in [kind : Kinds, stop : 0..MaxStops] : r.kind = "step" => r.stop # 0}

ACall == [tool : ByStop \cup ByProgram \cup {"none", "sessions", "launch", "terminate"},
          session : Programs \cup {None}, todo : Seq(ARequest), at : Programs \cup {None},
          looked : BOOLEAN, timed : BOOLEAN, got : SUBSET Stops, freed : SUBSET Stops,
          acted : SUBSET Places, meant : SUBSET Places]

\* The types.
Shape ==
    /\ life \in [Programs -> {"none", "knocking", "open", "gone"}]
    /\ inForce \in [Programs -> SUBSET Numbers]
    /\ minted \in [Programs -> 0..MaxStops] /\ said \in [Programs -> Nat]
    /\ wire \in [Programs -> Seq(0..MaxStops)]
    /\ attached \in Seq(Programs) /\ held \in [Programs -> SUBSET Numbers]
    /\ holds \in BOOLEAN /\ joined \subseteq Programs
    /\ call \in ACall /\ calls \in Nat
    /\ seen \subseteq Programs /\ believed \subseteq Stops /\ unsure \in BOOLEAN

-----------------------------------------------------------------------------
\* What the engine takes to be held, and what it has yet to read of, an agent
\* that is there holds; and it is there, or was, for the session to be attached.
Connections ==
    /\ \A p \in Attached : life[p] \in {"open", "gone"}
    /\ \A p \in Programs \ Attached : held[p] = {}
    /\ \A p \in Programs : life[p] = "none" => wire[p] = <<>>
    /\ \A p \in Programs : life[p] \in {"knocking", "open"} =>
          held[p] \subseteq inForce[p] /\ ToSet(wire[p]) \subseteq {0} \cup inForce[p]

\* A call has a debuggee until it is answered, and a launch its program alone.
InCall ==
    /\ call.todo # <<>> \/ call.at # None \/ call.got # {} => holds
    /\ call.tool = "launch" /\ holds => \E p \in Programs : attached = <<p>> /\ call.got = {<<p, 1>>}

\* A call that named no session has one to be about: no other holds a stop.
Alone(p) ==
    /\ p \in Attached /\ call.session \in {None, p}
    /\ call.session = None => \A q \in Attached \ {p} : held[q] = {}

\* Nothing has been returned yet: the call asks one thing, and may then wait.
AsksOnce(todo) ==
    /\ Len(todo) <= 2
    /\ Len(todo) = 2 => todo[2].kind = "wait"
    /\ todo[1].kind = "run" => todo[1].stop = 0
    /\ todo[1].kind \in {"run", "wait"} => Len(todo) = 1

Asks == call.got = {} /\ call.todo # <<>> => call.at = None /\ AsksOnce(call.todo)

\* It is asked where its caller meant.
Meant(r) == \A p \in AskedOf(call.session, r.stop) : life[p] = "open" => <<p, r.stop>> \in call.meant

AsksAsMeant == call.got = {} /\ call.todo # <<>> /\ call.todo[1].kind # "wait" => Meant(call.todo[1])

\* The call waits for one program.
Waiting == call.at # None => call.todo = <<>> /\ call.got = {} /\ Alone(call.at)

\* A stop was returned, and all that is left to do is to read about it.
Returned ==
    call.got # {} =>
       \E h \in HeldNow : /\ call.got = {h} /\ Alone(h[1])
                          /\ \A i \in 1..Len(call.todo) : /\ call.todo[i].kind \in {"read", "world"}
                                                          /\ call.todo[i].stop = h[2]

\* The only session there is is known, if its program is there.
OneIsKnown ==
    \A p \in Programs : holds /\ attached = <<p>> /\ life[p] # "gone" /\ call.tool # "launch" => p \in seen

\* A client that is sure takes nothing to be held but what is, or what the call
\* lets go.
Sure == ~unsure => believed \ call.freed \subseteq IF holds THEN HeldNow ELSE {}

\* Who joined is told of, or will be.
Joined == holds => Attached \subseteq seen \cup joined \cup Mains

Going == /\ Connections /\ InCall /\ Asks /\ Waiting /\ Returned /\ OneIsKnown /\ Joined
IndInv == Shape /\ Going

\* With what a client knows that goes on only when it is sure.
IndMeant == IndInv /\ Sure /\ AsksAsMeant /\ ActsAsMeant

-----------------------------------------------------------------------------
(***************************************************************************)
(* The addressing rules.                                                   *)
(***************************************************************************)
LEMMA AttachedIsFinite ==
    ASSUME attached \in Seq(Programs)
    PROVE  IsFiniteSet(Attached) /\ Attached \subseteq Programs
<1>1. Attached = {attached[i] : i \in 1..Len(attached)} /\ Len(attached) \in Nat
  BY DEF Attached, ToSet
<1>2. IsFiniteSet(1..Len(attached))
  BY <1>1, FS_Interval
<1>3. [i \in 1..Len(attached) |-> attached[i]] \in Surjection(1..Len(attached), Attached)
  BY <1>1, Fun_IsSurj
<1>4. QED
  BY <1>1, <1>2, <1>3, FS_Surjection

LEMMA OneAttached ==
    ASSUME attached \in Seq(Programs), Len(attached) = 1
    PROVE  \E p \in Programs : attached = <<p>> /\ Attached = {p}
<1>1. attached = <<attached[1]>> /\ attached[1] \in Programs
  OBVIOUS
<1>2. QED
  BY <1>1 DEF Attached, ToSet

LEMMA AttachedIsOne == ASSUME NEW p, attached = <<p>> PROVE Len(attached) = 1 /\ Attached = {p}
  BY DEF Attached, ToSet

\* Of finds the one session that holds the number, if one does.
LEMMA OfIsTheHolder ==
    ASSUME Shape, NEW n \in Numbers
    PROVE  /\ Of(n) # None => /\ Of(n) \in Attached /\ n \in held[Of(n)]
                              /\ \A q \in Attached : n \in held[q] => q = Of(n)
           /\ \A p \in Attached : n \in held[p] /\ (\A q \in Attached : n \in held[q] => q = p)
                => Of(n) = p /\ Of(n) # None
<1> DEFINE holding == {p \in Attached : n \in held[p]}
<1>1. IsFiniteSet(Attached) /\ Attached \subseteq Programs
  BY AttachedIsFinite DEF Shape
<1>2. Cardinality(holding) = 1 <=> \E p : holding = {p}
  <2>1. IsFiniteSet(holding)
    BY <1>1, FS_Subset
  <2>2. QED
    BY <2>1, FS_Singleton
<1>3. Of(n) = IF Cardinality(holding) = 1 THEN CHOOSE p \in holding : TRUE ELSE None
  BY DEF Of
<1>4. ASSUME Of(n) # None
      PROVE  /\ Of(n) \in Attached /\ n \in held[Of(n)]
             /\ \A q \in Attached : n \in held[q] => q = Of(n)
  <2>1. PICK p : holding = {p}
    BY <1>2, <1>3, <1>4
  <2>2. Of(n) \in holding
    BY <1>3, <1>4, <2>1
  <2>3. QED
    BY <2>1, <2>2
<1>5. ASSUME NEW p \in Attached, n \in held[p], \A q \in Attached : n \in held[q] => q = p
      PROVE  Of(n) = p /\ Of(n) # None
  <2>1. holding = {p}
    BY <1>5
  <2>2. p # None
    BY <1>1, ServerAssumption
  <2>3. Of(n) \in holding
    BY <1>2, <1>3, <2>1
  <2>4. QED
    BY <2>1, <2>2, <2>3
<1>6. QED
  BY <1>4, <1>5

\* OnlySession is one that the call can be about alone.
LEMMA OnlyIsAlone ==
    ASSUME Shape, NEW p \in OnlySession(call.session)
    PROVE  Alone(p) /\ p \in Programs /\ p # None
<1>1. Attached \subseteq Programs
  BY AttachedIsFinite DEF Shape
<1>2. CASE call.session # None
  BY <1>1, <1>2, ServerAssumption DEF OnlySession, Alone
<1>3. CASE call.session = None
  <2>1. Len(attached) = 1 /\ p \in Attached
    BY <1>3 DEF OnlySession
  <2>2. Attached = {p}
    BY <2>1, OneAttached DEF Shape
  <2>3. QED
    BY <1>1, <1>3, <2>1, <2>2, ServerAssumption DEF Alone
<1>4. QED
  BY <1>2, <1>3

\* Whoever holds a stop alone is asked about it.
LEMMA AloneIsAsked ==
    ASSUME Shape, NEW p, Alone(p), NEW n \in held[p]
    PROVE  AskedOf(call.session, n) = {p}
<1>1. p \in Attached /\ p \in Programs /\ p # None /\ n \in Numbers /\ n # 0
  BY AttachedIsFinite, ServerAssumption DEF Alone, Shape, Numbers
<1>2. CASE Of(n) # None
  <2>1. Of(n) = p
    BY <1>1, <1>2, OfIsTheHolder
  <2>2. QED
    BY <1>1, <1>2, <2>1 DEF AskedOf, Alone
<1>3. CASE Of(n) = None
  <2>1. call.session # None
    BY <1>1, <1>3, OfIsTheHolder DEF Alone
  <2>2. call.session = p
    BY <2>1 DEF Alone
  <2>3. QED
    BY <1>1, <1>3, <2>1, <2>2 DEF AskedOf, OnlySession
<1>4. QED
  BY <1>2, <1>3

\* Whoever is asked is attached.
LEMMA AskedIsAttached ==
    ASSUME Shape, NEW named, NEW n \in 0..MaxStops, NEW p \in AskedOf(named, n)
    PROVE  p \in Attached /\ p \in Programs
<1>1. Attached \subseteq Programs
  BY AttachedIsFinite DEF Shape
<1>2. OnlySession(named) \subseteq Attached
  BY DEF OnlySession
<1>3. n # 0 /\ Of(n) # None => Of(n) \in Attached
  BY OfIsTheHolder, ServerAssumption DEF Numbers
<1>4. QED
  BY <1>1, <1>2, <1>3 DEF AskedOf

\* The values the calls are made of.
LEMMA NoCallParts ==
    /\ NoCall \in ACall /\ NoCall.tool = "none" /\ NoCall.session = None /\ NoCall.todo = <<>>
    /\ NoCall.at = None /\ NoCall.got = {} /\ NoCall.freed = {} /\ NoCall.acted = {}
    /\ NoCall.meant = {}
<1>1. <<>> \in Seq(ARequest)
  OBVIOUS
<1>2. QED
  BY <1>1 DEF NoCall, ACall

LEMMA RequestsAreTyped ==
    ASSUME NEW tool \in ByStop \cup ByProgram, NEW n \in 0..MaxStops, tool \in ByStop => n # 0
    PROVE  Requests(tool, n) \in Seq(ARequest)
<1>1. 0 \in 0..MaxStops
  BY ServerAssumption
<1>2. \A kind \in Kinds, s \in 0..MaxStops : kind # "step" \/ s # 0 => [kind |-> kind, stop |-> s] \in ARequest
  BY DEF ARequest
<1>3. QED
  BY <1>1, <1>2 DEF Requests, Kinds, ByStop, ByProgram

LEMMA StopOfIsTyped ==
    ASSUME NEW named, NEW n \in 0..MaxStops, NEW s \in StopOf(named, n)
    PROVE  s \in Numbers
<1>1. \A h \in HeldNow : h[2] \in Numbers
  BY DEF HeldNow, Numbers
<1>2. n # 0 => n \in Numbers
  BY ServerAssumption DEF Numbers
<1>3. QED
  BY <1>1, <1>2 DEF StopOf

LEMMA FirstAsked ==
    ASSUME Shape, call.todo # <<>>
    PROVE  /\ Head(call.todo) \in ARequest /\ Head(call.todo).stop \in 0..MaxStops
           /\ Tail(call.todo) \in Seq(ARequest) /\ Head(call.todo) = call.todo[1]
<1>1. call.todo \in Seq(ARequest)
  BY DEF Shape, ACall
<1>2. Head(call.todo) \in ARequest /\ Tail(call.todo) \in Seq(ARequest) /\ Head(call.todo) = call.todo[1]
  BY <1>1
<1>3. QED
  BY <1>2 DEF ARequest

\* A step reads what came before the answer: the stops, and nothing else.
LEMMA ReadIsTyped ==
    ASSUME Shape, NEW p \in Programs, NEW freed, ReadUpTo(p, freed)
    PROVE  /\ wire' = [wire EXCEPT ![p] = <<>>] /\ wire' \in [Programs -> Seq(0..MaxStops)]
           /\ held' \in [Programs -> SUBSET Numbers]
           /\ held'[p] = (held[p] \cup (ToSet(wire[p]) \ {0})) \ freed
           /\ \A q \in Programs \ {p} : held'[q] = held[q]
<1>1. wire[p] \in Seq(0..MaxStops)
  BY DEF Shape
<1>2. ToSet(wire[p]) \ {0} \subseteq Numbers
  BY <1>1, ServerAssumption DEF ToSet, Numbers
<1>3. QED
  BY <1>2 DEF Shape, ReadUpTo

-----------------------------------------------------------------------------
(***************************************************************************)
(* What each step does to the call, part by part.                          *)
(***************************************************************************)

\* What the call is after the step.
Becomes(tool, session, todo, at, got, freed, acted, meant) ==
    /\ call' \in ACall
    /\ call'.tool = tool /\ call'.session = session /\ call'.todo = todo /\ call'.at = at
    /\ call'.got = got /\ call'.freed = freed /\ call'.acted = acted /\ call'.meant = meant

\* It goes on unchanged.
Idles == Becomes(call.tool, call.session, call.todo, call.at, call.got, call.freed, call.acted, call.meant)

LEMMA ForkDoes ==
    ASSUME Shape, NEW p \in Programs, Fork(p)
    PROVE  /\ life[p] = "none" /\ life' = [life EXCEPT ![p] = "knocking"]
           /\ UNCHANGED <<said, attached, held, holds, joined, call, calls, seen, believed, unsure>>
           /\ \E n \in Numbers : /\ minted' = [minted EXCEPT ![p] = n]
                               /\ inForce' = [inForce EXCEPT ![p] = {n}]
                               /\ wire' = [wire EXCEPT ![p] = <<n>>]
<1>1. PICK q \in Mains : \E inherited \in {0, minted[q]} :
          /\ life[q] = "open" /\ minted[q] > Cardinality(inForce[q]) /\ inherited < MaxStops
          /\ life'    = [life EXCEPT ![p] = "knocking"]
          /\ minted'  = [minted EXCEPT ![p] = inherited + 1]
          /\ inForce' = [inForce EXCEPT ![p] = {minted'[p]}]
          /\ wire'    = [wire EXCEPT ![p] = <<minted'[p]>>]
  BY ZenonT(40) DEF Fork
<1>2. PICK inherited \in {0, minted[q]} :
          /\ inherited < MaxStops
          /\ life'    = [life EXCEPT ![p] = "knocking"]
          /\ minted'  = [minted EXCEPT ![p] = inherited + 1]
          /\ inForce' = [inForce EXCEPT ![p] = {minted'[p]}]
          /\ wire'    = [wire EXCEPT ![p] = <<minted'[p]>>]
  BY <1>1
<1>3. inherited \in 0..MaxStops
  BY ServerAssumption DEF Shape, Programs
<1>4. inherited + 1 \in Numbers /\ minted'[p] = inherited + 1
  BY <1>2, <1>3, ServerAssumption DEF Numbers, Shape
<1>5. life[p] = "none" /\ UNCHANGED <<said, attached, held, holds, joined, call, calls, seen, believed, unsure>>
  BY DEF Fork, debuggee, client
<1>6. QED
  BY <1>2, <1>4, <1>5

LEMMA AboutStopDoes ==
    ASSUME Shape, CallAboutStop
    PROVE  /\ call = NoCall /\ holds /\ calls' = calls + 1
           /\ UNCHANGED <<life, inForce, minted, said, wire, attached, held, holds, joined, seen, believed>>
           /\ \/ call' = NoCall /\ unsure' = TRUE
              \/ /\ unsure' = unsure /\ ~(Resyncs /\ unsure)
                 /\ \E tool \in ByStop, named \in seen \cup {None}, n \in 0..MaxStops :
                       LET meant == {h \in believed : named \in {None, h[1]} /\ n \in {0, h[2]}}
                       IN /\ meant # {}
                          /\ \E s \in StopOf(named, n) :
                                Becomes(tool, named, Requests(tool, s), None, {}, {}, {}, meant)
<1>1. PICK tool \in Tools \cap ByStop, named \in seen \cup {None}, n \in 0..MaxStops :
         LET meant == {h \in believed : named \in {None, h[1]} /\ n \in {0, h[2]}}
             c == [NoCall EXCEPT !.tool = tool, !.session = named, !.meant = meant]
         IN /\ call = NoCall /\ calls < MaxCalls /\ holds
            /\ meant # {} /\ ~(Resyncs /\ unsure)
            /\ IF StopOf(named, n) = {}
                 THEN /\ Fails(c) /\ calls' = calls + 1
                      /\ UNCHANGED <<programs, debuggee, holds>>
                 ELSE \E s \in StopOf(named, n) : Begins([c EXCEPT !.todo = Requests(tool, s)])
  BY ZenonT(40) DEF CallAboutStop
<1> DEFINE meant == {h \in believed : named \in {None, h[1]} /\ n \in {0, h[2]}}
           c == [NoCall EXCEPT !.tool = tool, !.session = named, !.meant = meant]
<1>2. call = NoCall /\ holds /\ meant # {} /\ ~(Resyncs /\ unsure)
  BY ZenonT(40), <1>1
<1>3. CASE StopOf(named, n) = {}
  <2>1. Fails(c) /\ calls' = calls + 1 /\ UNCHANGED <<programs, debuggee, holds>>
    BY <1>1, <1>3
  <2>2. QED
    BY <1>2, <2>1 DEF Fails, programs, debuggee
<1>4. CASE StopOf(named, n) # {}
  <2>1. PICK s \in StopOf(named, n) : Begins([c EXCEPT !.todo = Requests(tool, s)])
    BY ZenonT(40), <1>1, <1>4
  <2>2. Requests(tool, s) \in Seq(ARequest)
    <3>1. s \in 0..MaxStops /\ s # 0
      BY StopOfIsTyped, ServerAssumption DEF Numbers
    <3>2. QED
      BY <3>1, RequestsAreTyped
  <2>3. meant \in SUBSET Places /\ named \in Programs \cup {None}
    BY ServerAssumption DEF Shape, Stops, Places, Numbers
  <2>4. Becomes(tool, named, Requests(tool, s), None, {}, {}, {}, meant)
    <3>1. call' = [c EXCEPT !.todo = Requests(tool, s)]
      BY <2>1 DEF Begins
    <3> HIDE DEF meant
    <3>2. QED
      BY <3>1, <2>2, <2>3, NoCallParts DEF Becomes, ACall
  <2>5. /\ calls' = calls + 1 /\ unsure' = unsure
        /\ UNCHANGED <<life, inForce, minted, said, wire, attached, held, holds, joined, seen, believed>>
    BY <2>1 DEF Begins, programs, debuggee, client
  <2>6. QED
    BY <1>2, <2>4, <2>5
<1>5. QED
  BY <1>3, <1>4

LEMMA AboutProgramDoes ==
    ASSUME Shape, CallAboutProgram
    PROVE  /\ call = NoCall /\ holds /\ calls' = calls + 1
           /\ UNCHANGED <<life, inForce, minted, said, wire, attached, held, holds, joined, seen, believed, unsure>>
           /\ \E tool \in ByProgram, named \in seen \cup {None} :
                 Becomes(tool, named, Requests(tool, 0), None, {}, {}, {},
                         {<<p, 0>> : p \in IF named # None THEN {named} ELSE seen})
<1>1. PICK tool \in Tools \cap ByProgram, named \in seen \cup {None} :
        /\ call = NoCall /\ calls < MaxCalls /\ holds
        /\ Begins([NoCall EXCEPT
              !.tool = tool, !.session = named, !.todo = Requests(tool, 0),
              !.meant = {<<p, 0>> : p \in IF named # None THEN {named} ELSE seen}])
  BY ZenonT(40) DEF CallAboutProgram
<1> DEFINE meant == {<<p, 0>> : p \in IF named # None THEN {named} ELSE seen}
<1>2. Requests(tool, 0) \in Seq(ARequest)
  BY RequestsAreTyped, ServerAssumption DEF ByProgram, ByStop
<1>3. meant \in SUBSET Places /\ named \in Programs \cup {None}
  BY ServerAssumption DEF Shape, Places
<1>4. Becomes(tool, named, Requests(tool, 0), None, {}, {}, {}, meant)
  <2>1. call' = [NoCall EXCEPT !.tool = tool, !.session = named, !.todo = Requests(tool, 0), !.meant = meant]
    BY <1>1 DEF Begins
  <2> HIDE DEF meant
  <2>2. QED
    BY <2>1, <1>2, <1>3, NoCallParts DEF Becomes, ACall
<1>5. /\ calls' = calls + 1 /\ call = NoCall /\ holds
      /\ UNCHANGED <<life, inForce, minted, said, wire, attached, held, holds, joined, seen, believed, unsure>>
  BY <1>1 DEF Begins, programs, debuggee, client
<1>6. QED
  BY <1>4, <1>5

LEMMA SessionsDoes ==
    ASSUME CallSessions
    PROVE  /\ call = NoCall /\ holds /\ calls' = calls + 1
           /\ UNCHANGED <<life, inForce, minted, said, wire, attached, held, holds, joined, seen, believed, unsure>>
           /\ Becomes("sessions", None, <<>>, None, {}, {}, {}, {})
<1>1. call' = [NoCall EXCEPT !.tool = "sessions"]
  BY DEF CallSessions, Begins
<1>2. Becomes("sessions", None, <<>>, None, {}, {}, {}, {})
  BY <1>1, NoCallParts DEF Becomes, ACall
<1>3. QED
  BY <1>2 DEF CallSessions, Begins, programs, debuggee, client

LEMMA LaunchDoes ==
    ASSUME Shape, CallLaunch
    PROVE  /\ call = NoCall /\ ~holds /\ calls' = calls + 1
           /\ UNCHANGED <<said, wire, joined, seen, believed, unsure>>
           /\ \E p \in Mains :
                /\ life[p] = "none"
                /\ \/ /\ life' = [life EXCEPT ![p] = "gone"]
                      /\ UNCHANGED <<inForce, minted, attached, held, holds>>
                      /\ Becomes("launch", None, <<>>, None, {}, {}, {}, {})
                   \/ /\ life' = [life EXCEPT ![p] = "open"] /\ minted' = [minted EXCEPT ![p] = 1]
                      /\ inForce' = [inForce EXCEPT ![p] = {1}] /\ attached' = <<p>> /\ holds' = TRUE
                      /\ held' = [q \in Programs |-> IF q = p THEN {1} ELSE {}]
                      /\ Becomes("launch", None, <<[kind |-> "read", stop |-> 1]>>, None, {<<p, 1>>}, {}, {}, {})
<1>1. /\ call = NoCall /\ ~holds /\ calls' = calls + 1
      /\ UNCHANGED <<said, wire, joined, seen, believed, unsure>>
  BY DEF CallLaunch, client
<1>2. PICK p \in Mains :
          /\ life[p] = "none"
          /\ \/ /\ life' = [life EXCEPT ![p] = "gone"]
                /\ call' = [NoCall EXCEPT !.tool = "launch"]
                /\ UNCHANGED <<inForce, minted, debuggee, holds>>
             \/ /\ life'     = [life EXCEPT ![p] = "open"]
                /\ minted'   = [minted EXCEPT ![p] = 1]
                /\ inForce'  = [inForce EXCEPT ![p] = {1}]
                /\ attached' = <<p>> /\ holds' = TRUE
                /\ held'     = [q \in Programs |-> IF q = p THEN {1} ELSE {}]
                /\ call'     = [NoCall EXCEPT !.tool = "launch", !.got = {<<p, 1>>},
                                  !.todo = <<[kind |-> "read", stop |-> 1]>>]
  BY ZenonT(40) DEF CallLaunch
<1>3. ASSUME call' = [NoCall EXCEPT !.tool = "launch"]
      PROVE  Becomes("launch", None, <<>>, None, {}, {}, {}, {})
  BY <1>3, NoCallParts DEF Becomes, ACall
<1>4. ASSUME call' = [NoCall EXCEPT !.tool = "launch", !.got = {<<p, 1>>},
                        !.todo = <<[kind |-> "read", stop |-> 1]>>]
      PROVE  Becomes("launch", None, <<[kind |-> "read", stop |-> 1]>>, None, {<<p, 1>>}, {}, {}, {})
  <2>1. [kind |-> "read", stop |-> 1] \in ARequest /\ {<<p, 1>>} \in SUBSET Stops
    BY ServerAssumption DEF ARequest, Kinds, ByStop, Stops, Programs, Numbers
  <2>2. <<[kind |-> "read", stop |-> 1]>> \in Seq(ARequest)
    BY <2>1
  <2>3. QED
    BY <1>4, <2>1, <2>2, NoCallParts DEF Becomes, ACall
<1>5. QED
  BY <1>1, <1>2, <1>3, <1>4 DEF debuggee

LEMMA TerminateDoes ==
    ASSUME Shape, CallTerminate
    PROVE  /\ call = NoCall /\ holds /\ calls' = calls + 1
           /\ UNCHANGED <<minted, said, wire, attached, held, joined, seen, believed>>
           /\ \/ call' = NoCall /\ unsure' = TRUE /\ UNCHANGED <<life, inForce, holds>>
              \/ /\ unsure' = unsure /\ holds' = (Len(attached) > 1) /\ holds' \in BOOLEAN
                 /\ \E p \in Attached :
                       /\ p \in Programs
                       /\ life' = [life EXCEPT ![p] = "gone"] /\ inForce' = [inForce EXCEPT ![p] = {}]
                       /\ Becomes("terminate", None, <<>>, None, {}, {p} \X Numbers, {}, {})
<1>1. call = NoCall /\ holds /\ calls' = calls + 1 /\ UNCHANGED debuggee
  BY ZenonT(40) DEF CallTerminate
<1>2. PICK named \in seen \cup {None} :
         IF OnlySession(named) \subseteq Kids
           THEN Fails(NoCall) /\ UNCHANGED <<programs, holds>>
           ELSE \E p \in OnlySession(named) :
                  /\ life'    = [life EXCEPT ![p] = "gone"]
                  /\ inForce' = [inForce EXCEPT ![p] = {}]
                  /\ holds'   = (Len(attached) > 1)
                  /\ call'    = [NoCall EXCEPT !.tool = "terminate", !.freed = {p} \X (1..MaxStops)]
                  /\ UNCHANGED <<minted, said, wire, joined, client>>
  BY ZenonT(40) DEF CallTerminate
<1>3. CASE OnlySession(named) \subseteq Kids
  BY <1>1, <1>2, <1>3 DEF Fails, programs, debuggee
<1>4. CASE ~(OnlySession(named) \subseteq Kids)
  <2>1. PICK p \in OnlySession(named) :
                  /\ life'    = [life EXCEPT ![p] = "gone"]
                  /\ inForce' = [inForce EXCEPT ![p] = {}]
                  /\ holds'   = (Len(attached) > 1)
                  /\ call'    = [NoCall EXCEPT !.tool = "terminate", !.freed = {p} \X (1..MaxStops)]
                  /\ UNCHANGED <<minted, said, wire, joined, client>>
    BY ZenonT(40), <1>2, <1>4
  <2>2. p \in Attached /\ p \in Programs
    BY AttachedIsFinite DEF Shape, OnlySession
  <2>3. {p} \X Numbers \in SUBSET Stops
    BY <2>2 DEF Stops
  <2>4. Becomes("terminate", None, <<>>, None, {}, {p} \X Numbers, {}, {})
    BY <2>1, <2>3, NoCallParts DEF Becomes, ACall, Numbers
  <2>5. (Len(attached) > 1) \in BOOLEAN
    OBVIOUS
  <2>6. holds' \in BOOLEAN
    BY <2>1, <2>5
  <2>7. QED
    BY <1>1, <2>1, <2>2, <2>4, <2>6 DEF debuggee, client
<1>5. QED
  BY <1>3, <1>4

LEMMA RefuseDoes ==
    ASSUME Shape, Refuse
    PROVE  /\ call.todo # <<>> /\ call.at = None /\ call' = NoCall /\ unsure' = TRUE
           /\ UNCHANGED <<life, inForce, minted, said, attached, holds, joined, calls, seen, believed>>
           /\ \/ /\ \A p \in AskedOf(call.session, Head(call.todo).stop) :
                       Head(call.todo).kind # "wait" /\ Unsendable(p, Head(call.todo))
                 /\ UNCHANGED <<wire, held>>
              \/ \E p \in AskedOf(call.session, Head(call.todo).stop) :
                    /\ p \in Programs /\ life[p] = "open" /\ Head(call.todo).stop # 0
                    /\ Head(call.todo).stop \notin inForce[p] /\ ReadUpTo(p, {})
<1>1. /\ call.todo # <<>> /\ call.at = None /\ call' = NoCall /\ unsure' = TRUE
      /\ UNCHANGED <<life, inForce, minted, said, attached, holds, joined, calls, seen, believed>>
  BY DEF Refuse, Fails, debuggee
<1>2. \A p \in AskedOf(call.session, Head(call.todo).stop) : p \in Programs
  BY <1>1, FirstAsked, AskedIsAttached
<1>3. QED
  BY <1>1, <1>2 DEF Refuse, debuggee

LEMMA LoseDoes ==
    ASSUME Shape, Lose
    PROVE  /\ call.todo # <<>> /\ call.at = None
           /\ UNCHANGED <<life, inForce, minted, said, attached, holds, joined, calls, seen, believed>>
           /\ \E p \in AskedOf(call.session, Head(call.todo).stop) :
                /\ p \in Programs /\ life[p] = "gone"
                /\ ReadUpTo(p, {}) \/ UNCHANGED <<wire, held>>
                /\ \/ call' = NoCall /\ unsure' = TRUE /\ Head(call.todo).kind # "run"
                   \/ /\ unsure' = unsure /\ Head(call.todo).kind = "run"
                      /\ Becomes(call.tool, call.session, Tail(call.todo), p,
                                 call.got, call.freed, call.acted, call.meant)
<1>1. PICK p \in AskedOf(call.session, Head(call.todo).stop) :
          /\ life[p] = "gone"
          /\ ReadUpTo(p, {}) \/ UNCHANGED <<wire, held>>
          /\ IF Head(call.todo).kind = "run"
               THEN Answers([call EXCEPT !.todo = Tail(@), !.at = p, !.looked = FALSE])
               ELSE Fails(call)
  BY ZenonT(40) DEF Lose
<1>2. call.todo # <<>> /\ call.at = None /\ UNCHANGED <<life, inForce, minted, said, attached, holds, calls>>
  BY DEF Lose
<1>3. p \in Programs
  BY <1>2, FirstAsked, AskedIsAttached
<1>4. ASSUME Head(call.todo).kind = "run"
      PROVE  Becomes(call.tool, call.session, Tail(call.todo), p,
                     call.got, call.freed, call.acted, call.meant)
  <2>1. call' = [call EXCEPT !.todo = Tail(@), !.at = p, !.looked = FALSE]
    BY <1>1, <1>4 DEF Answers
  <2>2. Tail(call.todo) \in Seq(ARequest) /\ call \in ACall
    BY <1>2, FirstAsked DEF Shape
  <2>3. QED
    BY <2>1, <2>2, <1>3 DEF Becomes, ACall
<1>5. QED
  BY <1>1, <1>2, <1>3, <1>4 DEF Answers, Fails, client

LEMMA PerformDoes ==
    ASSUME Shape, Perform
    PROVE  LET r == Head(call.todo) IN
           /\ call.todo # <<>> /\ call.at = None
           /\ UNCHANGED <<life, minted, said, attached, holds, joined, calls, seen, believed, unsure>>
           /\ \E p \in AskedOf(call.session, r.stop) : \E freed \in SUBSET Numbers :
                /\ freed \subseteq inForce[p]
                /\ p \in Programs /\ life[p] = "open" /\ r.kind # "wait"
                /\ r.stop # 0 => r.stop \in inForce[p]
                /\ r.kind = "run" => freed = inForce[p]
                /\ r.kind \in {"step", "run", "resume"} \/ freed = {}
                /\ ReadUpTo(p, freed) /\ inForce' = [inForce EXCEPT ![p] = @ \ freed]
                /\ Becomes(call.tool, call.session, Tail(call.todo), IF r.kind = "run" THEN p ELSE None,
                           call.got, call.freed \cup {p} \X freed, call.acted \cup {<<p, r.stop>>}, call.meant)
<1> DEFINE r == Head(call.todo)
<1>1. /\ call.todo # <<>> /\ call.at = None
      /\ UNCHANGED <<life, minted, said, attached, holds, calls>>
  BY DEF Perform
<1>2. PICK p \in AskedOf(call.session, r.stop) :
          /\ r.kind # "wait" /\ life[p] = "open"
          /\ r.stop # 0 => r.stop \in inForce[p]
          /\ \E freed \in CASE r.kind = "step"   -> {{r.stop}}
                            [] r.kind = "run"    -> {inForce[p]}
                            [] r.kind = "resume" -> {inForce[p]} \cup {{n} : n \in inForce[p]}
                            [] OTHER             -> {{}} :
                /\ ReadUpTo(p, freed)
                /\ inForce' = [inForce EXCEPT ![p] = @ \ freed]
                /\ Answers([call EXCEPT !.todo = Tail(@), !.looked = FALSE,
                              !.at = IF r.kind = "run" THEN p ELSE None,
                              !.acted = @ \cup {<<p, r.stop>>},
                              !.freed = @ \cup {p} \X freed])
  BY ZenonT(40) DEF Perform
<1>3. /\ p \in Programs /\ r \in ARequest /\ r.stop \in 0..MaxStops
      /\ Tail(call.todo) \in Seq(ARequest) /\ call \in ACall
  BY <1>1, FirstAsked, AskedIsAttached DEF Shape
<1>4. PICK freed :
          /\ freed \in CASE r.kind = "step"   -> {{r.stop}}
                       [] r.kind = "run"    -> {inForce[p]}
                       [] r.kind = "resume" -> {inForce[p]} \cup {{n} : n \in inForce[p]}
                       [] OTHER             -> {{}}
          /\ ReadUpTo(p, freed)
          /\ inForce' = [inForce EXCEPT ![p] = @ \ freed]
          /\ Answers([call EXCEPT !.todo = Tail(@), !.looked = FALSE,
                        !.at = IF r.kind = "run" THEN p ELSE None,
                        !.acted = @ \cup {<<p, r.stop>>},
                        !.freed = @ \cup {p} \X freed])
  BY ZenonT(40), <1>2
<1>5. /\ freed \subseteq inForce[p]
      /\ r.kind = "run" => freed = inForce[p]
      /\ r.kind \in {"step", "run", "resume"} \/ freed = {}
  <2>1. r.kind = "step" => r.stop # 0
    BY <1>3 DEF ARequest
  <2>2. QED
    BY <1>2, <1>4, <2>1
<1>6. {p} \X freed \in SUBSET Stops /\ <<p, r.stop>> \in Places /\ freed \in SUBSET Numbers
  <2>1. inForce[p] \subseteq Numbers
    BY <1>3 DEF Shape
  <2>2. \A n \in freed : n \in Numbers
    BY <2>1, <1>5
  <2>3. {p} \X freed \subseteq Stops
    BY <2>2, <1>3 DEF Stops
  <2>4. QED
    BY <2>2, <2>3, <1>3 DEF Places
<1>7. Becomes(call.tool, call.session, Tail(call.todo), IF r.kind = "run" THEN p ELSE None,
              call.got, call.freed \cup {p} \X freed, call.acted \cup {<<p, r.stop>>}, call.meant)
  <2>1. call' = [call EXCEPT !.todo = Tail(@), !.looked = FALSE,
                        !.at = IF r.kind = "run" THEN p ELSE None,
                        !.acted = @ \cup {<<p, r.stop>>},
                        !.freed = @ \cup {p} \X freed]
    BY <1>4 DEF Answers
  <2>2. QED
    BY <2>1, <1>3, <1>6 DEF Becomes, ACall
<1>8. UNCHANGED <<joined, seen, believed, unsure>>
  BY <1>4 DEF Answers, client
<1>9. QED
  BY ZenonT(40), <1>1, <1>2, <1>3, <1>4, <1>5, <1>6, <1>7, <1>8

LEMMA StartWaitDoes ==
    ASSUME Shape, StartWait
    PROVE  /\ call.todo # <<>> /\ call.at = None
           /\ UNCHANGED <<life, inForce, minted, said, wire, attached, held, holds, joined, calls, seen, believed, unsure>>
           /\ \E p \in OnlySession(call.session) :
                 /\ p \in Programs
                 /\ Becomes(call.tool, call.session, Tail(call.todo), p,
                            call.got, call.freed, call.acted, call.meant)
<1>1. PICK p \in OnlySession(call.session) :
          Answers([call EXCEPT !.todo = Tail(@), !.at = p, !.looked = FALSE])
  BY ZenonT(40) DEF StartWait
<1>2. /\ call.todo # <<>> /\ call.at = None
      /\ UNCHANGED <<life, inForce, minted, said, wire, attached, held, holds, joined, calls, seen, believed, unsure>>
  BY <1>1 DEF StartWait, Answers, programs, debuggee, client
<1>3. p \in Programs
  BY AttachedIsFinite DEF Shape, OnlySession
<1>4. Tail(call.todo) \in Seq(ARequest) /\ call \in ACall
  BY <1>2, FirstAsked DEF Shape
<1>5. Becomes(call.tool, call.session, Tail(call.todo), p, call.got, call.freed, call.acted, call.meant)
  BY <1>1, <1>3, <1>4 DEF Answers, Becomes, ACall
<1>6. QED
  BY <1>2, <1>3, <1>5

LEMMA LookDoes ==
    ASSUME Shape, Look
    PROVE  /\ call.at # None /\ Idles
           /\ UNCHANGED <<inForce, minted, said, wire, held, holds, calls, seen, believed, unsure>>
           /\ \/ UNCHANGED <<life, attached, joined>>
              \/ \E q \in Programs :
                    /\ life[q] = "knocking" /\ life' = [life EXCEPT ![q] = "open"]
                    /\ attached' = Append(attached, q) /\ joined' = joined \cup {q}
<1>1. call' = [call EXCEPT !.looked = TRUE] /\ call \in ACall
  BY DEF Look, Shape
<1>2. Idles
  BY <1>1 DEF Idles, Becomes, ACall
<1>3. QED
  BY <1>2 DEF Look, Knocking, client

LEMMA ReadDoes ==
    ASSUME Shape, Read
    PROVE  LET p == call.at  n == Head(wire[p]) IN
           /\ p \in Programs /\ p # None /\ wire[p] # <<>> /\ n \in 0..MaxStops
           /\ Tail(wire[p]) \in Seq(0..MaxStops) /\ wire' = [wire EXCEPT ![p] = Tail(@)]
           /\ UNCHANGED <<life, inForce, minted, said, attached, holds, joined, calls, seen, believed, unsure>>
           /\ \/ n = 0 /\ Idles /\ UNCHANGED held
              \/ /\ n \in Numbers /\ held' = [held EXCEPT ![p] = @ \cup {n}]
                 /\ \E todo \in Seq(ARequest) :
                       /\ \A i \in 1..Len(todo) : todo[i].kind \in {"read", "world"} /\ todo[i].stop = n
                       /\ Becomes(call.tool, call.session, todo, None,
                                  call.got \cup {<<p, n>>}, call.freed, call.acted, call.meant)
<1> DEFINE p == call.at  n == Head(wire[p])
<1>1. /\ p # None /\ wire[p] # <<>> /\ wire' = [wire EXCEPT ![p] = Tail(@)]
      /\ UNCHANGED <<life, inForce, minted, said, attached, holds, calls>>
  BY DEF Read
<1>2. call \in ACall /\ p \in Programs
  BY <1>1 DEF Shape, ACall
<1>3. wire[p] \in Seq(0..MaxStops)
  BY <1>2 DEF Shape
<1>4. n \in 0..MaxStops /\ Tail(wire[p]) \in Seq(0..MaxStops)
  BY <1>1, <1>3, HeadTailProperties
<1>5. CASE n = 0
  <2>1. /\ Answers([call EXCEPT !.looked = FALSE]) /\ UNCHANGED held
    BY <1>5 DEF Read
  <2>2. Idles
    BY <2>1, <1>2 DEF Idles, Becomes, ACall, Answers
  <2>3. QED
    BY <1>1, <1>2, <1>4, <1>5, <2>1, <2>2 DEF Answers, client
<1>6. CASE n # 0
  <2>1. PICK kinds \in {<<>>, <<"read">>, <<"world">>, <<"world", "read">>} :
           /\ held' = [held EXCEPT ![p] = @ \cup {n}]
           /\ Answers([call EXCEPT !.at = None, !.got = @ \cup {<<p, n>>},
                         !.todo = [i \in DOMAIN kinds |-> [kind |-> kinds[i], stop |-> n]]])
    BY <1>6 DEF Read
  <2> DEFINE todo == [i \in DOMAIN kinds |-> [kind |-> kinds[i], stop |-> n]]
  <2>2. kinds \in Seq({"read", "world"})
    <3>1. CASE kinds = <<>>
      BY <3>1
    <3>2. CASE kinds = <<"read">>
      BY <3>2
    <3>3. CASE kinds = <<"world">>
      BY <3>3
    <3>4. CASE kinds = <<"world", "read">>
      BY <3>4
    <3>5. QED
      BY <3>1, <3>2, <3>3, <3>4
  <2>3. \A i \in DOMAIN kinds : [kind |-> kinds[i], stop |-> n] \in ARequest
    BY <1>4, <2>2 DEF ARequest, Kinds, ByStop
  <2>4. /\ todo \in Seq(ARequest)
        /\ \A i \in 1..Len(todo) : todo[i].kind \in {"read", "world"} /\ todo[i].stop = n
    BY <2>2, <2>3
  <2>5. n \in Numbers /\ call.got \cup {<<p, n>>} \in SUBSET Stops
    BY <1>2, <1>4, <1>6, ServerAssumption DEF Numbers, Stops, ACall
  <2> HIDE DEF todo
  <2>6. Becomes(call.tool, call.session, todo, None,
                call.got \cup {<<p, n>>}, call.freed, call.acted, call.meant)
    <3>1. call' = [call EXCEPT !.at = None, !.got = @ \cup {<<p, n>>}, !.todo = todo]
      BY <2>1 DEF Answers, todo
    <3> HIDE DEF p, n
    <3>2. QED
      BY <3>1, <1>2, <2>4, <2>5 DEF Becomes, ACall
  <2>7. QED
    BY <1>1, <1>2, <1>4, <2>1, <2>4, <2>5, <2>6 DEF Answers, client
<1>7. QED
  BY <1>5, <1>6

LEMMA SliceDoes ==
    ASSUME Shape, Slice
    PROVE  /\ Idles
           /\ UNCHANGED <<life, inForce, minted, said, wire, attached, held, holds, joined, calls, seen, believed, unsure>>
<1>1. call' = [call EXCEPT !.looked = FALSE] /\ call \in ACall
  BY DEF Slice, Answers, Shape
<1>2. Idles
  BY <1>1 DEF Idles, Becomes, ACall
<1>3. QED
  BY <1>2 DEF Slice, Answers, programs, debuggee, client

LEMMA TimesOutDoes ==
    ASSUME Shape, TimesOut
    PROVE  /\ call.at # None
           /\ UNCHANGED <<life, inForce, minted, said, wire, attached, held, holds, joined, calls, seen, believed, unsure>>
           /\ Becomes(call.tool, call.session, call.todo, None, call.got, call.freed, call.acted, call.meant)
<1>1. call' = [call EXCEPT !.at = None, !.timed = TRUE] /\ call \in ACall
  BY DEF TimesOut, Answers, Shape
<1>2. Becomes(call.tool, call.session, call.todo, None, call.got, call.freed, call.acted, call.meant)
  BY <1>1 DEF Becomes, ACall
<1>3. QED
  BY <1>2 DEF TimesOut, Answers, programs, debuggee, client

LEMMA EndDoes ==
    ASSUME Shape, End
    PROVE  /\ call.at \in Programs /\ life[call.at] = "gone"
           /\ UNCHANGED <<life, inForce, minted, said, wire, attached, held, holds, joined, calls, seen, believed, unsure>>
           /\ Becomes(call.tool, call.session, call.todo, None, call.got,
                      call.freed \cup {call.at} \X Numbers, call.acted, call.meant)
<1>1. /\ call' = [call EXCEPT !.at = None, !.freed = @ \cup {call.at} \X Numbers]
      /\ call \in ACall /\ call.at # None
  BY DEF End, Answers, Shape, Numbers
<1>2. call.at \in Programs
  BY <1>1 DEF ACall
<1>3. {call.at} \X Numbers \in SUBSET Stops
  BY <1>2 DEF Stops
<1>4. Becomes(call.tool, call.session, call.todo, None, call.got,
              call.freed \cup {call.at} \X Numbers, call.acted, call.meant)
  BY <1>1, <1>3 DEF Becomes, ACall
<1>5. QED
  BY <1>2, <1>4 DEF End, Answers, programs, debuggee, client

LEMMA AnswerDoes ==
    ASSUME Shape, Answer
    PROVE  /\ call.tool # "none" /\ call.todo = <<>> /\ call.at = None
           /\ joined' = {} /\ call' = NoCall
           /\ UNCHANGED <<life, inForce, minted, said, wire, attached, held, holds, calls>>
           /\ seen \cup joined \cup {h[1] : h \in call.got} \subseteq seen' /\ seen' \subseteq Programs
           /\ \/ /\ unsure' = FALSE
                 /\ believed' = call.got \cup IF holds THEN HeldNow ELSE {}
              \/ /\ unsure' = unsure /\ believed' = call.got \cup (believed \ call.freed)
<1>1. /\ call.tool # "none" /\ call.todo = <<>> /\ call.at = None
      /\ joined' = {} /\ call' = NoCall
      /\ UNCHANGED <<life, inForce, minted, said, wire, attached, held, holds, calls>>
  BY DEF Answer, programs, debuggee
<1>2. Attached \subseteq Programs /\ {h[1] : h \in call.got} \subseteq Programs
  BY AttachedIsFinite DEF Shape, ACall, Stops
<1>3. seen \cup joined \cup {h[1] : h \in call.got} \subseteq seen' /\ seen' \subseteq Programs
  BY <1>2 DEF Answer, Shape
<1>4. \/ /\ unsure' = FALSE
         /\ believed' = call.got \cup IF holds THEN HeldNow ELSE {}
      \/ /\ unsure' = unsure /\ believed' = call.got \cup (believed \ call.freed)
  BY DEF Answer, Shape
<1>5. QED
  BY <1>1, <1>3, <1>4


-----------------------------------------------------------------------------
(***************************************************************************)
(* What the invariant rests on.                                            *)
(***************************************************************************)
LEMMA ToSetOf ==
    ASSUME NEW S, NEW s \in Seq(S), NEW x \in S
    PROVE  /\ ToSet(Append(s, x)) = ToSet(s) \cup {x}
           /\ s # <<>> => ToSet(Tail(s)) \subseteq ToSet(s) /\ Head(s) \in ToSet(s)
<1>1. /\ Len(Append(s, x)) = Len(s) + 1 /\ Len(s) \in Nat
      /\ \A i \in 1..Len(s) : Append(s, x)[i] = s[i]
      /\ Append(s, x)[Len(s) + 1] = x
  OBVIOUS
<1>2. ToSet(Append(s, x)) = ToSet(s) \cup {x}
  BY <1>1 DEF ToSet
<1>3. ASSUME s # <<>> PROVE ToSet(Tail(s)) \subseteq ToSet(s) /\ Head(s) \in ToSet(s)
  <2>1. /\ Len(s) \in Nat \ {0} /\ Len(Tail(s)) = Len(s) - 1
        /\ \A i \in 1..Len(Tail(s)) : Tail(s)[i] = s[i + 1]
        /\ Head(s) = s[1]
    BY <1>3
  <2>2. QED
    BY <2>1 DEF ToSet
<1>4. QED
  BY <1>2, <1>3

LEMMA ToSetOfNothing == ToSet(<<>>) = {}
  BY DEF ToSet

LEMMA ToSetOfOne == ASSUME NEW x PROVE ToSet(<<x>>) = {x}
  BY DEF ToSet

\* The programs touch nothing of the engine, the server or the client.
LEMMA ProgramsDo ==
    ASSUME NEW p \in Programs, Runs(p)
    PROVE  UNCHANGED <<attached, held, holds, joined, call, calls, seen, believed, unsure>>
  BY DEF Runs, Reach, Announce, Fork, Die, debuggee, client

\* Who joins was in nobody's list and holds nothing.
LEMMA WhoJoins ==
    ASSUME Shape, Connections, Look
    PROVE  \/ UNCHANGED <<life, attached, joined>> /\ Attached' = Attached
           \/ \E q \in Programs \ Attached :
                 /\ life[q] = "knocking" /\ life' = [life EXCEPT ![q] = "open"]
                 /\ attached' = Append(attached, q) /\ Attached' = Attached \cup {q}
                 /\ held[q] = {} /\ joined' = joined \cup {q}
<1>1. CASE UNCHANGED <<life, attached, joined>>
  BY <1>1 DEF Attached
<1>2. CASE ~UNCHANGED <<life, attached, joined>>
  <2>1. PICK q \in Programs :
                    /\ life[q] = "knocking" /\ life' = [life EXCEPT ![q] = "open"]
                    /\ attached' = Append(attached, q) /\ joined' = joined \cup {q}
    BY <1>2, LookDoes
  <2>2. q \notin Attached /\ held[q] = {}
    BY <2>1 DEF Connections
  <2>3. Attached' = Attached \cup {q}
    BY <2>1, ToSetOf DEF Attached, Shape
  <2>4. QED
    BY <2>1, <2>2, <2>3
<1>3. QED
  BY <1>1, <1>2

\* What is read of a connection an answer came on is held, but for what was let go.
LEMMA ReadKeepsConnections ==
    ASSUME Shape, Connections, NEW p \in Attached, NEW freed, ReadUpTo(p, freed),
           UNCHANGED <<life, attached>>, inForce' = [inForce EXCEPT ![p] = @ \ freed]
    PROVE  Connections'
<1>1. p \in Programs
  BY AttachedIsFinite DEF Shape
<1>2. /\ wire' = [wire EXCEPT ![p] = <<>>]
      /\ held'[p] = (held[p] \cup (ToSet(wire[p]) \ {0})) \ freed
      /\ \A q \in Programs \ {p} : held'[q] = held[q]
  BY <1>1, ReadIsTyped
<1>3. wire'[p] = <<>> /\ \A q \in Programs \ {p} : wire'[q] = wire[q]
  BY <1>1, <1>2 DEF Shape
<1>4. inForce'[p] = inForce[p] \ freed /\ \A q \in Programs \ {p} : inForce'[q] = inForce[q]
  BY <1>1 DEF Shape
<1>5. Attached' = Attached
  BY DEF Attached
<1>6. ToSet(wire'[p]) = {}
  BY <1>3, ToSetOfNothing
<1>7. QED
  BY <1>1, <1>2, <1>3, <1>4, <1>5, <1>6 DEF Connections

LEMMA RequestsAre ==
    ASSUME NEW tool \in ByStop \cup ByProgram, NEW n
    PROVE  LET R == Requests(tool, n) IN
           /\ R # <<>> /\ R[1].stop \in {0, n} /\ AsksOnce(R)
           /\ tool \in ByStop => R[1].kind = tool /\ R[1].stop = n
  BY DEF Requests, ByStop, ByProgram, AsksOnce

LEMMA OneIsLeft ==
    ASSUME NEW S, NEW s \in Seq(S), s # <<>>
    PROVE  /\ Len(s) \in Nat \ {0} /\ Len(Tail(s)) = Len(s) - 1 /\ Head(s) = s[1]
           /\ Tail(s) = <<>> <=> Len(s) = 1
           /\ \A i \in 1..Len(Tail(s)) : Tail(s)[i] = s[i + 1]
<1>1. Len(s) \in Nat \ {0} /\ Len(Tail(s)) = Len(s) - 1 /\ Tail(s) \in Seq(S) /\ Head(s) = s[1]
  BY HeadTailProperties, EmptySeq
<1>2. Tail(s) # <<>> => Len(Tail(s)) \in Nat \ {0}
  BY <1>1, EmptySeq
<1>3. Tail(s) = <<>> => Len(Tail(s)) = 0
  BY EmptySeq
<1>4. \A i \in 1..Len(Tail(s)) : Tail(s)[i] = s[i + 1]
  BY HeadTailProperties
<1>5. QED
  BY <1>1, <1>2, <1>3, <1>4

LEMMA WaitsAfter ==
    ASSUME NEW todo \in Seq(ARequest), todo # <<>>, AsksOnce(todo), Tail(todo) # <<>>
    PROVE  AsksOnce(Tail(todo)) /\ Tail(todo)[1].kind = "wait"
<1>1. /\ Len(todo) \in Nat \ {0} /\ Len(Tail(todo)) = Len(todo) - 1 /\ Len(todo) # 1
      /\ \A i \in 1..Len(Tail(todo)) : Tail(todo)[i] = todo[i + 1]
  BY OneIsLeft
<1>2. Len(todo) = 2 /\ todo[2].kind = "wait"
  BY <1>1 DEF AsksOnce
<1>3. Len(Tail(todo)) = 1 /\ Tail(todo)[1].kind = "wait"
  BY <1>1, <1>2
<1>4. QED
  BY <1>3 DEF AsksOnce

\* With a stop returned the call reads about that, where the stop is.
LEMMA ReturnedReads ==
    ASSUME Shape, Going, call.got # {}, call.todo # <<>>
    PROVE  \E h \in HeldNow :
              /\ call.got = {h} /\ Alone(h[1]) /\ h[1] \in Programs /\ h[2] \in held[h[1]]
              /\ Head(call.todo).kind \in {"read", "world"} /\ Head(call.todo).stop = h[2] /\ h[2] # 0
              /\ AskedOf(call.session, Head(call.todo).stop) = {h[1]}
<1>1. PICK h \in HeldNow : /\ call.got = {h} /\ Alone(h[1])
                           /\ \A i \in 1..Len(call.todo) : /\ call.todo[i].kind \in {"read", "world"}
                                                           /\ call.todo[i].stop = h[2]
  BY DEF Going, Returned
<1>2. 1 \in 1..Len(call.todo) /\ Head(call.todo) = call.todo[1]
  <2>1. call.todo \in Seq(ARequest)
    BY DEF Shape, ACall
  <2>2. QED
    BY <2>1
<1>3. h[1] \in Programs /\ h[2] \in held[h[1]] /\ h[2] # 0
  BY AttachedIsFinite, ServerAssumption DEF HeldNow, Shape
<1>4. QED
  BY <1>1, <1>2, <1>3, AloneIsAsked

\* It is there to be read.
LEMMA ReturnedIsNotRefused == ASSUME Shape, Going, Refuse PROVE call.got = {}
<1>1. SUFFICES ASSUME call.got # {} PROVE FALSE
  OBVIOUS
<1>2. PICK h \in HeldNow :
              /\ h[1] \in Programs /\ h[2] \in held[h[1]]
              /\ Head(call.todo).stop = h[2] /\ Head(call.todo).kind \in {"read", "world"}
              /\ AskedOf(call.session, Head(call.todo).stop) = {h[1]}
  BY <1>1, RefuseDoes, ReturnedReads
<1>3. ~Unsendable(h[1], Head(call.todo))
  BY <1>2 DEF Unsendable
<1>4. life[h[1]] = "open" => h[2] \in inForce[h[1]]
  BY <1>2 DEF Going, Connections
<1>5. QED
  BY <1>2, <1>3, <1>4, RefuseDoes

\* A call that lets all go, or waits, has been returned nothing.
LEMMA RunsOrWaits ==
    ASSUME Shape, Going, call.todo # <<>>, Head(call.todo).kind \in {"run", "wait"}
    PROVE  call.got = {} /\ Tail(call.todo) = <<>> /\ (Head(call.todo).kind = "run" => Head(call.todo).stop = 0)
<1>1. call.got = {}
  BY ReturnedReads
<1>2. call.todo \in Seq(ARequest) /\ Head(call.todo) = call.todo[1] /\ AsksOnce(call.todo)
  BY <1>1, FirstAsked DEF Shape, ACall, Going, Asks
<1>3. Len(call.todo) = 1 /\ (Head(call.todo).kind = "run" => Head(call.todo).stop = 0)
  BY <1>2 DEF AsksOnce
<1>4. Tail(call.todo) = <<>>
  BY <1>2, <1>3, OneIsLeft
<1>5. QED
  BY <1>1, <1>3, <1>4

\* What is left of a call after its first request.
LEMMA AsksOn ==
    ASSUME Shape, Going, call.todo # <<>>, call'.got = call.got, call'.todo = Tail(call.todo),
           call'.at = None \/ Tail(call.todo) = <<>>
    PROVE  Asks'
<1>1. SUFFICES ASSUME call.got = {}, Tail(call.todo) # <<>> PROVE Asks'
  BY DEF Asks
<1>2. call.todo \in Seq(ARequest) /\ AsksOnce(call.todo)
  BY <1>1 DEF Going, Asks, Shape, ACall
<1>3. AsksOnce(Tail(call.todo))
  BY <1>1, <1>2, WaitsAfter
<1>4. QED
  BY <1>1, <1>3 DEF Asks, AsksOnce

\* Whom the call is about alone stays so, whatever of its own it is let go or holds.
LEMMA AloneStays ==
    ASSUME Shape, NEW p \in Attached, Alone(p), call'.session = call.session,
           Attached' = Attached, \A q \in Programs \ {p} : held'[q] = held[q]
    PROVE  Alone(p)'
<1>1. Attached \subseteq Programs
  BY AttachedIsFinite DEF Shape
<1>2. QED
  BY <1>1 DEF Alone

\* What was returned is still held, and there is less left to read about it.
LEMMA ReturnedStays ==
    ASSUME Shape, Shape', Returned, call'.got = call.got, call'.session = call.session,
           call'.todo = call.todo \/ (call.todo # <<>> /\ call'.todo = Tail(call.todo)),
           Attached' = Attached, NEW p \in Programs,
           \A q \in Programs \ {p} : held'[q] = held[q],
           held[p] \subseteq held'[p],
           call.got = {} \/ held' = held \/ (\E n : <<p, n>> \in call.got)
    PROVE  Returned'
<1>1. SUFFICES ASSUME call.got # {} PROVE Returned'
  BY DEF Returned
<1>2. PICK h \in HeldNow : /\ call.got = {h} /\ Alone(h[1])
                           /\ \A i \in 1..Len(call.todo) : /\ call.todo[i].kind \in {"read", "world"}
                                                           /\ call.todo[i].stop = h[2]
  BY <1>1 DEF Returned
<1>3. h[1] \in Attached /\ h[1] \in Programs /\ h[2] \in 1..MaxStops /\ h[2] \in held[h[1]]
  BY AttachedIsFinite DEF HeldNow, Shape
<1>4. h \in HeldNow'
  <2>1. h \in Attached \X (1..MaxStops)
    BY DEF HeldNow
  <2>2. h[2] \in held'[h[1]]
    BY <1>3
  <2>3. QED
    BY <2>1, <2>2 DEF HeldNow
<1>5. Alone(h[1])'
  <2>1. \A q \in Programs \ {h[1]} : held'[q] = held[q]
    BY <1>1, <1>2
  <2>2. QED
    BY <1>2, <1>3, <2>1, AloneStays
<1>6. \A i \in 1..Len(call'.todo) : call'.todo[i].kind \in {"read", "world"} /\ call'.todo[i].stop = h[2]
  <2>1. call.todo \in Seq(ARequest)
    BY DEF Shape, ACall
  <2>2. CASE call'.todo = call.todo
    BY <1>2, <2>2
  <2>3. CASE call.todo # <<>> /\ call'.todo = Tail(call.todo)
    <3>1. Len(Tail(call.todo)) = Len(call.todo) - 1 /\ Len(call.todo) \in Nat
      BY <2>1, <2>3
    <3>2. \A i \in 1..Len(Tail(call.todo)) : Tail(call.todo)[i] = call.todo[i + 1] /\ i + 1 \in 1..Len(call.todo)
      BY <2>1, <2>3, <3>1
    <3>3. QED
      BY <1>2, <2>3, <3>2
  <2>4. QED
    BY <2>2, <2>3
<1>7. QED
  BY <1>2, <1>4, <1>5, <1>6 DEF Returned

-----------------------------------------------------------------------------
\* The types are kept.
LEMMA ShapeStep == ASSUME Shape, [Next]_vars PROVE Shape'
<1>life. life \in [Programs -> {"none", "knocking", "open", "gone"}]
  BY DEF Shape
<1>inForce. inForce \in [Programs -> SUBSET Numbers]
  BY DEF Shape
<1>minted. minted \in [Programs -> 0..MaxStops]
  BY DEF Shape
<1>said. said \in [Programs -> Nat]
  BY DEF Shape
<1>wire. wire \in [Programs -> Seq(0..MaxStops)]
  BY DEF Shape
<1>attached. attached \in Seq(Programs)
  BY DEF Shape
<1>held. held \in [Programs -> SUBSET Numbers]
  BY DEF Shape
<1>holds. holds \in BOOLEAN
  BY DEF Shape
<1>joined. joined \subseteq Programs
  BY DEF Shape
<1>call. call \in ACall
  BY DEF Shape
<1>calls. calls \in Nat
  BY DEF Shape
<1>seen. seen \subseteq Programs
  BY DEF Shape
<1>believed. believed \subseteq Stops
  BY DEF Shape
<1>unsure. unsure \in BOOLEAN
  BY DEF Shape
<1>1. ASSUME NEW p \in Programs, Reach(p) PROVE Shape'
  <2>1. minted[p] + 1 \in Numbers /\ minted'[p] = minted[p] + 1 /\ minted'[p] \in 0..MaxStops
    BY <1>minted, <1>1, ServerAssumption DEF Reach, Numbers
  <2>2. minted' \in [Programs -> 0..MaxStops]
    BY <1>minted, <1>1, <2>1 DEF Reach, Numbers
  <2>3. inForce' \in [Programs -> SUBSET Numbers]
    BY <1>inForce, <1>1, <2>1 DEF Reach
  <2>4. wire' \in [Programs -> Seq(0..MaxStops)]
    BY <1>wire, <1>1, <2>1 DEF Reach
  <2>5. UNCHANGED <<life, said, attached, held, holds, joined, call, calls, seen, believed, unsure>>
    BY <1>1 DEF Reach, programs, debuggee, client
  <2>6. QED
    BY Shape, <2>2, <2>3, <2>4, <2>5 DEF Shape
<1>2. ASSUME NEW p \in Programs, Announce(p) PROVE Shape'
  <2>1. 0 \in 0..MaxStops
    BY ServerAssumption
  <2>2. said' \in [Programs -> Nat]
    BY <1>said, <1>2 DEF Announce
  <2>3. wire' \in [Programs -> Seq(0..MaxStops)]
    BY <1>wire, <1>2, <2>1 DEF Announce
  <2>4. UNCHANGED <<life, inForce, minted, attached, held, holds, joined, call, calls, seen, believed, unsure>>
    BY <1>2 DEF Announce, programs, debuggee, client
  <2>5. QED
    BY Shape, <2>2, <2>3, <2>4 DEF Shape
<1>3. ASSUME NEW p \in Programs, Fork(p) PROVE Shape'
  <2>1. Numbers \subseteq 0..MaxStops
    BY ServerAssumption DEF Numbers
  <2>2. \A n \in Numbers : <<n>> \in Seq(0..MaxStops)
    BY <2>1
  <2>3. PICK n \in Numbers : wire' = [wire EXCEPT ![p] = <<n>>]
    BY <1>3, Shape, ForkDoes
  <2>4. life' \in [Programs -> {"none", "knocking", "open", "gone"}]
    BY <1>life, <1>3, Shape, ForkDoes
  <2>5. inForce' \in [Programs -> SUBSET Numbers]
    BY <1>inForce, <1>3, Shape, ForkDoes, <2>1
  <2>6. minted' \in [Programs -> 0..MaxStops]
    BY <1>minted, <1>3, Shape, ForkDoes, <2>1
  <2>7. wire' \in [Programs -> Seq(0..MaxStops)]
    BY <1>wire, <1>3, Shape, ForkDoes, <2>2, <2>3
  <2>8. UNCHANGED <<said, attached, held, holds, joined, call, calls, seen, believed, unsure>>
    BY <1>3, Shape, ForkDoes
  <2>9. QED
    BY Shape, <2>4, <2>5, <2>6, <2>7, <2>8 DEF Shape
<1>4. ASSUME NEW p \in Programs, Die(p) PROVE Shape'
  <2>1. life' \in [Programs -> {"none", "knocking", "open", "gone"}]
    BY <1>life, <1>4 DEF Die
  <2>2. inForce' \in [Programs -> SUBSET Numbers]
    BY <1>inForce, <1>4 DEF Die
  <2>3. UNCHANGED <<minted, said, wire, attached, held, holds, joined, call, calls, seen, believed, unsure>>
    BY <1>4 DEF Die, programs, debuggee, client
  <2>4. QED
    BY Shape, <2>1, <2>2, <2>3 DEF Shape
<1>5. CASE CallAboutStop
  <2>1. call' \in ACall
    BY <1>call, <1>5, Shape, AboutStopDoes, NoCallParts DEF Becomes
  <2>2. calls' \in Nat
    BY <1>calls, <1>5, Shape, AboutStopDoes
  <2>3. unsure' \in BOOLEAN
    BY <1>unsure, <1>5, Shape, AboutStopDoes
  <2>4. UNCHANGED <<life, inForce, minted, said, wire, attached, held, holds, joined, seen, believed>>
    BY <1>5, Shape, AboutStopDoes
  <2>5. QED
    BY Shape, <2>1, <2>2, <2>3, <2>4 DEF Shape
<1>6. CASE CallAboutProgram
  <2>1. call' \in ACall
    BY <1>call, <1>6, Shape, AboutProgramDoes, NoCallParts DEF Becomes
  <2>2. calls' \in Nat
    BY <1>calls, <1>6, Shape, AboutProgramDoes
  <2>3. UNCHANGED <<life, inForce, minted, said, wire, attached, held, holds, joined, seen, believed, unsure>>
    BY <1>6, Shape, AboutProgramDoes
  <2>4. QED
    BY Shape, <2>1, <2>2, <2>3 DEF Shape
<1>7. CASE CallSessions
  <2>1. call' \in ACall
    BY <1>call, <1>7, Shape, SessionsDoes, NoCallParts DEF Becomes
  <2>2. calls' \in Nat
    BY <1>calls, <1>7, Shape, SessionsDoes
  <2>3. UNCHANGED <<life, inForce, minted, said, wire, attached, held, holds, joined, seen, believed, unsure>>
    BY <1>7, Shape, SessionsDoes
  <2>4. QED
    BY Shape, <2>1, <2>2, <2>3 DEF Shape
<1>8. CASE CallLaunch
  <2>1. 1 \in Numbers /\ 1 \in 0..MaxStops
    BY ServerAssumption DEF Numbers
  <2>2. PICK p \in Programs :
          \/ /\ life' = [life EXCEPT ![p] = "gone"] /\ UNCHANGED <<inForce, minted, attached, held, holds>>
          \/ /\ life' = [life EXCEPT ![p] = "open"] /\ minted' = [minted EXCEPT ![p] = 1]
             /\ inForce' = [inForce EXCEPT ![p] = {1}] /\ attached' = <<p>> /\ holds' = TRUE
             /\ held' = [q \in Programs |-> IF q = p THEN {1} ELSE {}]
    BY <1>8, Shape, LaunchDoes DEF Programs
  <2>3. \A q \in Programs : <<q>> \in Seq(Programs)
    OBVIOUS
  <2>4. life' \in [Programs -> {"none", "knocking", "open", "gone"}]
    BY <1>life, <2>2
  <2>5. inForce' \in [Programs -> SUBSET Numbers]
    BY <1>inForce, <2>1, <2>2
  <2>6. minted' \in [Programs -> 0..MaxStops]
    BY <1>minted, <2>1, <2>2
  <2>7. attached' \in Seq(Programs)
    BY <1>attached, <2>2, <2>3
  <2>8. held' \in [Programs -> SUBSET Numbers]
    BY <1>held, <2>1, <2>2
  <2>9. holds' \in BOOLEAN
    BY <1>holds, <2>2
  <2>10. call' \in ACall
    BY <1>call, <1>8, Shape, LaunchDoes, NoCallParts DEF Becomes
  <2>11. calls' \in Nat
    BY <1>calls, <1>8, Shape, LaunchDoes
  <2>12. UNCHANGED <<said, wire, joined, seen, believed, unsure>>
    BY <1>8, Shape, LaunchDoes
  <2>13. QED
    BY Shape, <2>4, <2>5, <2>6, <2>7, <2>8, <2>9, <2>10, <2>11, <2>12 DEF Shape
<1>9. CASE CallTerminate
  <2>1. life' \in [Programs -> {"none", "knocking", "open", "gone"}]
    BY <1>life, <1>9, Shape, TerminateDoes
  <2>2. inForce' \in [Programs -> SUBSET Numbers]
    BY <1>inForce, <1>9, Shape, TerminateDoes
  <2>3. holds' \in BOOLEAN
    BY <1>holds, <1>9, Shape, TerminateDoes
  <2>4. call' \in ACall
    BY <1>call, <1>9, Shape, TerminateDoes, NoCallParts DEF Becomes
  <2>5. calls' \in Nat
    BY <1>calls, <1>9, Shape, TerminateDoes
  <2>6. unsure' \in BOOLEAN
    BY <1>unsure, <1>9, Shape, TerminateDoes
  <2>7. UNCHANGED <<minted, said, wire, attached, held, joined, seen, believed>>
    BY <1>9, Shape, TerminateDoes
  <2>8. QED
    BY Shape, <2>1, <2>2, <2>3, <2>4, <2>5, <2>6, <2>7 DEF Shape
<1>10. CASE Refuse
  <2>1. wire' \in [Programs -> Seq(0..MaxStops)]
    BY <1>wire, <1>10, Shape, RefuseDoes, ReadIsTyped
  <2>2. held' \in [Programs -> SUBSET Numbers]
    BY <1>held, <1>10, Shape, RefuseDoes, ReadIsTyped
  <2>3. call' \in ACall
    BY <1>call, <1>10, Shape, RefuseDoes, NoCallParts DEF Becomes
  <2>4. unsure' \in BOOLEAN
    BY <1>unsure, <1>10, Shape, RefuseDoes
  <2>5. UNCHANGED <<life, inForce, minted, said, attached, holds, joined, calls, seen, believed>>
    BY <1>10, Shape, RefuseDoes
  <2>6. QED
    BY Shape, <2>1, <2>2, <2>3, <2>4, <2>5 DEF Shape
<1>11. CASE Lose
  <2>1. wire' \in [Programs -> Seq(0..MaxStops)]
    BY <1>wire, <1>11, Shape, LoseDoes, ReadIsTyped
  <2>2. held' \in [Programs -> SUBSET Numbers]
    BY <1>held, <1>11, Shape, LoseDoes, ReadIsTyped
  <2>3. call' \in ACall
    BY <1>call, <1>11, Shape, LoseDoes, NoCallParts DEF Becomes
  <2>4. unsure' \in BOOLEAN
    BY <1>unsure, <1>11, Shape, LoseDoes
  <2>5. UNCHANGED <<life, inForce, minted, said, attached, holds, joined, calls, seen, believed>>
    BY <1>11, Shape, LoseDoes
  <2>6. QED
    BY Shape, <2>1, <2>2, <2>3, <2>4, <2>5 DEF Shape
<1>12. CASE Perform
  <2>1. wire' \in [Programs -> Seq(0..MaxStops)]
    BY <1>wire, <1>12, Shape, PerformDoes, ReadIsTyped
  <2>2. held' \in [Programs -> SUBSET Numbers]
    BY <1>held, <1>12, Shape, PerformDoes, ReadIsTyped
  <2>3. inForce' \in [Programs -> SUBSET Numbers]
    BY <1>inForce, <1>12, Shape, PerformDoes
  <2>4. call' \in ACall
    BY <1>call, <1>12, Shape, PerformDoes DEF Becomes, Idles
  <2>5. UNCHANGED <<life, minted, said, attached, holds, joined, calls, seen, believed, unsure>>
    BY <1>12, Shape, PerformDoes
  <2>6. QED
    BY Shape, <2>1, <2>2, <2>3, <2>4, <2>5 DEF Shape
<1>13. CASE StartWait
  <2>1. call' \in ACall
    BY <1>call, <1>13, Shape, StartWaitDoes DEF Becomes, Idles
  <2>2. UNCHANGED <<life, inForce, minted, said, wire, attached, held, holds, joined, calls, seen, believed, unsure>>
    BY <1>13, Shape, StartWaitDoes
  <2>3. QED
    BY Shape, <2>1, <2>2 DEF Shape
<1>14. CASE Look
  <2>1. life' \in [Programs -> {"none", "knocking", "open", "gone"}]
    BY <1>life, <1>14, Shape, LookDoes
  <2>2. attached' \in Seq(Programs)
    BY <1>attached, <1>14, Shape, LookDoes
  <2>3. joined' \subseteq Programs
    BY <1>joined, <1>14, Shape, LookDoes
  <2>4. call' \in ACall
    BY <1>call, <1>14, Shape, LookDoes DEF Becomes, Idles
  <2>5. UNCHANGED <<inForce, minted, said, wire, held, holds, calls, seen, believed, unsure>>
    BY <1>14, Shape, LookDoes
  <2>6. QED
    BY Shape, <2>1, <2>2, <2>3, <2>4, <2>5 DEF Shape
<1>15. CASE Read
  <2>1. wire' \in [Programs -> Seq(0..MaxStops)]
    BY <1>wire, <1>15, Shape, ReadDoes
  <2>2. held' \in [Programs -> SUBSET Numbers]
    BY <1>held, <1>15, Shape, ReadDoes
  <2>3. call' \in ACall
    BY <1>call, <1>15, Shape, ReadDoes DEF Becomes, Idles
  <2>4. UNCHANGED <<life, inForce, minted, said, attached, holds, joined, calls, seen, believed, unsure>>
    BY <1>15, Shape, ReadDoes
  <2>5. QED
    BY Shape, <2>1, <2>2, <2>3, <2>4 DEF Shape
<1>16. CASE Slice
  <2>1. call' \in ACall
    BY <1>call, <1>16, Shape, SliceDoes DEF Becomes, Idles
  <2>2. UNCHANGED <<life, inForce, minted, said, wire, attached, held, holds, joined, calls, seen, believed, unsure>>
    BY <1>16, Shape, SliceDoes
  <2>3. QED
    BY Shape, <2>1, <2>2 DEF Shape
<1>17. CASE TimesOut
  <2>1. call' \in ACall
    BY <1>call, <1>17, Shape, TimesOutDoes DEF Becomes, Idles
  <2>2. UNCHANGED <<life, inForce, minted, said, wire, attached, held, holds, joined, calls, seen, believed, unsure>>
    BY <1>17, Shape, TimesOutDoes
  <2>3. QED
    BY Shape, <2>1, <2>2 DEF Shape
<1>18. CASE End
  <2>1. call' \in ACall
    BY <1>call, <1>18, Shape, EndDoes DEF Becomes, Idles
  <2>2. UNCHANGED <<life, inForce, minted, said, wire, attached, held, holds, joined, calls, seen, believed, unsure>>
    BY <1>18, Shape, EndDoes
  <2>3. QED
    BY Shape, <2>1, <2>2 DEF Shape
<1>19. CASE Answer
  <2>1. HeldNow \subseteq Stops /\ call.got \subseteq Stops
    BY <1>call, <1>attached, AttachedIsFinite DEF HeldNow, Stops, Numbers, ACall
  <2>2. joined' \subseteq Programs
    BY <1>joined, <1>19, Shape, AnswerDoes
  <2>3. seen' \subseteq Programs
    BY <1>seen, <1>19, Shape, AnswerDoes
  <2>4. believed' \subseteq Stops
    BY <1>believed, <1>19, Shape, AnswerDoes, <2>1
  <2>5. unsure' \in BOOLEAN
    BY <1>unsure, <1>19, Shape, AnswerDoes
  <2>6. call' \in ACall
    BY <1>call, <1>19, Shape, AnswerDoes, NoCallParts DEF Becomes
  <2>7. UNCHANGED <<life, inForce, minted, said, wire, attached, held, holds, calls>>
    BY <1>19, Shape, AnswerDoes
  <2>8. QED
    BY Shape, <2>2, <2>3, <2>4, <2>5, <2>6, <2>7 DEF Shape
<1>20. CASE UNCHANGED vars
  BY <1>20, Shape DEF vars, programs, debuggee, client, Shape
<1>21. QED
  BY <1>1, <1>2, <1>3, <1>4, <1>5, <1>6, <1>7, <1>8, <1>9, <1>10, <1>11, <1>12, <1>13, <1>14, <1>15, <1>16, <1>17, <1>18, <1>19, <1>20
  DEF Next, Runs, Calls, Dispatch, Waits

\* What the engine takes to be held of a program that is there is held.
LEMMA ConnectionsStep == ASSUME Shape, Shape', Going, [Next]_vars PROVE Connections'
<1> USE DEF Going
<1>1. ASSUME NEW p \in Programs, Reach(p) PROVE Connections'
  <2>1. /\ life[p] = "open" /\ UNCHANGED <<life, attached, held>> /\ minted'[p] \in 0..MaxStops
        /\ inForce' = [inForce EXCEPT ![p] = @ \cup {minted'[p]}]
        /\ wire' = [wire EXCEPT ![p] = Append(@, minted'[p])]
    BY <1>1 DEF Reach, Shape, debuggee
  <2>2. ToSet(wire'[p]) = ToSet(wire[p]) \cup {minted'[p]} /\ \A q \in Programs \ {p} : wire'[q] = wire[q]
    <3>1. wire[p] \in Seq(0..MaxStops)
      BY DEF Shape
    <3>2. PICK m \in 0..MaxStops : m = minted'[p]
      BY <2>1
    <3>3. wire'[p] = Append(wire[p], m) /\ \A q \in Programs \ {p} : wire'[q] = wire[q]
      BY <2>1, <3>2 DEF Shape
    <3>4. ToSet(Append(wire[p], m)) = ToSet(wire[p]) \cup {m}
      BY <3>1, ToSetOf
    <3>5. QED
      BY <3>2, <3>3, <3>4
  <2>3. inForce'[p] = inForce[p] \cup {minted'[p]} /\ \A q \in Programs \ {p} : inForce'[q] = inForce[q]
    BY <2>1 DEF Shape
  <2>4. QED
    BY <2>1, <2>2, <2>3 DEF Connections, Attached
<1>2. ASSUME NEW p \in Programs, Announce(p) PROVE Connections'
  <2>1. /\ life[p] = "open" /\ UNCHANGED <<life, inForce, attached, held>> /\ wire' = [wire EXCEPT ![p] = Append(@, 0)]
    BY <1>2 DEF Announce, debuggee
  <2>2. 0 \in 0..MaxStops
    BY ServerAssumption
  <2>3. ToSet(wire'[p]) = ToSet(wire[p]) \cup {0} /\ \A q \in Programs \ {p} : wire'[q] = wire[q]
    <3>1. wire[p] \in Seq(0..MaxStops)
      BY DEF Shape
    <3>2. wire'[p] = Append(wire[p], 0) /\ \A q \in Programs \ {p} : wire'[q] = wire[q]
      BY <2>1 DEF Shape
    <3>3. QED
      BY <2>2, <3>1, <3>2, ToSetOf
  <2>4. QED
    BY <2>1, <2>3 DEF Connections, Attached
<1>3. ASSUME NEW p \in Programs, Fork(p) PROVE Connections'
  <2>1. PICK n \in Numbers : inForce' = [inForce EXCEPT ![p] = {n}] /\ wire' = [wire EXCEPT ![p] = <<n>>]
    BY <1>3, ForkDoes
  <2>2. life[p] = "none" /\ life' = [life EXCEPT ![p] = "knocking"] /\ UNCHANGED <<attached, held>>
    BY <1>3, ForkDoes
  <2>3. ToSet(wire'[p]) = {n} /\ inForce'[p] = {n} /\ life'[p] = "knocking"
    BY <2>1, <2>2, ToSetOfOne DEF Shape
  <2>4. \A q \in Programs \ {p} : wire'[q] = wire[q] /\ inForce'[q] = inForce[q] /\ life'[q] = life[q]
    BY <2>1, <2>2 DEF Shape
  <2>5. p \notin Attached /\ held[p] = {}
    BY <2>2 DEF Connections
  <2>6. QED
    BY <2>2, <2>3, <2>4, <2>5 DEF Connections, Attached
<1>4. ASSUME NEW p \in Programs, Die(p) PROVE Connections'
  BY <1>4, Shape DEF Die, programs, debuggee, client, Shape, Connections, Attached
<1>5. CASE CallAboutStop
  BY <1>5, Shape, AboutStopDoes, NoCallParts DEF Becomes, Idles, Shape, Connections, Attached
<1>6. CASE CallAboutProgram
  BY <1>6, Shape, AboutProgramDoes, NoCallParts DEF Becomes, Idles, Shape, Connections, Attached
<1>7. CASE CallSessions
  BY <1>7, Shape, SessionsDoes, NoCallParts DEF Becomes, Idles, Shape, Connections, Attached
<1>8. CASE CallLaunch
  <2>1. PICK p \in Mains :
                /\ life[p] = "none" /\ UNCHANGED wire
                /\ \/ life' = [life EXCEPT ![p] = "gone"] /\ UNCHANGED <<inForce, attached, held>>
                   \/ /\ life' = [life EXCEPT ![p] = "open"] /\ inForce' = [inForce EXCEPT ![p] = {1}]
                      /\ attached' = <<p>> /\ held' = [q \in Programs |-> IF q = p THEN {1} ELSE {}]
    BY <1>8, LaunchDoes
  <2>2. p \in Programs /\ wire[p] = <<>> /\ p \notin Attached
    BY <2>1 DEF Connections, Programs
  <2>3. \A q \in Programs \ {p} : inForce'[q] = inForce[q] /\ life'[q] = life[q] /\ wire'[q] = wire[q]
    BY <2>1 DEF Shape
  <2>4. CASE life' = [life EXCEPT ![p] = "gone"] /\ UNCHANGED <<inForce, attached, held>>
    <3>1. life'[p] = "gone" /\ Attached' = Attached
      BY <2>2, <2>4 DEF Shape, Attached
    <3>2. QED
      BY <2>2, <2>3, <2>4, <3>1 DEF Connections
  <2>5. CASE /\ life' = [life EXCEPT ![p] = "open"] /\ inForce' = [inForce EXCEPT ![p] = {1}]
             /\ attached' = <<p>> /\ held' = [q \in Programs |-> IF q = p THEN {1} ELSE {}]
    <3>1. Attached' = {p}
      BY <2>2, <2>5, ToSetOfOne DEF Attached
    <3>2. life'[p] = "open" /\ inForce'[p] = {1} /\ held'[p] = {1} /\ wire'[p] = <<>>
      BY <2>1, <2>2, <2>5 DEF Shape
    <3>3. \A q \in Programs \ {p} : held'[q] = {}
      BY <2>2, <2>5
    <3>4. QED
      BY <2>2, <2>3, <3>1, <3>2, <3>3, ToSetOfNothing DEF Connections
  <2>6. QED
    BY <2>1, <2>4, <2>5
<1>9. CASE CallTerminate
  <2>1. UNCHANGED <<wire, attached, held>>
    BY <1>9, TerminateDoes
  <2>2. \/ UNCHANGED <<life, inForce>>
        \/ \E p \in Programs : life' = [life EXCEPT ![p] = "gone"] /\ inForce' = [inForce EXCEPT ![p] = {}]
    BY <1>9, TerminateDoes
  <2>3. Attached' = Attached
    BY <2>1 DEF Attached
  <2>4. CASE UNCHANGED <<life, inForce>>
    BY <2>1, <2>3, <2>4 DEF Connections
  <2>5. CASE ~UNCHANGED <<life, inForce>>
    <3>1. PICK p \in Programs : life' = [life EXCEPT ![p] = "gone"] /\ inForce' = [inForce EXCEPT ![p] = {}]
      BY <2>2, <2>5
    <3>2. /\ life'[p] = "gone"
          /\ \A q \in Programs \ {p} : life'[q] = life[q] /\ inForce'[q] = inForce[q]
      BY <3>1 DEF Shape
    <3>3. Attached \subseteq Programs
      BY AttachedIsFinite DEF Shape
    <3>4. QED
      BY <2>1, <2>3, <3>2, <3>3 DEF Connections
  <2>6. QED
    BY <2>4, <2>5
<1>10. CASE Refuse
  <2>1. UNCHANGED <<life, inForce, attached>> /\ call.todo # <<>>
    BY <1>10, RefuseDoes
  <2>2. CASE UNCHANGED <<wire, held>>
    BY <2>1, <2>2 DEF Connections, Attached
  <2>3. CASE ~UNCHANGED <<wire, held>>
    <3>1. PICK p \in AskedOf(call.session, Head(call.todo).stop) : p \in Programs /\ ReadUpTo(p, {})
      BY <1>10, <2>3, RefuseDoes
    <3>2. p \in Attached
      BY <2>1, <3>1, FirstAsked, AskedIsAttached
    <3>3. inForce' = [inForce EXCEPT ![p] = @ \ {}]
      BY <2>1, <3>1 DEF Shape
    <3>4. QED
      BY <2>1, <3>1, <3>2, <3>3, ReadKeepsConnections
  <2>4. QED
    BY <2>2, <2>3
<1>11. CASE Lose
  <2>1. UNCHANGED <<life, inForce, attached>> /\ call.todo # <<>>
    BY <1>11, LoseDoes
  <2>2. PICK p \in AskedOf(call.session, Head(call.todo).stop) : p \in Programs /\ (ReadUpTo(p, {}) \/ UNCHANGED <<wire, held>>)
    BY <1>11, LoseDoes
  <2>3. CASE UNCHANGED <<wire, held>>
    BY <2>1, <2>3 DEF Connections, Attached
  <2>4. CASE ReadUpTo(p, {})
    <3>1. p \in Attached
      BY <2>1, <2>2, FirstAsked, AskedIsAttached
    <3>2. inForce' = [inForce EXCEPT ![p] = @ \ {}]
      BY <2>1, <2>2 DEF Shape
    <3>3. QED
      BY <2>1, <2>4, <3>1, <3>2, ReadKeepsConnections
  <2>5. QED
    BY <2>2, <2>3, <2>4
<1>12. CASE Perform
  <2>1. UNCHANGED <<life, attached>> /\ call.todo # <<>>
    BY <1>12, PerformDoes
  <2>2. PICK p \in AskedOf(call.session, Head(call.todo).stop) : \E freed \in SUBSET Numbers : ReadUpTo(p, freed) /\ inForce' = [inForce EXCEPT ![p] = @ \ freed]
    BY <1>12, PerformDoes
  <2>3. p \in Attached
    BY <2>1, <2>2, FirstAsked, AskedIsAttached
  <2>4. QED
    BY <2>1, <2>2, <2>3, ReadKeepsConnections
<1>13. CASE StartWait
  BY <1>13, Shape, StartWaitDoes, NoCallParts DEF Becomes, Idles, Shape, Connections, Attached
<1>14. CASE Look
  <2>1. UNCHANGED <<inForce, wire, held>>
    BY <1>14, LookDoes
  <2>2. CASE UNCHANGED life /\ Attached' = Attached
    BY <2>1, <2>2 DEF Connections
  <2>3. CASE ~(UNCHANGED life /\ Attached' = Attached)
    <3>1. PICK q \in Programs \ Attached :
                 /\ life[q] = "knocking" /\ life' = [life EXCEPT ![q] = "open"]
                 /\ Attached' = Attached \cup {q} /\ held[q] = {}
      BY <1>14, <2>3, WhoJoins
    <3>2. life'[q] = "open" /\ \A p \in Programs \ {q} : life'[p] = life[p]
      BY <3>1 DEF Shape
    <3>3. Attached \subseteq Programs
      BY AttachedIsFinite DEF Shape
    <3>4. QED
      BY <2>1, <3>1, <3>2, <3>3 DEF Connections
  <2>4. QED
    BY <2>2, <2>3
<1>15. CASE Read
  <2> DEFINE p == call.at  n == Head(wire[p])
  <2>1. /\ p \in Programs /\ p # None /\ wire[p] # <<>> /\ n \in 0..MaxStops
        /\ wire' = [wire EXCEPT ![p] = Tail(@)] /\ UNCHANGED <<life, inForce, attached>>
        /\ \/ UNCHANGED held
           \/ n \in Numbers /\ held' = [held EXCEPT ![p] = @ \cup {n}]
    BY <1>15, ReadDoes
  <2>2. p \in Attached
    BY <2>1 DEF Waiting, Alone
  <2>3. ToSet(wire'[p]) \subseteq ToSet(wire[p]) /\ n \in ToSet(wire[p]) /\ \A q \in Programs \ {p} : wire'[q] = wire[q]
    <3>1. wire[p] \in Seq(0..MaxStops)
      BY <2>1 DEF Shape
    <3>2. wire'[p] = Tail(wire[p]) /\ \A q \in Programs \ {p} : wire'[q] = wire[q]
      BY <2>1 DEF Shape
    <3>3. QED
      BY <2>1, <3>1, <3>2, ToSetOf
  <2>4. \/ UNCHANGED held
        \/ n # 0 /\ held'[p] = held[p] \cup {n} /\ \A q \in Programs \ {p} : held'[q] = held[q]
    <3>1. held \in [Programs -> SUBSET Numbers] /\ 0 \notin Numbers
      BY ServerAssumption DEF Shape, Numbers
    <3> HIDE DEF p, n
    <3>2. QED
      BY <2>1, <3>1
  <2>5. p # None /\ Attached' = Attached
    BY <2>1 DEF Attached
  <2> HIDE DEF p, n
  <2>6. QED
    BY <2>1, <2>2, <2>3, <2>4, <2>5 DEF Connections
<1>16. CASE Slice
  BY <1>16, Shape, SliceDoes, NoCallParts DEF Becomes, Idles, Shape, Connections, Attached
<1>17. CASE TimesOut
  BY <1>17, Shape, TimesOutDoes, NoCallParts DEF Becomes, Idles, Shape, Connections, Attached
<1>18. CASE End
  BY <1>18, Shape, EndDoes, NoCallParts DEF Becomes, Idles, Shape, Connections, Attached
<1>19. CASE Answer
  BY <1>19, Shape, AnswerDoes, NoCallParts DEF Becomes, Idles, Shape, Connections, Attached
<1>20. CASE UNCHANGED vars
  BY <1>20 DEF vars, programs, debuggee, client, Shape, Connections, Attached
<1>21. QED
  BY <1>1, <1>2, <1>3, <1>4, <1>5, <1>6, <1>7, <1>8, <1>9, <1>10, <1>11, <1>12, <1>13, <1>14, <1>15, <1>16, <1>17, <1>18, <1>19, <1>20
  DEF Next, Runs, Calls, Dispatch, Waits

\* A call keeps its debuggee until it is answered.
LEMMA InCallStep == ASSUME Shape, Shape', Going, [Next]_vars PROVE InCall'
<1> USE DEF Going
<1>1. ASSUME NEW p \in Programs, Reach(p) PROVE InCall'
  BY <1>1, Shape DEF Reach, programs, debuggee, client, InCall
<1>2. ASSUME NEW p \in Programs, Announce(p) PROVE InCall'
  BY <1>2, Shape DEF Announce, programs, debuggee, client, InCall
<1>3. ASSUME NEW p \in Programs, Fork(p) PROVE InCall'
  BY <1>3, Shape, ForkDoes, NoCallParts DEF Becomes, Idles, InCall
<1>4. ASSUME NEW p \in Programs, Die(p) PROVE InCall'
  BY <1>4, Shape DEF Die, programs, debuggee, client, InCall
<1>5. CASE CallAboutStop
  <2>1. holds /\ UNCHANGED holds
    BY <1>5, AboutStopDoes
  <2>2. call' = NoCall \/ \E tool \in ByStop : call'.tool = tool
    BY <1>5, AboutStopDoes DEF Becomes
  <2>3. holds' /\ call'.tool # "launch"
    BY <2>1, <2>2, NoCallParts DEF ByStop
  <2>4. QED
    BY <2>3 DEF InCall
<1>6. CASE CallAboutProgram
  <2>1. holds /\ holds' /\ call'.tool # "launch"
    BY <1>6, AboutProgramDoes, NoCallParts DEF Becomes, ByProgram
  <2>2. QED
    BY <2>1 DEF InCall
<1>7. CASE CallSessions
  BY <1>7, Shape, SessionsDoes, NoCallParts DEF Becomes, Idles, InCall
<1>8. CASE CallLaunch
  <2>1. ~holds
    BY <1>8, LaunchDoes
  <2>2. PICK p \in Mains :
           \/ UNCHANGED holds /\ Becomes("launch", None, <<>>, None, {}, {}, {}, {})
           \/ /\ attached' = <<p>> /\ holds' = TRUE
              /\ Becomes("launch", None, <<[kind |-> "read", stop |-> 1]>>, None, {<<p, 1>>}, {}, {}, {})
    BY <1>8, LaunchDoes
  <2>3. QED
    BY <2>1, <2>2 DEF Becomes, InCall, Programs
<1>9. CASE CallTerminate
  BY <1>9, Shape, TerminateDoes, NoCallParts DEF Becomes, Idles, InCall
<1>10. CASE Refuse
  BY <1>10, Shape, RefuseDoes, NoCallParts DEF Becomes, Idles, InCall
<1>11. CASE Lose
  BY <1>11, Shape, LoseDoes, NoCallParts DEF Becomes, Idles, InCall
<1>12. CASE Perform
  BY <1>12, Shape, PerformDoes, NoCallParts DEF Becomes, Idles, InCall
<1>13. CASE StartWait
  BY <1>13, Shape, StartWaitDoes, NoCallParts DEF Becomes, Idles, InCall
<1>14. CASE Look
  <2>1. Idles /\ call.at # None /\ UNCHANGED holds
    BY <1>14, LookDoes
  <2>2. holds /\ call.tool # "launch"
    BY <2>1 DEF InCall, Waiting
  <2>3. QED
    BY <2>1, <2>2 DEF InCall, Idles, Becomes
<1>15. CASE Read
  <2>1. call'.tool = call.tool /\ call.at # None /\ UNCHANGED holds
    BY <1>15, ReadDoes DEF Idles, Becomes
  <2>2. holds /\ call.tool # "launch"
    BY <2>1 DEF InCall, Waiting
  <2>3. QED
    BY <2>1, <2>2 DEF InCall
<1>16. CASE Slice
  BY <1>16, Shape, SliceDoes, NoCallParts DEF Becomes, Idles, InCall
<1>17. CASE TimesOut
  BY <1>17, Shape, TimesOutDoes, NoCallParts DEF Becomes, Idles, InCall
<1>18. CASE End
  BY <1>18, Shape, EndDoes, NoCallParts DEF Becomes, Idles, InCall
<1>19. CASE Answer
  BY <1>19, Shape, AnswerDoes, NoCallParts DEF Becomes, Idles, InCall
<1>20. CASE UNCHANGED vars
  BY <1>20 DEF vars, programs, debuggee, client, InCall
<1>21. QED
  BY <1>1, <1>2, <1>3, <1>4, <1>5, <1>6, <1>7, <1>8, <1>9, <1>10, <1>11, <1>12, <1>13, <1>14, <1>15, <1>16, <1>17, <1>18, <1>19, <1>20
  DEF Next, Runs, Calls, Dispatch, Waits

\* A call asks one thing, and may then wait.
LEMMA AsksStep == ASSUME Shape, Shape', Going, [Next]_vars PROVE Asks'
<1> USE DEF Going
<1>1. ASSUME NEW p \in Programs, Reach(p) PROVE Asks'
  BY <1>1, Shape DEF Reach, programs, debuggee, client, Asks
<1>2. ASSUME NEW p \in Programs, Announce(p) PROVE Asks'
  BY <1>2, Shape DEF Announce, programs, debuggee, client, Asks
<1>3. ASSUME NEW p \in Programs, Fork(p) PROVE Asks'
  BY <1>3, Shape, ForkDoes, NoCallParts DEF Becomes, Idles, Asks
<1>4. ASSUME NEW p \in Programs, Die(p) PROVE Asks'
  BY <1>4, Shape DEF Die, programs, debuggee, client, Asks
<1>5. CASE CallAboutStop
  <2>1. call' = NoCall \/ \E tool \in ByStop \cup ByProgram : \E n : call'.todo = Requests(tool, n) /\ call'.at = None
    BY <1>5, AboutStopDoes DEF Becomes
  <2>2. CASE call' = NoCall
    BY <2>2, NoCallParts DEF Asks
  <2>3. ASSUME NEW tool \in ByStop \cup ByProgram, NEW n, call'.todo = Requests(tool, n) /\ call'.at = None PROVE Asks'
    BY <2>3, RequestsAre DEF Asks, AsksOnce
  <2>4. QED
    BY <2>1, <2>2, <2>3
<1>6. CASE CallAboutProgram
  <2>1. call' = NoCall \/ \E tool \in ByStop \cup ByProgram : \E n : call'.todo = Requests(tool, n) /\ call'.at = None
    BY <1>6, AboutProgramDoes DEF Becomes
  <2>2. CASE call' = NoCall
    BY <2>2, NoCallParts DEF Asks
  <2>3. ASSUME NEW tool \in ByStop \cup ByProgram, NEW n, call'.todo = Requests(tool, n) /\ call'.at = None PROVE Asks'
    BY <2>3, RequestsAre DEF Asks, AsksOnce
  <2>4. QED
    BY <2>1, <2>2, <2>3
<1>7. CASE CallSessions
  BY <1>7, Shape, SessionsDoes, NoCallParts DEF Becomes, Idles, Asks
<1>8. CASE CallLaunch
  BY <1>8, Shape, LaunchDoes, NoCallParts DEF Becomes, Idles, Asks
<1>9. CASE CallTerminate
  BY <1>9, Shape, TerminateDoes, NoCallParts DEF Becomes, Idles, Asks
<1>10. CASE Refuse
  BY <1>10, Shape, RefuseDoes, NoCallParts DEF Becomes, Idles, Asks
<1>11. CASE Lose
  <2>1. \/ call' = NoCall
        \/ /\ Head(call.todo).kind = "run" /\ call.todo # <<>>
           /\ call'.got = call.got /\ call'.todo = Tail(call.todo)
    BY <1>11, LoseDoes DEF Becomes
  <2>2. CASE call' = NoCall
    BY <2>2, NoCallParts DEF Asks
  <2>3. CASE /\ Head(call.todo).kind = "run" /\ call.todo # <<>>
             /\ call'.got = call.got /\ call'.todo = Tail(call.todo)
    BY <2>3, RunsOrWaits, AsksOn
  <2>4. QED
    BY <2>1, <2>2, <2>3
<1>12. CASE Perform
  <2>1. /\ call.todo # <<>> /\ call'.got = call.got /\ call'.todo = Tail(call.todo)
        /\ call'.at = None \/ Head(call.todo).kind = "run"
    BY <1>12, PerformDoes DEF Becomes
  <2>2. QED
    BY <2>1, RunsOrWaits, AsksOn
<1>13. CASE StartWait
  <2>1. /\ call.todo # <<>> /\ call'.got = call.got /\ call'.todo = Tail(call.todo) /\ Head(call.todo).kind = "wait"
    BY <1>13, StartWaitDoes DEF Becomes, StartWait
  <2>2. QED
    BY <2>1, RunsOrWaits, AsksOn
<1>14. CASE Look
  BY <1>14, Shape, LookDoes, NoCallParts DEF Becomes, Idles, Asks
<1>15. CASE Read
  BY <1>15, Shape, ReadDoes, NoCallParts DEF Becomes, Idles, Asks
<1>16. CASE Slice
  BY <1>16, Shape, SliceDoes, NoCallParts DEF Becomes, Idles, Asks
<1>17. CASE TimesOut
  BY <1>17, Shape, TimesOutDoes, NoCallParts DEF Becomes, Idles, Asks
<1>18. CASE End
  BY <1>18, Shape, EndDoes, NoCallParts DEF Becomes, Idles, Asks
<1>19. CASE Answer
  BY <1>19, Shape, AnswerDoes, NoCallParts DEF Becomes, Idles, Asks
<1>20. CASE UNCHANGED vars
  BY <1>20 DEF vars, programs, debuggee, client, Asks
<1>21. QED
  BY <1>1, <1>2, <1>3, <1>4, <1>5, <1>6, <1>7, <1>8, <1>9, <1>10, <1>11, <1>12, <1>13, <1>14, <1>15, <1>16, <1>17, <1>18, <1>19, <1>20
  DEF Next, Runs, Calls, Dispatch, Waits

\* Nobody who joins takes the place of the one that is waited for.
LEMMA WaitingStep == ASSUME Shape, Shape', Going, [Next]_vars PROVE Waiting'
<1> USE DEF Going
<1>1. ASSUME NEW p \in Programs, Reach(p) PROVE Waiting'
  BY <1>1, Shape DEF Reach, programs, debuggee, client, Waiting, Alone, Attached
<1>2. ASSUME NEW p \in Programs, Announce(p) PROVE Waiting'
  BY <1>2, Shape DEF Announce, programs, debuggee, client, Waiting, Alone, Attached
<1>3. ASSUME NEW p \in Programs, Fork(p) PROVE Waiting'
  BY <1>3, Shape, ForkDoes, NoCallParts DEF Becomes, Idles, Waiting, Alone, Attached
<1>4. ASSUME NEW p \in Programs, Die(p) PROVE Waiting'
  BY <1>4, Shape DEF Die, programs, debuggee, client, Waiting, Alone, Attached
<1>5. CASE CallAboutStop
  BY <1>5, Shape, AboutStopDoes, NoCallParts DEF Becomes, Idles, Waiting, Alone, Attached
<1>6. CASE CallAboutProgram
  BY <1>6, Shape, AboutProgramDoes, NoCallParts DEF Becomes, Idles, Waiting, Alone, Attached
<1>7. CASE CallSessions
  BY <1>7, Shape, SessionsDoes, NoCallParts DEF Becomes, Idles, Waiting, Alone, Attached
<1>8. CASE CallLaunch
  BY <1>8, Shape, LaunchDoes, NoCallParts DEF Becomes, Idles, Waiting, Alone, Attached
<1>9. CASE CallTerminate
  BY <1>9, Shape, TerminateDoes, NoCallParts DEF Becomes, Idles, Waiting, Alone, Attached
<1>10. CASE Refuse
  BY <1>10, Shape, RefuseDoes, NoCallParts DEF Becomes, Idles, Waiting, Alone, Attached
<1>11. CASE Lose
  <2>1. PICK p \in AskedOf(call.session, Head(call.todo).stop) :
                /\ p \in Programs /\ call.todo # <<>> /\ UNCHANGED attached
                /\ ReadUpTo(p, {}) \/ UNCHANGED <<wire, held>>
                /\ \/ call' = NoCall
                   \/ /\ Head(call.todo).kind = "run" /\ call'.session = call.session
                      /\ call'.at = p /\ call'.todo = Tail(call.todo) /\ call'.got = call.got
    BY <1>11, LoseDoes DEF Becomes
  <2>2. CASE call' = NoCall
    BY <2>2, NoCallParts DEF Waiting
  <2>3. CASE call' # NoCall
    <3>1. call.got = {} /\ Tail(call.todo) = <<>> /\ Head(call.todo).stop = 0
      BY <2>1, <2>3, RunsOrWaits
    <3>2. p \in OnlySession(call.session)
      BY <2>1, <3>1 DEF AskedOf
    <3>3. Alone(p) /\ p \in Attached
      BY <3>2, OnlyIsAlone DEF Alone
    <3>4. \A q \in Programs \ {p} : held'[q] = held[q]
      BY <2>1, ReadIsTyped
    <3>5. Attached' = Attached
      BY <2>1 DEF Attached
    <3>6. Alone(p)'
      BY <2>1, <2>3, <3>3, <3>4, <3>5, AloneStays
    <3>7. QED
      BY <2>1, <2>3, <3>1, <3>6 DEF Waiting, Alone
  <2>4. QED
    BY <2>2, <2>3
<1>12. CASE Perform
  <2>1. PICK p \in AskedOf(call.session, Head(call.todo).stop), freed \in SUBSET Numbers :
                /\ p \in Programs /\ call.todo # <<>> /\ UNCHANGED attached /\ ReadUpTo(p, freed)
                /\ call'.session = call.session /\ call'.at = IF Head(call.todo).kind = "run" THEN p ELSE None
                /\ call'.todo = Tail(call.todo) /\ call'.got = call.got
    BY <1>12, PerformDoes DEF Becomes
  <2>2. CASE Head(call.todo).kind # "run"
    BY <2>1, <2>2 DEF Waiting
  <2>3. CASE Head(call.todo).kind = "run"
    <3>1. call.got = {} /\ Tail(call.todo) = <<>> /\ Head(call.todo).stop = 0
      BY <2>1, <2>3, RunsOrWaits
    <3>2. p \in OnlySession(call.session)
      BY <2>1, <3>1 DEF AskedOf
    <3>3. Alone(p) /\ p \in Attached
      BY <3>2, OnlyIsAlone DEF Alone
    <3>4. \A q \in Programs \ {p} : held'[q] = held[q]
      BY <2>1, ReadIsTyped
    <3>5. Attached' = Attached
      BY <2>1 DEF Attached
    <3>6. Alone(p)'
      BY <2>1, <3>3, <3>4, <3>5, AloneStays
    <3>7. QED
      BY <2>1, <2>3, <3>1, <3>6 DEF Waiting, Alone
  <2>4. QED
    BY <2>2, <2>3
<1>13. CASE StartWait
  <2>1. PICK p \in OnlySession(call.session) :
                /\ p \in Programs /\ call.todo # <<>> /\ UNCHANGED <<attached, held>>
                /\ call'.session = call.session /\ call'.at = p
                /\ call'.todo = Tail(call.todo) /\ call'.got = call.got
    BY <1>13, StartWaitDoes DEF Becomes
  <2>2. call.got = {} /\ Tail(call.todo) = <<>>
    BY <1>13, <2>1, RunsOrWaits DEF StartWait
  <2>3. Alone(p) /\ p \in Attached
    BY <2>1, OnlyIsAlone DEF Alone
  <2>4. Attached' = Attached
    BY <2>1 DEF Attached
  <2>5. Alone(p)'
    BY <2>1, <2>3, <2>4, AloneStays
  <2>6. QED
    BY <2>1, <2>2, <2>5 DEF Waiting, Alone
<1>14. CASE Look
  <2>1. Idles /\ call.at # None /\ UNCHANGED held
    BY <1>14, LookDoes
  <2>2. call.todo = <<>> /\ call.got = {} /\ Alone(call.at)
    BY <2>1 DEF Waiting
  <2>3. Attached' = Attached \/ \E q : Attached' = Attached \cup {q} /\ held[q] = {}
    BY <1>14, WhoJoins
  <2>4. Alone(call.at)'
    BY <2>1, <2>2, <2>3 DEF Alone, Idles, Becomes
  <2>5. QED
    BY <2>1, <2>2, <2>4 DEF Waiting, Alone, Idles, Becomes
<1>15. CASE Read
  BY <1>15, Shape, ReadDoes, NoCallParts DEF Becomes, Idles, Waiting, Alone, Attached
<1>16. CASE Slice
  BY <1>16, Shape, SliceDoes, NoCallParts DEF Becomes, Idles, Waiting, Alone, Attached
<1>17. CASE TimesOut
  BY <1>17, Shape, TimesOutDoes, NoCallParts DEF Becomes, Idles, Waiting, Alone, Attached
<1>18. CASE End
  BY <1>18, Shape, EndDoes, NoCallParts DEF Becomes, Idles, Waiting, Alone, Attached
<1>19. CASE Answer
  BY <1>19, Shape, AnswerDoes, NoCallParts DEF Becomes, Idles, Waiting, Alone, Attached
<1>20. CASE UNCHANGED vars
  BY <1>20 DEF vars, programs, debuggee, client, Waiting, Alone, Attached
<1>21. QED
  BY <1>1, <1>2, <1>3, <1>4, <1>5, <1>6, <1>7, <1>8, <1>9, <1>10, <1>11, <1>12, <1>13, <1>14, <1>15, <1>16, <1>17, <1>18, <1>19, <1>20
  DEF Next, Runs, Calls, Dispatch, Waits

\* What was returned is there to be read about.
LEMMA ReturnedStep == ASSUME Shape, Shape', Going, [Next]_vars PROVE Returned'
<1> USE DEF Going
<1>1. ASSUME NEW p \in Programs, Reach(p) PROVE Returned'
  <2>1. UNCHANGED <<attached, held, call>>
    BY <1>1, ProgramsDo DEF Runs
  <2>2. Attached' = Attached
    BY <2>1 DEF Attached
  <2>3. QED
    BY <2>1, <2>2, ReturnedStays
<1>2. ASSUME NEW p \in Programs, Announce(p) PROVE Returned'
  <2>1. UNCHANGED <<attached, held, call>>
    BY <1>2, ProgramsDo DEF Runs
  <2>2. Attached' = Attached
    BY <2>1 DEF Attached
  <2>3. QED
    BY <2>1, <2>2, ReturnedStays
<1>3. ASSUME NEW p \in Programs, Fork(p) PROVE Returned'
  <2>1. UNCHANGED <<attached, held, call>>
    BY <1>3, ProgramsDo DEF Runs
  <2>2. Attached' = Attached
    BY <2>1 DEF Attached
  <2>3. QED
    BY <2>1, <2>2, ReturnedStays
<1>4. ASSUME NEW p \in Programs, Die(p) PROVE Returned'
  <2>1. UNCHANGED <<attached, held, call>>
    BY <1>4, ProgramsDo DEF Runs
  <2>2. Attached' = Attached
    BY <2>1 DEF Attached
  <2>3. QED
    BY <2>1, <2>2, ReturnedStays
<1>5. CASE CallAboutStop
  BY <1>5, Shape, AboutStopDoes, NoCallParts DEF Becomes, Idles, Returned
<1>6. CASE CallAboutProgram
  BY <1>6, Shape, AboutProgramDoes, NoCallParts DEF Becomes, Idles, Returned
<1>7. CASE CallSessions
  BY <1>7, Shape, SessionsDoes, NoCallParts DEF Becomes, Idles, Returned
<1>8. CASE CallLaunch
  <2>1. PICK p \in Mains :
           \/ call'.got = {}
           \/ /\ attached' = <<p>> /\ held' = [q \in Programs |-> IF q = p THEN {1} ELSE {}]
              /\ call'.got = {<<p, 1>>} /\ call'.session = None /\ call'.todo = <<[kind |-> "read", stop |-> 1]>>
    BY <1>8, LaunchDoes DEF Becomes
  <2>2. CASE call'.got = {}
    BY <2>2 DEF Returned
  <2>3. CASE /\ attached' = <<p>> /\ held' = [q \in Programs |-> IF q = p THEN {1} ELSE {}]
             /\ call'.got = {<<p, 1>>} /\ call'.session = None /\ call'.todo = <<[kind |-> "read", stop |-> 1]>>
    <3>1. Attached' = {p} /\ held'[p] = {1}
      BY <2>3, ToSetOfOne DEF Attached, Programs
    <3>2. <<p, 1>> \in HeldNow'
      BY <3>1, ServerAssumption DEF HeldNow
    <3>3. Alone(p)'
      BY <2>3, <3>1 DEF Alone
    <3>4. QED
      BY <2>3, <3>2, <3>3 DEF Returned
  <2>4. QED
    BY <2>1, <2>2, <2>3
<1>9. CASE CallTerminate
  BY <1>9, Shape, TerminateDoes, NoCallParts DEF Becomes, Idles, Returned
<1>10. CASE Refuse
  BY <1>10, Shape, RefuseDoes, NoCallParts DEF Becomes, Idles, Returned
<1>11. CASE Lose
  <2>1. call'.got = {}
    BY <1>11, LoseDoes, RunsOrWaits, NoCallParts DEF Becomes
  <2>2. QED
    BY <2>1 DEF Returned
<1>12. CASE Perform
  <2>1. PICK p \in AskedOf(call.session, Head(call.todo).stop), freed \in SUBSET Numbers :
                /\ p \in Programs /\ call.todo # <<>> /\ UNCHANGED attached /\ ReadUpTo(p, freed)
                /\ Head(call.todo).kind \in {"step", "run", "resume"} \/ freed = {}
                /\ call'.session = call.session /\ call'.todo = Tail(call.todo) /\ call'.got = call.got
    BY <1>12, PerformDoes DEF Becomes
  <2>2. CASE call.got = {}
    BY <2>1, <2>2 DEF Returned
  <2>3. CASE call.got # {}
    <3>1. PICK h \in HeldNow : /\ call.got = {h} /\ Head(call.todo).kind \in {"read", "world"}
                               /\ AskedOf(call.session, Head(call.todo).stop) = {h[1]}
      BY <2>1, <2>3, ReturnedReads
    <3>2. freed = {} /\ p = h[1]
      BY <2>1, <3>1
    <3>3. held[p] \subseteq held'[p] /\ \A q \in Programs \ {p} : held'[q] = held[q]
      BY <2>1, <3>2, ReadIsTyped
    <3>4. <<p, h[2]>> \in call.got
      BY <3>1, <3>2 DEF HeldNow
    <3>5. Attached' = Attached
      BY <2>1 DEF Attached
    <3>6. QED
      BY <2>1, <3>3, <3>4, <3>5, ReturnedStays
  <2>4. QED
    BY <2>2, <2>3
<1>13. CASE StartWait
  <2>1. call'.got = call.got /\ call.todo # <<>> /\ Head(call.todo).kind = "wait"
    BY <1>13, StartWaitDoes DEF Becomes, StartWait
  <2>2. QED
    BY <2>1, RunsOrWaits DEF Returned
<1>14. CASE Look
  <2>1. call'.got = call.got /\ call.at # None
    BY <1>14, LookDoes DEF Idles, Becomes, Look
  <2>2. QED
    BY <2>1 DEF Returned, Waiting
<1>15. CASE Read
  <2>1. /\ call.at \in Programs /\ call.at # None /\ Head(wire[call.at]) \in 0..MaxStops
        /\ UNCHANGED attached
        /\ \/ call'.got = call.got
           \/ /\ Head(wire[call.at]) \in Numbers
              /\ held' = [held EXCEPT ![call.at] = @ \cup {Head(wire[call.at])}]
              /\ \A i \in 1..Len(call'.todo) : /\ call'.todo[i].kind \in {"read", "world"}
                                               /\ call'.todo[i].stop = Head(wire[call.at])
              /\ call'.got = call.got \cup {<<call.at, Head(wire[call.at])>>}
              /\ call'.session = call.session
    BY <1>15, ReadDoes DEF Becomes, Idles
  <2>2. PICK p \in Programs, n \in 0..MaxStops : p = call.at /\ n = Head(wire[call.at])
    BY <2>1
  <2>3. call.got = {} /\ Alone(p) /\ p \in Attached
    BY <2>1, <2>2 DEF Waiting, Alone
  <2>4. CASE call'.got = call.got
    BY <2>3, <2>4 DEF Returned
  <2>5. CASE call'.got # call.got
    <3>1. /\ n \in Numbers /\ call'.got = {<<p, n>>} /\ call'.session = call.session
          /\ held'[p] = held[p] \cup {n} /\ \A q \in Programs \ {p} : held'[q] = held[q]
      BY <2>1, <2>2, <2>3, <2>5 DEF Shape
    <3>2. Attached' = Attached
      BY <2>1 DEF Attached
    <3>3. Alone(p)'
      BY <2>3, <3>1, <3>2, AloneStays
    <3>4. <<p, n>> \in HeldNow'
      BY <2>3, <3>1, <3>2 DEF HeldNow, Numbers
    <3>5. \A i \in 1..Len(call'.todo) : call'.todo[i].kind \in {"read", "world"} /\ call'.todo[i].stop = n
      BY <2>1, <2>2, <2>5
    <3>6. QED
      BY <3>1, <3>3, <3>4, <3>5 DEF Returned
  <2>6. QED
    BY <2>4, <2>5
<1>16. CASE Slice
  <2>1. call'.got = call.got /\ call.at # None
    BY <1>16, SliceDoes DEF Idles, Becomes, Slice
  <2>2. QED
    BY <2>1 DEF Returned, Waiting
<1>17. CASE TimesOut
  <2>1. call'.got = call.got /\ call.at # None
    BY <1>17, TimesOutDoes DEF Idles, Becomes, TimesOut
  <2>2. QED
    BY <2>1 DEF Returned, Waiting
<1>18. CASE End
  <2>1. call'.got = call.got /\ call.at # None
    BY <1>18, EndDoes DEF Idles, Becomes, End
  <2>2. QED
    BY <2>1 DEF Returned, Waiting
<1>19. CASE Answer
  BY <1>19, Shape, AnswerDoes, NoCallParts DEF Becomes, Idles, Returned
<1>20. CASE UNCHANGED vars
  <2>1. UNCHANGED <<attached, held, call>>
    BY <1>20 DEF vars, debuggee
  <2>2. Attached' = Attached /\ HeldNow' = HeldNow
    BY <2>1 DEF Attached, HeldNow
  <2>3. QED
    BY <2>1, <2>2 DEF Returned, Alone
<1>21. QED
  BY <1>1, <1>2, <1>3, <1>4, <1>5, <1>6, <1>7, <1>8, <1>9, <1>10, <1>11, <1>12, <1>13, <1>14, <1>15, <1>16, <1>17, <1>18, <1>19, <1>20
  DEF Next, Runs, Calls, Dispatch, Waits

\* Where there is one session the client knows it.
LEMMA OneIsKnownStep == ASSUME Shape, Shape', Going, [Next]_vars PROVE OneIsKnown'
<1> USE DEF Going
<1>1. ASSUME NEW p \in Programs, Reach(p) PROVE OneIsKnown'
  BY <1>1, Shape DEF Reach, programs, debuggee, client, Shape, OneIsKnown
<1>2. ASSUME NEW p \in Programs, Announce(p) PROVE OneIsKnown'
  BY <1>2, Shape DEF Announce, programs, debuggee, client, Shape, OneIsKnown
<1>3. ASSUME NEW p \in Programs, Fork(p) PROVE OneIsKnown'
  BY <1>3, Shape, ForkDoes, NoCallParts DEF Becomes, Idles, Shape, OneIsKnown
<1>4. ASSUME NEW p \in Programs, Die(p) PROVE OneIsKnown'
  BY <1>4, Shape DEF Die, programs, debuggee, client, Shape, OneIsKnown
<1>5. CASE CallAboutStop
  BY <1>5, Shape, AboutStopDoes, NoCallParts DEF Becomes, Idles, Shape, OneIsKnown
<1>6. CASE CallAboutProgram
  BY <1>6, Shape, AboutProgramDoes, NoCallParts DEF Becomes, Idles, Shape, OneIsKnown
<1>7. CASE CallSessions
  BY <1>7, Shape, SessionsDoes, NoCallParts DEF Becomes, Idles, Shape, OneIsKnown
<1>8. CASE CallLaunch
  BY <1>8, Shape, LaunchDoes, NoCallParts DEF Becomes, Idles, Shape, OneIsKnown
<1>9. CASE CallTerminate
  BY <1>9, Shape, TerminateDoes, NoCallParts DEF Becomes, Idles, Shape, OneIsKnown
<1>10. CASE Refuse
  <2>1. UNCHANGED <<holds, attached, life, seen>> /\ call.todo # <<>>
    BY <1>10, RefuseDoes
  <2>2. call.tool = "launch" => ~holds
    BY <1>10, ReturnedIsNotRefused DEF InCall
  <2>3. QED
    BY <2>1, <2>2 DEF OneIsKnown
<1>11. CASE Lose
  <2>1. PICK p \in AskedOf(call.session, Head(call.todo).stop) :
                /\ p \in Programs /\ life[p] = "gone" /\ call.todo # <<>>
                /\ UNCHANGED <<holds, attached, life, seen>>
                /\ call' = NoCall \/ call'.tool = call.tool
    BY <1>11, LoseDoes DEF Becomes
  <2>2. CASE call'.tool = call.tool \/ call.tool # "launch" \/ ~holds
    BY <2>1, <2>2 DEF OneIsKnown
  <2>3. CASE call.tool = "launch" /\ holds
    <3>1. p \in Attached
      BY <2>1, FirstAsked, AskedIsAttached
    <3>2. \A q \in Programs : attached = <<q>> => q = p
      BY <3>1, AttachedIsOne
    <3>3. QED
      BY <2>1, <3>2 DEF OneIsKnown
  <2>4. QED
    BY <2>2, <2>3
<1>12. CASE Perform
  BY <1>12, Shape, PerformDoes, NoCallParts DEF Becomes, Idles, Shape, OneIsKnown
<1>13. CASE StartWait
  BY <1>13, Shape, StartWaitDoes, NoCallParts DEF Becomes, Idles, Shape, OneIsKnown
<1>14. CASE Look
  <2>1. Idles /\ call.at # None /\ UNCHANGED <<holds, seen>>
    BY <1>14, LookDoes
  <2>2. CASE UNCHANGED <<life, attached>>
    BY <2>1, <2>2 DEF OneIsKnown, Idles, Becomes
  <2>3. CASE ~UNCHANGED <<life, attached>>
    <3>1. PICK q \in Programs \ Attached : attached' = Append(attached, q)
      BY <1>14, <2>3, WhoJoins
    <3>2. call.at \in Attached
      BY <2>1 DEF Waiting, Alone
    <3>3. Len(attached) \in Nat /\ Len(attached) # 0
      BY <3>2 DEF Attached, ToSet, Shape
    <3>4. Len(attached') = Len(attached) + 1
      BY <3>1 DEF Shape
    <3>5. \A p \in Programs : attached' # <<p>>
      BY <3>3, <3>4
    <3>6. QED
      BY <3>5 DEF OneIsKnown
  <2>4. QED
    BY <2>2, <2>3
<1>15. CASE Read
  BY <1>15, Shape, ReadDoes, NoCallParts DEF Becomes, Idles, Shape, OneIsKnown
<1>16. CASE Slice
  BY <1>16, Shape, SliceDoes, NoCallParts DEF Becomes, Idles, Shape, OneIsKnown
<1>17. CASE TimesOut
  BY <1>17, Shape, TimesOutDoes, NoCallParts DEF Becomes, Idles, Shape, OneIsKnown
<1>18. CASE End
  BY <1>18, Shape, EndDoes, NoCallParts DEF Becomes, Idles, Shape, OneIsKnown
<1>19. CASE Answer
  <2>1. /\ UNCHANGED <<life, attached, holds>> /\ seen \subseteq seen'
        /\ \A h \in call.got : h[1] \in seen'
    BY <1>19, AnswerDoes
  <2>2. CASE call.tool # "launch" \/ ~holds
    BY <2>1, <2>2 DEF OneIsKnown
  <2>3. CASE call.tool = "launch" /\ holds
    <3>1. PICK p \in Programs : attached = <<p>> /\ call.got = {<<p, 1>>}
      BY <2>3 DEF InCall
    <3>2. p \in seen'
      BY <2>1, <3>1
    <3>3. \A q \in Programs : attached = <<q>> => q = p
      BY <3>1
    <3>4. QED
      BY <2>1, <3>2, <3>3 DEF OneIsKnown
  <2>4. QED
    BY <2>2, <2>3
<1>20. CASE UNCHANGED vars
  BY <1>20 DEF vars, programs, debuggee, client, Shape, OneIsKnown
<1>21. QED
  BY <1>1, <1>2, <1>3, <1>4, <1>5, <1>6, <1>7, <1>8, <1>9, <1>10, <1>11, <1>12, <1>13, <1>14, <1>15, <1>16, <1>17, <1>18, <1>19, <1>20
  DEF Next, Runs, Calls, Dispatch, Waits

\* Who joins is told of, or will be.
LEMMA JoinedStep == ASSUME Shape, Shape', Going, [Next]_vars PROVE Joined'
<1> USE DEF Going
<1>1. ASSUME NEW p \in Programs, Reach(p) PROVE Joined'
  BY <1>1, Shape DEF Reach, programs, debuggee, client, Joined, Attached
<1>2. ASSUME NEW p \in Programs, Announce(p) PROVE Joined'
  BY <1>2, Shape DEF Announce, programs, debuggee, client, Joined, Attached
<1>3. ASSUME NEW p \in Programs, Fork(p) PROVE Joined'
  BY <1>3, Shape, ForkDoes, NoCallParts DEF Becomes, Idles, Joined, Attached
<1>4. ASSUME NEW p \in Programs, Die(p) PROVE Joined'
  BY <1>4, Shape DEF Die, programs, debuggee, client, Joined, Attached
<1>5. CASE CallAboutStop
  BY <1>5, Shape, AboutStopDoes, NoCallParts DEF Becomes, Idles, Joined, Attached
<1>6. CASE CallAboutProgram
  BY <1>6, Shape, AboutProgramDoes, NoCallParts DEF Becomes, Idles, Joined, Attached
<1>7. CASE CallSessions
  BY <1>7, Shape, SessionsDoes, NoCallParts DEF Becomes, Idles, Joined, Attached
<1>8. CASE CallLaunch
  <2>1. PICK p \in Mains : \/ UNCHANGED holds /\ ~holds
                           \/ attached' = <<p>>
    BY <1>8, LaunchDoes
  <2>2. attached' = <<p>> => Attached' = {p}
    BY ToSetOfOne DEF Attached
  <2>3. QED
    BY <2>1, <2>2 DEF Joined
<1>9. CASE CallTerminate
  BY <1>9, Shape, TerminateDoes, NoCallParts DEF Becomes, Idles, Joined, Attached
<1>10. CASE Refuse
  BY <1>10, Shape, RefuseDoes, NoCallParts DEF Becomes, Idles, Joined, Attached
<1>11. CASE Lose
  BY <1>11, Shape, LoseDoes, NoCallParts DEF Becomes, Idles, Joined, Attached
<1>12. CASE Perform
  BY <1>12, Shape, PerformDoes, NoCallParts DEF Becomes, Idles, Joined, Attached
<1>13. CASE StartWait
  BY <1>13, Shape, StartWaitDoes, NoCallParts DEF Becomes, Idles, Joined, Attached
<1>14. CASE Look
  <2>1. UNCHANGED <<holds, seen>>
    BY <1>14, LookDoes
  <2>2. \/ Attached' = Attached /\ joined' = joined
        \/ \E q : Attached' = Attached \cup {q} /\ joined' = joined \cup {q}
    BY <1>14, WhoJoins
  <2>3. QED
    BY <2>1, <2>2 DEF Joined
<1>15. CASE Read
  BY <1>15, Shape, ReadDoes, NoCallParts DEF Becomes, Idles, Joined, Attached
<1>16. CASE Slice
  BY <1>16, Shape, SliceDoes, NoCallParts DEF Becomes, Idles, Joined, Attached
<1>17. CASE TimesOut
  BY <1>17, Shape, TimesOutDoes, NoCallParts DEF Becomes, Idles, Joined, Attached
<1>18. CASE End
  BY <1>18, Shape, EndDoes, NoCallParts DEF Becomes, Idles, Joined, Attached
<1>19. CASE Answer
  BY <1>19, Shape, AnswerDoes, NoCallParts DEF Becomes, Idles, Joined, Attached
<1>20. CASE UNCHANGED vars
  BY <1>20 DEF vars, programs, debuggee, client, Joined, Attached
<1>21. QED
  BY <1>1, <1>2, <1>3, <1>4, <1>5, <1>6, <1>7, <1>8, <1>9, <1>10, <1>11, <1>12, <1>13, <1>14, <1>15, <1>16, <1>17, <1>18, <1>19, <1>20
  DEF Next, Runs, Calls, Dispatch, Waits


-----------------------------------------------------------------------------
(***************************************************************************)
(* What a client that is sure asks is asked where it means.                *)
(***************************************************************************)

\* Asked about a stop of its caller's, the server asks who holds that one.
LEMMA AskedIsMeant ==
    ASSUME Shape, NEW h \in HeldNow, NEW named \in {None, h[1]}, NEW p \in AskedOf(named, h[2])
    PROVE  <<p, h[2]>> = h
<1>1. /\ h[1] \in Attached /\ h[2] \in Numbers /\ h[2] # 0 /\ h[2] \in held[h[1]] /\ h = <<h[1], h[2]>>
      /\ h[1] \in Programs
  BY AttachedIsFinite, ServerAssumption DEF HeldNow, Numbers, Shape
<1>2. CASE Of(h[2]) # None
  <2>1. Of(h[2]) = h[1]
    BY <1>1, <1>2, OfIsTheHolder
  <2>2. p = h[1]
    BY <1>1, <1>2, <2>1 DEF AskedOf
  <2>3. QED
    BY <1>1, <2>2
<1>3. CASE Of(h[2]) = None
  <2>1. p \in OnlySession(named)
    BY <1>1, <1>3 DEF AskedOf
  <2>2. CASE named # None
    BY <1>1, <2>1, <2>2 DEF OnlySession
  <2>3. CASE named = None
    <3>1. Len(attached) = 1 /\ p \in Attached
      BY <2>1, <2>3 DEF OnlySession
    <3>2. p = h[1]
      BY <1>1, <3>1, OneAttached DEF Shape
    <3>3. QED
      BY <1>1, <3>2
  <2>4. QED
    BY <2>2, <2>3
<1>4. QED
  BY <1>2, <1>3

\* The stop a call is about is one its caller takes to be held.
LEMMA StopIsMeant ==
    ASSUME Shape, NEW bel \in SUBSET HeldNow, NEW named, NEW n \in 0..MaxStops,
           {h \in bel : named \in {None, h[1]} /\ n \in {0, h[2]}} # {}, NEW s \in StopOf(named, n)
    PROVE  \E h \in bel : named \in {None, h[1]} /\ n \in {0, h[2]} /\ h[2] = s
<1>1. PICK h \in bel : named \in {None, h[1]} /\ n \in {0, h[2]}
  OBVIOUS
<1>2. CASE n # 0
  BY <1>1, <1>2 DEF StopOf
<1>3. CASE n = 0
  <2> DEFINE in == {k \in HeldNow : named \in {None, k[1]}}
  <2>1. Cardinality(in) = 1 /\ s \in {k[2] : k \in in}
    BY <1>3 DEF StopOf
  <2>2. IsFiniteSet(in)
    <3>1. IsFiniteSet(Attached \X (1..MaxStops))
      <4>1. IsFiniteSet(Attached)
        BY AttachedIsFinite DEF Shape
      <4>2. IsFiniteSet(1..MaxStops)
        BY FS_Interval, ServerAssumption
      <4>3. QED
        BY <4>1, <4>2, FS_Product
    <3>2. in \subseteq Attached \X (1..MaxStops)
      BY DEF HeldNow
    <3>3. QED
      BY <3>1, <3>2, FS_Subset
  <2>3. PICK k : in = {k}
    BY <2>1, <2>2, FS_Singleton
  <2>4. h \in in
    BY <1>1
  <2>5. h[2] = s
    <3>1. h = k
      BY <2>3, <2>4
    <3> HIDE DEF in
    <3>2. QED
      BY <2>1, <2>3, <3>1
  <2>6. QED
    BY <1>1, <2>5
<1>4. QED
  BY <1>2, <1>3

\* What a client that is sure calls held is, once it calls.
LEMMA SureOfHeld ==
    ASSUME Shape, Sure, call = NoCall, ~unsure
    PROVE  believed \subseteq HeldNow /\ (~holds => believed = {})
  BY NoCallParts DEF Sure

\* A client goes on being sure of what is not let go.
LEMMA SureGoesOn ==
    ASSUME Shape, Shape', Sure, UNCHANGED <<holds, believed>>, unsure' = unsure, Attached \subseteq Attached',
           call.freed \subseteq call'.freed,
           \A q \in Programs : \A n \in held[q] : n \in held'[q] \/ <<q, n>> \in call'.freed
    PROVE  Sure'
<1>1. HeldNow \ call'.freed \subseteq HeldNow'
  <2> DEFINE gone == call'.freed
  <2>1. \A h \in HeldNow : h \notin gone => h \in HeldNow'
    <3>1. ASSUME NEW h \in HeldNow, h \notin gone PROVE h \in HeldNow'
      <4>1. h[1] \in Attached /\ h[1] \in Programs /\ h[2] \in 1..MaxStops /\ h[2] \in held[h[1]] /\ h = <<h[1], h[2]>>
        BY AttachedIsFinite DEF HeldNow, Shape
      <4>2. h[2] \in held'[h[1]]
        BY <3>1, <4>1
      <4>3. QED
        BY <4>1, <4>2 DEF HeldNow
    <3>2. QED
      BY <3>1
  <2>2. QED
    BY <2>1
<1>2. QED
  BY <1>1 DEF Sure

\* What a client is sure of.
LEMMA SureStep == ASSUME Shape, Shape', Going, Sure, [Next]_vars PROVE Sure'
<1> USE DEF Going
<1>1. ASSUME NEW p \in Programs, Reach(p) PROVE Sure'
  <2>1. /\ UNCHANGED <<attached, holds, believed, unsure>> /\ call.freed \subseteq call'.freed
        /\ UNCHANGED held
    BY <1>1, ProgramsDo DEF Runs, Becomes, Idles
  <2>2. Attached' = Attached
    BY <2>1 DEF Attached
  <2>3. QED
    BY <2>1, <2>2, SureGoesOn
<1>2. ASSUME NEW p \in Programs, Announce(p) PROVE Sure'
  <2>1. /\ UNCHANGED <<attached, holds, believed, unsure>> /\ call.freed \subseteq call'.freed
        /\ UNCHANGED held
    BY <1>2, ProgramsDo DEF Runs, Becomes, Idles
  <2>2. Attached' = Attached
    BY <2>1 DEF Attached
  <2>3. QED
    BY <2>1, <2>2, SureGoesOn
<1>3. ASSUME NEW p \in Programs, Fork(p) PROVE Sure'
  <2>1. /\ UNCHANGED <<attached, holds, believed, unsure>> /\ call.freed \subseteq call'.freed
        /\ UNCHANGED held
    BY <1>3, ProgramsDo DEF Runs, Becomes, Idles
  <2>2. Attached' = Attached
    BY <2>1 DEF Attached
  <2>3. QED
    BY <2>1, <2>2, SureGoesOn
<1>4. ASSUME NEW p \in Programs, Die(p) PROVE Sure'
  <2>1. /\ UNCHANGED <<attached, holds, believed, unsure>> /\ call.freed \subseteq call'.freed
        /\ UNCHANGED held
    BY <1>4, ProgramsDo DEF Runs, Becomes, Idles
  <2>2. Attached' = Attached
    BY <2>1 DEF Attached
  <2>3. QED
    BY <2>1, <2>2, SureGoesOn
<1>5. CASE CallAboutStop
  <2>1. UNCHANGED <<attached, held, holds, believed>> /\ call.freed \subseteq call'.freed
    BY <1>5, AboutStopDoes, NoCallParts DEF Becomes
  <2>2. unsure' = unsure \/ unsure' = TRUE
    BY <1>5, AboutStopDoes
  <2>3. CASE unsure' = unsure
    <3>1. Attached' = Attached
      BY <2>1 DEF Attached
    <3>2. QED
      BY <2>1, <2>3, <3>1, SureGoesOn
  <2>4. CASE unsure' = TRUE
    BY <2>4 DEF Sure
  <2>5. QED
    BY <2>2, <2>3, <2>4
<1>6. CASE CallAboutProgram
  <2>1. /\ UNCHANGED <<attached, holds, believed, unsure>> /\ call.freed \subseteq call'.freed
        /\ UNCHANGED held
    BY <1>6, AboutProgramDoes, NoCallParts DEF Becomes, Idles
  <2>2. Attached' = Attached
    BY <2>1 DEF Attached
  <2>3. QED
    BY <2>1, <2>2, SureGoesOn
<1>7. CASE CallSessions
  <2>1. /\ UNCHANGED <<attached, holds, believed, unsure>> /\ call.freed \subseteq call'.freed
        /\ UNCHANGED held
    BY <1>7, SessionsDoes, NoCallParts DEF Becomes, Idles
  <2>2. Attached' = Attached
    BY <2>1 DEF Attached
  <2>3. QED
    BY <2>1, <2>2, SureGoesOn
<1>8. CASE CallLaunch
  <2>1. ~holds /\ UNCHANGED <<believed, unsure>> /\ call = NoCall
    BY <1>8, LaunchDoes
  <2>2. CASE ~unsure
    BY <2>1, <2>2, SureOfHeld DEF Sure
  <2>3. CASE unsure
    BY <2>1, <2>3 DEF Sure
  <2>4. QED
    BY <2>2, <2>3
<1>9. CASE CallTerminate
  <2>1. UNCHANGED <<attached, held, believed>> /\ call = NoCall
    BY <1>9, TerminateDoes
  <2>2. Attached' = Attached /\ HeldNow' = HeldNow
    BY <2>1 DEF Attached, HeldNow
  <2>3. CASE unsure' = TRUE
    BY <2>3 DEF Sure
  <2>4. CASE unsure' # TRUE
    <3>1. PICK p \in Attached : /\ p \in Programs /\ unsure' = unsure /\ holds' = (Len(attached) > 1)
                                /\ call'.freed = {p} \X Numbers
      BY <1>9, <2>4, TerminateDoes DEF Becomes
    <3>2. ~unsure /\ believed \subseteq HeldNow
      BY <2>1, <2>4, <3>1, SureOfHeld DEF Shape
    <3>3. CASE holds'
      BY <2>1, <2>2, <3>2, <3>3 DEF Sure
    <3>4. CASE ~holds'
      <4>1. ~(Len(attached) > 1)
        BY ZenonT(40), <3>1, <3>4
      <4>2. Len(attached) = 1
        <5>1. attached \in Seq(Programs)
          BY DEF Shape
        <5>2. Len(attached) \in Nat /\ Attached = {attached[i] : i \in 1..Len(attached)}
          BY <5>1 DEF Attached, ToSet
        <5>3. Len(attached) \in Nat /\ Len(attached) # 0
          BY <3>1, <5>2
        <5>4. PICK l \in Nat : l = Len(attached)
          BY <5>3
        <5>5. ~(l > 1) /\ l # 0
          BY <4>1, <5>3, <5>4
        <5>6. l = 1
          BY <5>5
        <5>7. QED
          BY <5>4, <5>6
      <4>3. Attached = {p}
        BY <4>2, OneAttached DEF Shape
      <4>4. HeldNow \subseteq {p} \X Numbers
        BY <4>3 DEF HeldNow, Numbers
      <4>5. QED
        BY <2>1, <3>1, <3>2, <4>4 DEF Sure
    <3>5. QED
      BY <3>3, <3>4
  <2>5. QED
    BY <2>3, <2>4
<1>10. CASE Refuse
  BY <1>10, RefuseDoes DEF Sure
<1>11. CASE Lose
  <2>1. PICK p \in Programs :
             /\ UNCHANGED <<attached, holds, believed>> /\ (ReadUpTo(p, {}) \/ UNCHANGED <<wire, held>>)
             /\ unsure' = TRUE \/ (unsure' = unsure /\ call.freed \subseteq call'.freed)
    BY <1>11, LoseDoes DEF Becomes
  <2>2. CASE unsure' = TRUE
    BY <2>2 DEF Sure
  <2>3. CASE unsure' = unsure /\ call.freed \subseteq call'.freed
    <3>1. Attached' = Attached
      BY <2>1 DEF Attached
    <3>2. \A q \in Programs : held[q] \subseteq held'[q]
      BY <2>1, ReadIsTyped
    <3>3. QED
      BY <2>1, <2>3, <3>1, <3>2, SureGoesOn
  <2>4. QED
    BY <2>1, <2>2, <2>3
<1>12. CASE Perform
  <2>1. PICK p \in Programs, freed \in SUBSET Numbers :
             /\ UNCHANGED <<attached, holds, believed, unsure>> /\ ReadUpTo(p, freed)
             /\ call'.freed = call.freed \cup {p} \X freed
    BY <1>12, PerformDoes DEF Becomes
  <2>2. Attached' = Attached
    BY <2>1 DEF Attached
  <2>3. \A q \in Programs : \A n \in held[q] : n \in held'[q] \/ (q = p /\ n \in freed)
    BY <2>1, ReadIsTyped
  <2>4. call.freed \subseteq call'.freed /\ \A n \in freed : <<p, n>> \in call'.freed
    BY <2>1
  <2>5. QED
    BY <2>1, <2>2, <2>3, <2>4, SureGoesOn
<1>13. CASE StartWait
  <2>1. /\ UNCHANGED <<attached, holds, believed, unsure>> /\ call.freed \subseteq call'.freed
        /\ UNCHANGED held
    BY <1>13, StartWaitDoes, NoCallParts DEF Becomes, Idles
  <2>2. Attached' = Attached
    BY <2>1 DEF Attached
  <2>3. QED
    BY <2>1, <2>2, SureGoesOn
<1>14. CASE Look
  <2>1. UNCHANGED <<held, holds, believed, unsure>> /\ call.freed = call'.freed
    BY <1>14, LookDoes DEF Becomes, Idles
  <2>2. Attached \subseteq Attached'
    BY <1>14, WhoJoins
  <2>3. QED
    BY <2>1, <2>2, SureGoesOn
<1>15. CASE Read
  <2>1. UNCHANGED <<attached, holds, believed, unsure>> /\ call.freed = call'.freed
    BY <1>15, ReadDoes DEF Becomes, Idles
  <2>2. UNCHANGED held \/ \E n : call.at \in Programs /\ held' = [held EXCEPT ![call.at] = @ \cup {n}]
    BY <1>15, ReadDoes
  <2>3. \A q \in Programs : held[q] \subseteq held'[q]
    BY <2>2 DEF Shape
  <2>4. Attached' = Attached
    BY <2>1 DEF Attached
  <2>5. QED
    BY <2>1, <2>3, <2>4, SureGoesOn
<1>16. CASE Slice
  <2>1. /\ UNCHANGED <<attached, holds, believed, unsure>> /\ call.freed \subseteq call'.freed
        /\ UNCHANGED held
    BY <1>16, SliceDoes, NoCallParts DEF Becomes, Idles
  <2>2. Attached' = Attached
    BY <2>1 DEF Attached
  <2>3. QED
    BY <2>1, <2>2, SureGoesOn
<1>17. CASE TimesOut
  <2>1. /\ UNCHANGED <<attached, holds, believed, unsure>> /\ call.freed \subseteq call'.freed
        /\ UNCHANGED held
    BY <1>17, TimesOutDoes, NoCallParts DEF Becomes, Idles
  <2>2. Attached' = Attached
    BY <2>1 DEF Attached
  <2>3. QED
    BY <2>1, <2>2, SureGoesOn
<1>18. CASE End
  <2>1. /\ UNCHANGED <<attached, holds, believed, unsure>> /\ call.freed \subseteq call'.freed
        /\ UNCHANGED held
    BY <1>18, EndDoes, NoCallParts DEF Becomes, Idles
  <2>2. Attached' = Attached
    BY <2>1 DEF Attached
  <2>3. QED
    BY <2>1, <2>2, SureGoesOn
<1>19. CASE Answer
  <2>1. UNCHANGED <<attached, held, holds>> /\ call'.freed = {}
    BY <1>19, AnswerDoes, NoCallParts
  <2>2. HeldNow' = HeldNow
    BY <2>1 DEF Attached, HeldNow
  <2>3. call.got \subseteq HeldNow /\ (call.got # {} => holds)
    BY DEF Returned, InCall
  <2>4. \/ unsure' = FALSE /\ believed' = call.got \cup IF holds THEN HeldNow ELSE {}
        \/ unsure' = unsure /\ believed' = call.got \cup (believed \ call.freed)
    BY <1>19, AnswerDoes
  <2>5. QED
    BY <2>1, <2>2, <2>3, <2>4 DEF Sure
<1>20. CASE UNCHANGED vars
  <2>1. /\ UNCHANGED <<attached, holds, believed, unsure>> /\ call.freed \subseteq call'.freed
        /\ UNCHANGED held
    BY <1>20 DEF vars, debuggee, client
  <2>2. Attached' = Attached
    BY <2>1 DEF Attached
  <2>3. QED
    BY <2>1, <2>2, SureGoesOn
<1>21. QED
  BY <1>1, <1>2, <1>3, <1>4, <1>5, <1>6, <1>7, <1>8, <1>9, <1>10, <1>11, <1>12, <1>13, <1>14, <1>15, <1>16, <1>17, <1>18, <1>19, <1>20
  DEF Next, Runs, Calls, Dispatch, Waits

\* A second request is a wait.
LEMMA WaitIsLeft ==
    ASSUME Shape, Going,
           call' = NoCall \/ (call.todo # <<>> /\ call'.todo = Tail(call.todo) /\ call'.got = call.got)
    PROVE  AsksAsMeant'
<1>1. CASE call' = NoCall
  BY <1>1, NoCallParts DEF AsksAsMeant
<1>2. CASE /\ call.todo # <<>> /\ call'.todo = Tail(call.todo) /\ call'.got = call.got
           /\ call.got = {} /\ Tail(call.todo) # <<>>
  <2>1. call.todo \in Seq(ARequest) /\ AsksOnce(call.todo)
    BY <1>2 DEF Going, Asks, Shape, ACall
  <2>2. Tail(call.todo)[1].kind = "wait"
    BY <1>2, <2>1, WaitsAfter
  <2>3. QED
    BY <1>2, <2>2 DEF AsksAsMeant
<1>3. CASE call'.got # {} \/ call'.todo = <<>>
  BY <1>3 DEF AsksAsMeant
<1>4. QED
  BY <1>1, <1>2, <1>3

\* The same sessions holding the same are asked.
LEMMA MeantStays ==
    ASSUME Shape, AsksAsMeant, UNCHANGED <<attached, held, call>>,
           \A q \in Programs : life'[q] = "open" => life[q] = "open"
    PROVE  AsksAsMeant'
<1>1. Attached' = Attached
  BY DEF Attached
<1>2. AskedOf(call.session, call.todo[1].stop)' = AskedOf(call.session, call.todo[1].stop)
  BY <1>1 DEF AskedOf, Of, OnlySession
<1>3. SUFFICES ASSUME call.got = {}, call.todo # <<>>, call.todo[1].kind # "wait" PROVE Meant(call.todo[1])'
  BY DEF AsksAsMeant
<1>4. Meant(call.todo[1])
  BY <1>3 DEF AsksAsMeant
<1>5. \A p \in AskedOf(call.session, call.todo[1].stop) : p \in Programs
  BY <1>3, FirstAsked, AskedIsAttached
<1>6. QED
  BY <1>2, <1>4, <1>5 DEF Meant

\* Who is asked is meant, where a client that failed reads what is held.
LEMMA MeantStep == ASSUME Resyncs, Shape, Shape', Going, Sure, AsksAsMeant, [Next]_vars PROVE AsksAsMeant'
<1> USE DEF Going
<1>1. ASSUME NEW p \in Programs, Reach(p) PROVE AsksAsMeant'
  <2>1. UNCHANGED <<attached, held, call>> /\ \A q \in Programs : life'[q] = "open" => life[q] = "open"
    BY <1>1 DEF Reach, debuggee, Shape
  <2>2. QED
    BY <2>1, MeantStays
<1>2. ASSUME NEW p \in Programs, Announce(p) PROVE AsksAsMeant'
  <2>1. UNCHANGED <<attached, held, call>> /\ \A q \in Programs : life'[q] = "open" => life[q] = "open"
    BY <1>2 DEF Announce, debuggee, Shape
  <2>2. QED
    BY <2>1, MeantStays
<1>3. ASSUME NEW p \in Programs, Fork(p) PROVE AsksAsMeant'
  <2>1. UNCHANGED <<attached, held, call>> /\ \A q \in Programs : life'[q] = "open" => life[q] = "open"
    BY <1>3 DEF Fork, debuggee, Shape
  <2>2. QED
    BY <2>1, MeantStays
<1>4. ASSUME NEW p \in Programs, Die(p) PROVE AsksAsMeant'
  <2>1. UNCHANGED <<attached, held, call>> /\ \A q \in Programs : life'[q] = "open" => life[q] = "open"
    BY <1>4 DEF Die, debuggee, Shape
  <2>2. QED
    BY <2>1, MeantStays
<1>5. CASE CallAboutStop
  <2>1. call = NoCall /\ holds /\ UNCHANGED <<life, attached, held, believed>>
    BY <1>5, AboutStopDoes
  <2>2. CASE call' = NoCall
    BY <2>2, NoCallParts DEF AsksAsMeant
  <2>3. CASE call' # NoCall
    <3>1. ~unsure
      BY <1>5, <2>3, AboutStopDoes
    <3>2. believed \subseteq HeldNow
      BY <2>1, <3>1, SureOfHeld
    <3>3. PICK tool \in ByStop, named \in seen \cup {None}, s \in Numbers, meant \in SUBSET HeldNow :
             /\ \E h \in meant : named \in {None, h[1]} /\ h[2] = s
             /\ call'.session = named /\ call'.todo = Requests(tool, s) /\ call'.meant = meant
      <4>1. PICK tool \in ByStop, named \in seen \cup {None}, n \in 0..MaxStops :
                   LET meant == {h \in believed : named \in {None, h[1]} /\ n \in {0, h[2]}}
                   IN /\ meant # {}
                      /\ \E s \in StopOf(named, n) :
                            Becomes(tool, named, Requests(tool, s), None, {}, {}, {}, meant)
        BY ZenonT(40), <1>5, <2>3, AboutStopDoes
      <4> DEFINE meant == {h \in believed : named \in {None, h[1]} /\ n \in {0, h[2]}}
      <4>2. PICK s \in StopOf(named, n) : Becomes(tool, named, Requests(tool, s), None, {}, {}, {}, meant)
        BY ZenonT(40), <4>1
      <4>3. meant # {}
        BY ZenonT(40), <4>1
      <4>4. s \in Numbers
        BY StopOfIsTyped
      <4>5. \E h \in believed : named \in {None, h[1]} /\ n \in {0, h[2]} /\ h[2] = s
        BY <3>2, <4>3, StopIsMeant
      <4>6. meant \in SUBSET HeldNow
        BY <3>2
      <4>7. \E h \in meant : named \in {None, h[1]} /\ h[2] = s
        BY <4>5
      <4>8. call'.session = named /\ call'.todo = Requests(tool, s) /\ call'.meant = meant
        BY ZenonT(40), <4>2 DEF Becomes
      <4> HIDE DEF meant
      <4>9. QED
        BY ZenonT(40), <4>4, <4>6, <4>7, <4>8
    <3>4. PICK h \in meant : named \in {None, h[1]} /\ h[2] = s
      BY <3>3
    <3>5. call'.todo[1].stop = s
      BY <3>3, RequestsAre
    <3>6. Attached' = Attached
      BY <2>1 DEF Attached
    <3>7. AskedOf(call.session, call.todo[1].stop)' = AskedOf(named, s)
      BY <2>1, <3>3, <3>5, <3>6 DEF AskedOf, Of, OnlySession
    <3>8. \A p \in AskedOf(named, s) : <<p, s>> \in meant
      BY <3>3, <3>4, AskedIsMeant
    <3>9. QED
      BY <3>3, <3>5, <3>7, <3>8 DEF AsksAsMeant, Meant
  <2>4. QED
    BY <2>2, <2>3
<1>6. CASE CallAboutProgram
  <2>1. call = NoCall /\ holds /\ UNCHANGED <<life, attached, held, seen>>
    BY <1>6, AboutProgramDoes
  <2>2. PICK tool \in ByProgram, named \in seen \cup {None} :
            /\ call'.session = named /\ call'.todo = Requests(tool, 0)
            /\ call'.meant = {<<p, 0>> : p \in IF named # None THEN {named} ELSE seen}
    BY <1>6, AboutProgramDoes DEF Becomes
  <2>3. call'.todo[1].stop = 0
    BY <2>2, RequestsAre
  <2>4. Attached' = Attached
    BY <2>1 DEF Attached
  <2>5. \A p \in OnlySession(named) : life[p] = "open" => p \in IF named # None THEN {named} ELSE seen
    <3>1. CASE named # None
      BY <3>1 DEF OnlySession
    <3>2. CASE named = None
      <4>1. ASSUME NEW p \in OnlySession(named), life[p] = "open" PROVE p \in seen
        <5>1. Len(attached) = 1 /\ p \in Attached
          BY <3>2, <4>1 DEF OnlySession
        <5>2. attached = <<p>> /\ p \in Programs
          BY <5>1, OneAttached DEF Shape
        <5>3. QED
          BY <2>1, <4>1, <5>2, NoCallParts DEF OneIsKnown
      <4>2. QED
        BY <3>2, <4>1
    <3>3. QED
      BY <3>1, <3>2
  <2>6. AskedOf(call.session, call.todo[1].stop)' = OnlySession(named)
    BY <2>1, <2>2, <2>3, <2>4 DEF AskedOf, OnlySession
  <2>7. QED
    BY <2>1, <2>2, <2>3, <2>5, <2>6 DEF AsksAsMeant, Meant
<1>7. CASE CallSessions
  <2>1. call'.todo = <<>>
    BY <1>7, SessionsDoes, NoCallParts DEF Becomes, Idles
  <2>2. QED
    BY <2>1 DEF AsksAsMeant
<1>8. CASE CallLaunch
  <2>1. call'.todo = <<>> \/ call'.got # {}
    BY <1>8, LaunchDoes DEF Becomes
  <2>2. QED
    BY <2>1 DEF AsksAsMeant
<1>9. CASE CallTerminate
  <2>1. call'.todo = <<>>
    BY <1>9, TerminateDoes, NoCallParts DEF Becomes, Idles
  <2>2. QED
    BY <2>1 DEF AsksAsMeant
<1>10. CASE Refuse
  <2>1. call'.todo = <<>>
    BY <1>10, RefuseDoes, NoCallParts DEF Becomes, Idles
  <2>2. QED
    BY <2>1 DEF AsksAsMeant
<1>11. CASE Lose
  <2>1. call' = NoCall \/ (call.todo # <<>> /\ call'.todo = Tail(call.todo) /\ call'.got = call.got)
    BY <1>11, LoseDoes DEF Becomes
  <2>2. QED
    BY <2>1, WaitIsLeft
<1>12. CASE Perform
  <2>1. call' = NoCall \/ (call.todo # <<>> /\ call'.todo = Tail(call.todo) /\ call'.got = call.got)
    BY <1>12, PerformDoes DEF Becomes
  <2>2. QED
    BY <2>1, WaitIsLeft
<1>13. CASE StartWait
  <2>1. call' = NoCall \/ (call.todo # <<>> /\ call'.todo = Tail(call.todo) /\ call'.got = call.got)
    BY <1>13, StartWaitDoes DEF Becomes
  <2>2. QED
    BY <2>1, WaitIsLeft
<1>14. CASE Look
  <2>1. call'.todo = <<>>
    BY <1>14, LookDoes DEF Waiting, Becomes, Idles, Look
  <2>2. QED
    BY <2>1 DEF AsksAsMeant
<1>15. CASE Read
  <2>1. call'.todo = <<>> \/ call'.got # {}
    BY <1>15, ReadDoes DEF Waiting, Becomes, Idles
  <2>2. QED
    BY <2>1 DEF AsksAsMeant
<1>16. CASE Slice
  <2>1. call'.todo = <<>>
    BY <1>16, SliceDoes DEF Waiting, Becomes, Idles, Slice
  <2>2. QED
    BY <2>1 DEF AsksAsMeant
<1>17. CASE TimesOut
  <2>1. call'.todo = <<>>
    BY <1>17, TimesOutDoes DEF Waiting, Becomes, Idles, TimesOut
  <2>2. QED
    BY <2>1 DEF AsksAsMeant
<1>18. CASE End
  <2>1. call'.todo = <<>>
    BY <1>18, EndDoes DEF Waiting, Becomes, Idles, End
  <2>2. QED
    BY <2>1 DEF AsksAsMeant
<1>19. CASE Answer
  <2>1. call'.todo = <<>>
    BY <1>19, AnswerDoes, NoCallParts DEF Becomes, Idles
  <2>2. QED
    BY <2>1 DEF AsksAsMeant
<1>20. CASE UNCHANGED vars
  <2>1. UNCHANGED <<attached, held, call>> /\ \A q \in Programs : life'[q] = "open" => life[q] = "open"
    BY <1>20 DEF vars, programs, debuggee
  <2>2. QED
    BY <2>1, MeantStays
<1>21. QED
  BY <1>1, <1>2, <1>3, <1>4, <1>5, <1>6, <1>7, <1>8, <1>9, <1>10, <1>11, <1>12, <1>13, <1>14, <1>15, <1>16, <1>17, <1>18, <1>19, <1>20
  DEF Next, Runs, Calls, Dispatch, Waits

\* Who acted was meant.
LEMMA ActedStep == ASSUME Shape, Shape', Going, AsksAsMeant, ActsAsMeant, [Next]_vars PROVE ActsAsMeant'
<1> USE DEF Going
<1>1. ASSUME NEW p \in Programs, Reach(p) PROVE ActsAsMeant'
  BY <1>1, Shape DEF Reach, programs, debuggee, client, ActsAsMeant
<1>2. ASSUME NEW p \in Programs, Announce(p) PROVE ActsAsMeant'
  BY <1>2, Shape DEF Announce, programs, debuggee, client, ActsAsMeant
<1>3. ASSUME NEW p \in Programs, Fork(p) PROVE ActsAsMeant'
  BY <1>3, Shape, ForkDoes, NoCallParts DEF Becomes, Idles, ActsAsMeant
<1>4. ASSUME NEW p \in Programs, Die(p) PROVE ActsAsMeant'
  BY <1>4, Shape DEF Die, programs, debuggee, client, ActsAsMeant
<1>5. CASE CallAboutStop
  <2>1. call'.acted = {}
    BY <1>5, AboutStopDoes, NoCallParts DEF Becomes
  <2>2. QED
    BY <2>1 DEF ActsAsMeant
<1>6. CASE CallAboutProgram
  BY <1>6, Shape, AboutProgramDoes, NoCallParts DEF Becomes, Idles, ActsAsMeant
<1>7. CASE CallSessions
  BY <1>7, Shape, SessionsDoes, NoCallParts DEF Becomes, Idles, ActsAsMeant
<1>8. CASE CallLaunch
  BY <1>8, Shape, LaunchDoes, NoCallParts DEF Becomes, Idles, ActsAsMeant
<1>9. CASE CallTerminate
  BY <1>9, Shape, TerminateDoes, NoCallParts DEF Becomes, Idles, ActsAsMeant
<1>10. CASE Refuse
  BY <1>10, Shape, RefuseDoes, NoCallParts DEF Becomes, Idles, ActsAsMeant
<1>11. CASE Lose
  BY <1>11, Shape, LoseDoes, NoCallParts DEF Becomes, Idles, ActsAsMeant
<1>12. CASE Perform
  <2>1. PICK p \in AskedOf(call.session, Head(call.todo).stop) :
            /\ p \in Programs /\ call.todo # <<>> /\ life[p] = "open" /\ Head(call.todo).kind # "wait"
            /\ call'.acted = call.acted \cup {<<p, Head(call.todo).stop>>}
            /\ call'.meant = call.meant /\ call'.got = call.got
    BY <1>12, PerformDoes DEF Becomes
  <2>2. <<p, Head(call.todo).stop>> \in call.meant \cup call.got
    <3>1. CASE call.got = {}
      <4>1. Head(call.todo) = call.todo[1]
        BY <2>1, FirstAsked
      <4>2. Meant(Head(call.todo))
        BY <2>1, <3>1, <4>1 DEF AsksAsMeant
      <4>3. QED
        BY <2>1, <4>2 DEF Meant
    <3>2. CASE call.got # {}
      <4>1. PICK h \in HeldNow : /\ call.got = {h} /\ Head(call.todo).stop = h[2]
                                 /\ AskedOf(call.session, Head(call.todo).stop) = {h[1]}
        BY <2>1, <3>2, ReturnedReads
      <4>2. h = <<h[1], h[2]>>
        BY DEF HeldNow
      <4>3. QED
        BY <2>1, <4>1, <4>2
    <3>3. QED
      BY <3>1, <3>2
  <2>3. QED
    BY <2>1, <2>2 DEF ActsAsMeant
<1>13. CASE StartWait
  BY <1>13, Shape, StartWaitDoes, NoCallParts DEF Becomes, Idles, ActsAsMeant
<1>14. CASE Look
  BY <1>14, Shape, LookDoes, NoCallParts DEF Becomes, Idles, ActsAsMeant
<1>15. CASE Read
  BY <1>15, Shape, ReadDoes, NoCallParts DEF Becomes, Idles, ActsAsMeant
<1>16. CASE Slice
  BY <1>16, Shape, SliceDoes, NoCallParts DEF Becomes, Idles, ActsAsMeant
<1>17. CASE TimesOut
  BY <1>17, Shape, TimesOutDoes, NoCallParts DEF Becomes, Idles, ActsAsMeant
<1>18. CASE End
  BY <1>18, Shape, EndDoes, NoCallParts DEF Becomes, Idles, ActsAsMeant
<1>19. CASE Answer
  BY <1>19, Shape, AnswerDoes, NoCallParts DEF Becomes, Idles, ActsAsMeant
<1>20. CASE UNCHANGED vars
  BY <1>20 DEF vars, programs, debuggee, client, ActsAsMeant
<1>21. QED
  BY <1>1, <1>2, <1>3, <1>4, <1>5, <1>6, <1>7, <1>8, <1>9, <1>10, <1>11, <1>12, <1>13, <1>14, <1>15, <1>16, <1>17, <1>18, <1>19, <1>20
  DEF Next, Runs, Calls, Dispatch, Waits

\* A stop that was returned is told, unless its program went.
Told == call # NoCall /\ call' = NoCall => \A h \in call.got : h \in believed' \/ life[h[1]] = "gone"

LEMMA ToldStep == ASSUME Shape, Shape', Going, [Next]_vars PROVE Told
<1> USE DEF Going
<1>1. ASSUME NEW p \in Programs, Reach(p) PROVE Told
  <2>1. call.got \subseteq call'.got
    BY <1>1, ProgramsDo DEF Runs, Becomes, Idles
  <2>2. QED
    BY <2>1, NoCallParts DEF Told
<1>2. ASSUME NEW p \in Programs, Announce(p) PROVE Told
  <2>1. call.got \subseteq call'.got
    BY <1>2, ProgramsDo DEF Runs, Becomes, Idles
  <2>2. QED
    BY <2>1, NoCallParts DEF Told
<1>3. ASSUME NEW p \in Programs, Fork(p) PROVE Told
  <2>1. call.got \subseteq call'.got
    BY <1>3, ProgramsDo DEF Runs, Becomes, Idles
  <2>2. QED
    BY <2>1, NoCallParts DEF Told
<1>4. ASSUME NEW p \in Programs, Die(p) PROVE Told
  <2>1. call.got \subseteq call'.got
    BY <1>4, ProgramsDo DEF Runs, Becomes, Idles
  <2>2. QED
    BY <2>1, NoCallParts DEF Told
<1>5. CASE CallAboutStop
  BY <1>5, AboutStopDoes DEF Told
<1>6. CASE CallAboutProgram
  BY <1>6, AboutProgramDoes DEF Told
<1>7. CASE CallSessions
  BY <1>7, SessionsDoes DEF Told
<1>8. CASE CallLaunch
  BY <1>8, LaunchDoes DEF Told
<1>9. CASE CallTerminate
  BY <1>9, TerminateDoes DEF Told
<1>10. CASE Refuse
  BY <1>10, ReturnedIsNotRefused DEF Told
<1>11. CASE Lose
  <2>1. PICK p \in AskedOf(call.session, Head(call.todo).stop) :
              /\ call.todo # <<>> /\ life[p] = "gone"
              /\ call' = NoCall \/ call'.got = call.got
    BY <1>11, LoseDoes DEF Becomes
  <2>2. CASE call.got = {} \/ call' # NoCall
    BY <2>2 DEF Told
  <2>3. CASE call.got # {} /\ call' = NoCall
    <3>1. PICK h \in HeldNow : call.got = {h} /\ AskedOf(call.session, Head(call.todo).stop) = {h[1]}
      BY <2>1, <2>3, ReturnedReads
    <3>2. QED
      BY <2>1, <3>1 DEF Told
  <2>4. QED
    BY <2>2, <2>3
<1>12. CASE Perform
  <2>1. call.got \subseteq call'.got
    BY <1>12, PerformDoes DEF Becomes, Idles
  <2>2. QED
    BY <2>1, NoCallParts DEF Told
<1>13. CASE StartWait
  <2>1. call.got \subseteq call'.got
    BY <1>13, StartWaitDoes DEF Becomes, Idles
  <2>2. QED
    BY <2>1, NoCallParts DEF Told
<1>14. CASE Look
  <2>1. call.got \subseteq call'.got
    BY <1>14, LookDoes DEF Becomes, Idles
  <2>2. QED
    BY <2>1, NoCallParts DEF Told
<1>15. CASE Read
  <2>1. call.got \subseteq call'.got
    BY <1>15, ReadDoes DEF Becomes, Idles
  <2>2. QED
    BY <2>1, NoCallParts DEF Told
<1>16. CASE Slice
  <2>1. call.got \subseteq call'.got
    BY <1>16, SliceDoes DEF Becomes, Idles
  <2>2. QED
    BY <2>1, NoCallParts DEF Told
<1>17. CASE TimesOut
  <2>1. call.got \subseteq call'.got
    BY <1>17, TimesOutDoes DEF Becomes, Idles
  <2>2. QED
    BY <2>1, NoCallParts DEF Told
<1>18. CASE End
  <2>1. call.got \subseteq call'.got
    BY <1>18, EndDoes DEF Becomes, Idles
  <2>2. QED
    BY <2>1, NoCallParts DEF Told
<1>19. CASE Answer
  BY <1>19, AnswerDoes DEF Told
<1>20. CASE UNCHANGED vars
  BY <1>20 DEF vars, Told
<1>21. QED
  BY <1>1, <1>2, <1>3, <1>4, <1>5, <1>6, <1>7, <1>8, <1>9, <1>10, <1>11, <1>12, <1>13, <1>14, <1>15, <1>16, <1>17, <1>18, <1>19, <1>20
  DEF Next, Runs, Calls, Dispatch, Waits

-----------------------------------------------------------------------------
(***************************************************************************)
(* The results.                                                            *)
(***************************************************************************)

LEMMA Starts == Init => Shape /\ Going /\ Sure /\ AsksAsMeant /\ ActsAsMeant
<1> SUFFICES ASSUME Init PROVE Shape /\ Going /\ Sure /\ AsksAsMeant /\ ActsAsMeant
  OBVIOUS
<1>1. /\ call = NoCall /\ attached = <<>> /\ held = [p \in Programs |-> {}] /\ holds = FALSE
      /\ wire = [p \in Programs |-> <<>>] /\ life = [p \in Programs |-> "none"]
      /\ believed = {} /\ unsure = FALSE
  BY DEF Init
<1>2. Shape
  <2>1. 0 \in 0..MaxStops
    BY ServerAssumption
  <2>2. <<>> \in Seq(0..MaxStops) /\ <<>> \in Seq(Programs)
    OBVIOUS
  <2>3. QED
    BY <2>1, <2>2, NoCallParts DEF Init, Shape
<1>3. Attached = {}
  BY <1>1, ToSetOfNothing DEF Attached
<1>4. Connections
  BY <1>1, <1>3 DEF Connections
<1>5. InCall /\ Asks /\ Waiting /\ Returned /\ AsksAsMeant /\ ActsAsMeant
  BY <1>1, NoCallParts DEF InCall, Asks, Waiting, Returned, AsksAsMeant, ActsAsMeant
<1>6. OneIsKnown /\ Joined /\ Sure
  BY <1>1 DEF OneIsKnown, Joined, Sure
<1>7. QED
  BY <1>2, <1>4, <1>5, <1>6 DEF Going

LEMMA IndStep == ASSUME IndInv, [Next]_vars PROVE IndInv'
<1>1. Shape'
  BY ShapeStep DEF IndInv
<1>2. Connections' /\ InCall' /\ Asks'
  BY <1>1, ConnectionsStep, InCallStep, AsksStep DEF IndInv
<1>3. Waiting' /\ Returned' /\ OneIsKnown' /\ Joined'
  BY <1>1, WaitingStep, ReturnedStep, OneIsKnownStep, JoinedStep DEF IndInv
<1>4. QED
  BY <1>1, <1>2, <1>3 DEF IndInv, Going

\* The invariant: the connections, and for each phase of a call what it may
\* still ask and why the addressing rules find the one session it is about.
THEOREM Inductive == Spec => []IndInv
<1>1. Init => IndInv
  BY Starts DEF IndInv
<1>2. IndInv /\ [Next]_vars => IndInv'
  BY IndStep
<1>3. QED
  BY <1>1, <1>2, PTL DEF Spec

\* Every session that joined is one the client knows of, or is to be told of
\* with its next answer, whatever became of the call it joined in.
THEOREM EverySessionIsTold == Spec => []JoinedAreTold
<1>1. IndInv => JoinedAreTold
  BY DEF IndInv, Going, Joined, JoinedAreTold
<1>2. QED
  BY <1>1, Inductive, PTL

\* A stop that ended a wait is told with the answer to that call, unless its
\* program is gone: reading about it is refused by no rule of addressing.
THEOREM EveryStopIsTold == Spec => ReturnedIsTold
<1>1. ASSUME IndInv, [Next]_vars PROVE [Told]_vars
  <2>1. Shape'
    BY <1>1, ShapeStep DEF IndInv
  <2>2. QED
    BY <1>1, <2>1, ToldStep DEF IndInv
<1>2. QED
  BY <1>1, Inductive, PTL DEF Spec, ReturnedIsTold, Told

LEMMA MeantStepsOn == ASSUME Resyncs, IndMeant, [Next]_vars PROVE IndMeant'
<1>1. IndInv'
  BY IndStep DEF IndMeant
<1>2. Shape /\ Shape' /\ Going /\ Sure /\ AsksAsMeant /\ ActsAsMeant
  BY <1>1 DEF IndMeant, IndInv
<1>3. Sure' /\ AsksAsMeant' /\ ActsAsMeant'
  BY <1>2, SureStep, MeantStep, ActedStep
<1>4. QED
  BY <1>1, <1>3 DEF IndMeant

\* For a client that reads what is held after a call that failed, no call acts on
\* a thread or a program it did not mean, though stops are not named by numbers.
THEOREM NobodyElseIsTouched == ASSUME Resyncs PROVE Spec => []ActsAsMeant
<1>1. Init => IndMeant
  BY Starts DEF IndMeant, IndInv
<1>2. IndMeant /\ [Next]_vars => IndMeant'
  BY MeantStepsOn
<1>3. IndMeant => ActsAsMeant
  BY DEF IndMeant
<1>4. QED
  BY <1>1, <1>2, <1>3, PTL DEF Spec

================================================================================
