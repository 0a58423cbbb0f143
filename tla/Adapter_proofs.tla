--------------------------- MODULE Adapter_proofs ---------------------------
(***************************************************************************)
(* What Adapter promises for any client, any threads, files, links and     *)
(* stops, in any order of launching and configuring: no request is         *)
(* answered twice, or not at all when its client ends the connection; a    *)
(* stop is told once, and a reference that resolves is about one that is   *)
(* still held; what the client was told is set is what the agent has.      *)
(***************************************************************************)
EXTENDS Adapter, FiniteSetTheorems, FunctionTheorems, SequenceTheorems, TLAPS

-----------------------------------------------------------------------------
(***************************************************************************)
(* The types, and where the loop is.                                       *)
(***************************************************************************)
Places == {"turn", "wait", "take", "look", "handle", "launching", "arm", "begin", "go",
           "tell", "respond", "leaving", "joining", "done", "panicked"}

\* What the client may have asked for.
Asked ==
  {NoRequest} \cup
  [command : Commands \ (OfThread \cup OfReference \cup {"setBreakpoints"})] \cup
  [command : OfThread \cup OfReference, of : Stops] \cup
  [command : {"setBreakpoints"}, file : Files, after : SUBSET Files]

ShapeOfRequests ==
  /\ request \in [Ids -> Asked] /\ answers \in [Ids -> Nat]
  /\ inbox \in Seq(Ids \cup {"eof"}) /\ queue \in Seq(Ids) /\ deferred \in Seq(Ids)
  /\ hand \in Ids \cup {0}

ShapeOfLoop ==
  /\ pc \in Places /\ then \in {"turn", "take", "handle", "respond"}
  /\ reader \in {"reading", "ended"} /\ stopping \in BOOLEAN /\ pending \in BOOLEAN
  /\ ended \in {"no", "client", "nothing"}
  /\ session \in BOOLEAN /\ begun \in BOOLEAN /\ configured \in BOOLEAN
  /\ arrival \in {"Launched", "TakenUp"} /\ program \in {"none", "live", "over"}

ShapeOfStops ==
  /\ announced \subseteq Stops /\ held \subseteq Stops /\ handles \subseteq Stops
  /\ untold \in Seq(Stops) /\ line \in Seq(Stops) /\ told \in [Stops -> Nat]
  /\ reached \in 0..MaxStops

ShapeOfTable ==
  /\ byFile \in [Files -> [id : Nat, after : Nat]] /\ mints \in Nat

\* A request is in hand where the loop has one to answer.
Serving == \/ pc \in {"look", "handle", "launching", "respond", "panicked"}
           \/ pc = "tell" /\ then \in {"handle", "respond"}

Control ==
  /\ hand \in Ids <=> Serving
  /\ pc = "tell" <=> untold # <<>>
  /\ (stopping \/ ended = "client") => reader = "ended"
  /\ ended # "no" <=> pc \in {"leaving", "joining", "done"}
  /\ begun => session
  /\ session => reached >= 1
  /\ ~session => program = "none" /\ held = {} /\ line = <<>> /\ arrival = "Launched"
  /\ pc \in {"arm", "begin", "go"} => session
  /\ pc = "arm" => ~begun
  /\ pc = "go" => begun
  /\ pc = "launching" => ~session

-----------------------------------------------------------------------------
(***************************************************************************)
(* The requests: each is at one place, and has no answer yet.              *)
(***************************************************************************)
NoTwice(s) == \A j, k \in 1..Len(s) : s[j] = s[k] => j = k

Owed ==
  /\ NoTwice(inbox) /\ NoTwice(queue) /\ NoTwice(deferred)
  /\ ToSet(inbox) \cap ToSet(queue) = {} /\ ToSet(inbox) \cap ToSet(deferred) = {}
  /\ ToSet(queue) \cap ToSet(deferred) = {}
  /\ hand \in Ids => hand \notin ToSet(inbox) \cup ToSet(queue) \cup ToSet(deferred)
  /\ \A i \in Ids : request[i] # NoRequest <=>
                      i = hand \/ i \in ToSet(inbox) \cup ToSet(queue) \cup ToSet(deferred)
  /\ \A i \in Ids : answers[i] <= 1 /\ (request[i] # NoRequest => answers[i] = 0)
  /\ pc \in {"joining", "done"} /\ ended = "client" => queue = <<>> /\ deferred = <<>>

-----------------------------------------------------------------------------
(***************************************************************************)
(* The stops: each is made, read, announced and told once.                 *)
(***************************************************************************)
Made ==
  /\ NoTwice(line) /\ ToSet(line) \cap held = {}
  /\ AgentHolds \subseteq 1..reached
  /\ \A n \in Stops : told[n] > 0 => n <= reached

Noted ==
  /\ handles \subseteq announced
  /\ announced \subseteq 1..reached /\ announced \cap ToSet(line) = {}
  /\ (begun /\ pc # "go") \/ pc = "tell" => announced \subseteq held
  /\ arrival = "Launched" /\ (~begun \/ pc = "go") =>
       /\ announced = {} /\ untold = <<>> /\ \A n \in Stops : told[n] = 0
       /\ line = <<>> /\ (session => held = {1})

Tellings ==
  /\ NoTwice(untold) /\ ToSet(untold) \subseteq 1..reached
  /\ \A n \in Stops : told[n] <= 1
  /\ \A n \in ToSet(untold) : told[n] = 0
  /\ \A n \in AgentHolds \ announced : told[n] = 0 /\ n \notin ToSet(untold)
  /\ program = "live" /\ ~Fails => \A n \in announced : told[n] = 1 \/ n \in ToSet(untold)

\* The stop that a program is launched to.
EntryIsOurs ==
  arrival = "Launched" /\ ~StopOnEntry /\ ~Fails =>
    /\ told[1] = 0 /\ 1 \notin ToSet(untold) /\ 1 \notin announced
    /\ 1 \in AgentHolds => line = <<>> /\ (program = "live" => ~begun \/ pc = "go")

\* A request about a thread or a reference names a stop that was told.
Named ==
  \A i \in Ids : request[i].command \in OfThread \cup OfReference => told[request[i].of] > 0

\* The requests that mint references where they were asked about one.
OfItsOwn == {"scopes", "variables", "setVariable", "evaluate", "stepInTargets"}

Resolved ==
  /\ pc = "respond" \/ (pc = "tell" /\ then = "respond")
  /\ request[hand].command \in OfItsOwn
  => request[hand].of \in announced

-----------------------------------------------------------------------------
(***************************************************************************)
(* What the agent was asked to arm.                                        *)
(***************************************************************************)
NoneSet == [f \in Files |-> NoBreakpoint]

Table ==
  /\ kept \subseteq Settings
  /\ \A f \in Files : byFile[f].id = 0 => byFile[f] = NoBreakpoint
  /\ ~session => /\ settings = {} /\ armed = NoneSet
                 /\ asked = kept /\ unarmed = IdsOf(byFile)
  /\ program = "live" /\ pc # "arm" /\ ~Fails => armed = byFile /\ unarmed = {} /\ asked \subseteq settings
  /\ program = "live" /\ pc = "arm" /\ ~Fails =>
        /\ asked \subseteq settings \cup kept
        /\ unarmed = {} => armed = byFile

-----------------------------------------------------------------------------
(***************************************************************************)
(* The client finishes its configuration once, and the program is begun    *)
(* after that.                                                             *)
(***************************************************************************)
Configures ==
  /\ begun => configured
  /\ pc = "begin" => configured /\ ~begun
  /\ \A i \in Ids : request[i].command = "configurationDone" => ~configured
  /\ \A i, j \in Ids :
       request[i].command = "configurationDone" /\ request[j].command = "configurationDone" => i = j

-----------------------------------------------------------------------------
(***************************************************************************)
(* The inductive invariant: the requests, where the loop is, the stops,    *)
(* what the answer in hand is about, the table, the configuration, and the *)
(* thread of the first stop.                                               *)
(***************************************************************************)
Requested == ShapeOfRequests /\ Owed /\ Named
Placed == ShapeOfLoop /\ Control
Stopped == ShapeOfStops /\ Made /\ Noted /\ Tellings /\ EntryIsOurs
Tabled == ShapeOfTable /\ Table

\* A program is held before its first statement on its main thread.
EntryIsMain == owner \in [Stops -> Threads] /\ owner[1] = Main

Core == Requested /\ Placed /\ Stopped /\ Resolved /\ Tabled
IndInv == Core /\ Configures /\ EntryIsMain

-----------------------------------------------------------------------------
(***************************************************************************)
(* Sequences in which nothing is twice, and sets in order.                 *)
(***************************************************************************)

\* What is in a sequence is at one of its positions.
LEMMA InSeq ==
  ASSUME NEW S, NEW s \in Seq(S), NEW x
  PROVE  x \in ToSet(s) <=> \E j \in 1..Len(s) : s[j] = x
BY DEF ToSet

\* All of it is of the set it is over.
LEMMA SeqWithin ==
  ASSUME NEW S, NEW s \in Seq(S)
  PROVE  ToSet(s) \subseteq S
BY DEF ToSet

\* Something new at the end.
LEMMA AppendOnce ==
  ASSUME NEW S, NEW s \in Seq(S), NEW x \in S, NoTwice(s), x \notin ToSet(s)
  PROVE  /\ Append(s, x) \in Seq(S) /\ NoTwice(Append(s, x))
         /\ ToSet(Append(s, x)) = ToSet(s) \cup {x} /\ Append(s, x) # <<>>
<1> DEFINE t == Append(s, x)
<1>1. /\ t \in Seq(S) /\ Len(t) = Len(s) + 1 /\ t[Len(s) + 1] = x
      /\ \A j \in 1..Len(s) : t[j] = s[j]
  OBVIOUS
<1>2. \A j \in 1..Len(t) : j \in 1..Len(s) \/ j = Len(s) + 1
  BY <1>1
<1> HIDE DEF t
<1>3. \A j \in 1..Len(s) : s[j] # x
  BY InSeq
<1>4. NoTwice(t)
  BY <1>1, <1>2, <1>3 DEF NoTwice
<1>5. \A y : y \in ToSet(t) <=> y \in ToSet(s) \/ y = x
  <2>1. Len(s) \in Nat
    OBVIOUS
  <2>2. Len(s) + 1 \in 1..Len(t) /\ 1..Len(s) \subseteq 1..Len(t)
    BY <1>1, <2>1
  <2>3. QED
    BY <1>1, <1>2, <2>2, InSeq
<1>6. t # <<>>
  BY <1>1
<1>7. QED
  BY <1>1, <1>4, <1>5, <1>6 DEF t

\* The head goes.
LEMMA TailOnce ==
  ASSUME NEW S, NEW s \in Seq(S), NoTwice(s), s # <<>>
  PROVE  /\ Tail(s) \in Seq(S) /\ NoTwice(Tail(s))
         /\ Head(s) \in ToSet(s) /\ Head(s) \in S /\ ToSet(Tail(s)) = ToSet(s) \ {Head(s)}
<1> DEFINE t == Tail(s)
<1>1. /\ t \in Seq(S) /\ Len(s) \in Nat \ {0} /\ Len(t) = Len(s) - 1 /\ Head(s) = s[1]
      /\ \A j \in 1..Len(t) : t[j] = s[j + 1]
  OBVIOUS
<1>2. /\ 1 \in 1..Len(s) /\ \A j \in 1..Len(t) : j + 1 \in 1..Len(s) /\ j + 1 # 1
      /\ \A k \in 1..Len(s) : k = 1 \/ (k - 1 \in 1..Len(t) /\ (k - 1) + 1 = k)
  BY <1>1
<1>3. Head(s) \in S
  OBVIOUS
<1> HIDE DEF t
<1>4. NoTwice(t)
  <2>1. SUFFICES ASSUME NEW j \in 1..Len(t), NEW k \in 1..Len(t), t[j] = t[k] PROVE j = k
    BY DEF NoTwice
  <2>2. j + 1 = k + 1
    BY <1>1, <1>2, <2>1 DEF NoTwice
  <2>3. QED
    BY <1>1, <2>2
<1>5. \A y : y \in ToSet(t) <=> y \in ToSet(s) /\ y # s[1]
  <2>1. SUFFICES ASSUME NEW y PROVE y \in ToSet(t) <=> y \in ToSet(s) /\ y # s[1]
    OBVIOUS
  <2>2. y \in ToSet(t) => \E j \in 1..Len(t) : t[j] = y
    BY <1>1, InSeq
  <2>3. ASSUME NEW j \in 1..Len(t), t[j] = y PROVE y \in ToSet(s) /\ y # s[1]
    BY <1>1, <1>2, <2>3, InSeq DEF NoTwice
  <2>4. ASSUME NEW k \in 1..Len(s), s[k] = y, y # s[1] PROVE y \in ToSet(t)
    <3>1. k - 1 \in 1..Len(t) /\ t[k - 1] = s[k]
      BY <1>1, <1>2, <2>4
    <3>2. QED
      BY <1>1, <2>4, <3>1, InSeq
  <2>5. QED
    BY <2>2, <2>3, <2>4, InSeq
<1>6. Head(s) \in ToSet(s)
  BY <1>1, <1>2, InSeq
<1>7. QED
  BY <1>1, <1>3, <1>4, <1>5, <1>6 DEF t

\* Nothing is in the empty sequence.
LEMMA NoneOnce ==
  NoTwice(<<>>) /\ ToSet(<<>>) = {} /\ \A S : <<>> \in Seq(S)
BY DEF NoTwice, ToSet

\* One alone.
LEMMA OneOnce ==
  ASSUME NEW S, NEW x \in S
  PROVE  <<x>> \in Seq(S) /\ NoTwice(<<x>>) /\ ToSet(<<x>>) = {x} /\ <<x>> # <<>>
<1> DEFINE s == <<x>>
<1>1. s \in Seq(S) /\ Len(s) = 1 /\ s[1] = x
  OBVIOUS
<1>2. \A j : j \in 1..1 <=> j = 1
  OBVIOUS
<1> HIDE DEF s
<1>3. \A y : y \in ToSet(s) <=> y = x
  BY <1>1, <1>2, InSeq
<1>4. NoTwice(s)
  BY <1>1, <1>2 DEF NoTwice
<1>5. s # <<>>
  BY <1>1, EmptySeq
<1>6. QED
  BY <1>1, <1>3, <1>4, <1>5 DEF s

\* Two sequences that have nothing in common.
LEMMA BothOnce ==
  ASSUME NEW S, NEW s \in Seq(S), NEW t \in Seq(S), NoTwice(s), NoTwice(t), ToSet(s) \cap ToSet(t) = {}
  PROVE  /\ s \o t \in Seq(S) /\ NoTwice(s \o t) /\ ToSet(s \o t) = ToSet(s) \cup ToSet(t)
         /\ s \o t = <<>> <=> s = <<>> /\ t = <<>>
<1> DEFINE u == s \o t
<1>1. /\ u \in Seq(S) /\ Len(s) \in Nat /\ Len(t) \in Nat /\ Len(u) = Len(s) + Len(t)
      /\ \A j \in 1..Len(s) : u[j] = s[j]
      /\ \A j \in 1..Len(t) : u[Len(s) + j] = t[j]
  OBVIOUS
<1>2. /\ \A j \in 1..Len(s) : j \in 1..Len(u)
      /\ \A j \in 1..Len(t) : Len(s) + j \in 1..Len(u)
      /\ \A k \in 1..Len(u) : k \in 1..Len(s) \/ (k - Len(s) \in 1..Len(t) /\ k = Len(s) + (k - Len(s)))
  BY <1>1
<1>3. u = <<>> <=> s = <<>> /\ t = <<>>
  BY <1>1
<1> HIDE DEF u
<1>4. \A y : y \in ToSet(u) <=> y \in ToSet(s) \/ y \in ToSet(t)
  <2>1. ASSUME NEW y, y \in ToSet(u) PROVE y \in ToSet(s) \/ y \in ToSet(t)
    <3>1. PICK k \in 1..Len(u) : u[k] = y
      BY <1>1, <2>1, InSeq
    <3>2. CASE k \in 1..Len(s)
      BY <1>1, <3>1, <3>2, InSeq
    <3>3. CASE k - Len(s) \in 1..Len(t) /\ k = Len(s) + (k - Len(s))
      <4>1. t[k - Len(s)] = y
        BY <1>1, <3>1, <3>3
      <4>2. QED
        BY <3>3, <4>1, InSeq
    <3>4. QED
      BY <1>2, <3>2, <3>3
  <2>2. ASSUME NEW y, y \in ToSet(s) PROVE y \in ToSet(u)
    BY <1>1, <1>2, <2>2, InSeq
  <2>3. ASSUME NEW y, y \in ToSet(t) PROVE y \in ToSet(u)
    <3>1. PICK j \in 1..Len(t) : t[j] = y
      BY <2>3, InSeq
    <3>2. QED
      BY <1>1, <1>2, <3>1, InSeq
  <2>4. QED
    BY <2>1, <2>2, <2>3
<1>5. NoTwice(u)
  <2>1. SUFFICES ASSUME NEW j \in 1..Len(u), NEW k \in 1..Len(u), u[j] = u[k] PROVE j = k
    BY DEF NoTwice
  <2> DEFINE a == j - Len(s)
             b == k - Len(s)
  <2>2. /\ j \in 1..Len(s) \/ (a \in 1..Len(t) /\ j = Len(s) + a /\ u[j] = t[a])
        /\ k \in 1..Len(s) \/ (b \in 1..Len(t) /\ k = Len(s) + b /\ u[k] = t[b])
    BY <1>1, <1>2
  <2> HIDE DEF a, b
  <2>3. \A m \in 1..Len(s), n \in 1..Len(t) : s[m] # t[n]
    BY InSeq
  <2>4. QED
    BY <1>1, <2>1, <2>2, <2>3 DEF NoTwice
<1>6. QED
  BY <1>1, <1>3, <1>4, <1>5 DEF u

\* The numbers of a set, once each.
LEMMA InOrderIs ==
  ASSUME NEW S \in SUBSET Stops
  PROVE  /\ InOrder(S) \in Seq(S) /\ InOrder(S) \in Seq(Stops) /\ NoTwice(InOrder(S)) /\ ToSet(InOrder(S)) = S
         /\ InOrder(S) = <<>> <=> S = {}
<1> DEFINE upTo(n) == {m \in S : m <= n}
           rank    == [n \in S |-> Cardinality(upTo(n))]
           c       == Cardinality(S)
           o       == InOrder(S)
<1>1. S \subseteq Nat /\ IsFiniteSet(S) /\ c \in Nat
  <2>1. IsFiniteSet(Stops) /\ Stops \subseteq Nat
    BY AdapterAssumption, FS_Interval DEF Stops
  <2>2. IsFiniteSet(S)
    BY <2>1, FS_Subset
  <2>3. c \in Nat
    BY <2>2, FS_CardinalityType
  <2>4. QED
    BY <2>1, <2>2, <2>3
<1>2. ASSUME NEW n \in S
      PROVE  IsFiniteSet(upTo(n)) /\ Cardinality(upTo(n)) \in 1..c
  <2>1. upTo(n) \subseteq S /\ n \in upTo(n)
    BY <1>1
  <2>2. IsFiniteSet(upTo(n)) /\ Cardinality(upTo(n)) <= c
    BY <1>1, <2>1, FS_Subset
  <2>3. Cardinality(upTo(n)) \in Nat /\ Cardinality(upTo(n)) # 0
    BY <2>1, <2>2, FS_CardinalityType, FS_EmptySet
  <2>4. QED
    BY <1>1, <2>2, <2>3
<1>3. ASSUME NEW n \in S, NEW m \in S, m < n PROVE Cardinality(upTo(m)) # Cardinality(upTo(n))
  <2>0. /\ \A x \in S : x <= m => x <= n
        /\ n <= n /\ ~(n <= m)
    BY <1>1, <1>3
  <2>1. upTo(m) \subseteq upTo(n) /\ n \in upTo(n) /\ n \notin upTo(m)
    BY <2>0
  <2>2. upTo(m) # upTo(n)
    BY <2>1
  <2>3. QED
    BY <1>2, <2>1, <2>2, FS_Subset
<1>4. rank \in [S -> 1..c]
  BY <1>2
<1>5. \A n \in S, m \in S : rank[n] = rank[m] => n = m
  <2>1. SUFFICES ASSUME NEW n \in S, NEW m \in S, n # m PROVE rank[n] # rank[m]
    OBVIOUS
  <2>2. m < n \/ n < m
    BY <1>1, <2>1
  <2>3. rank[n] = Cardinality(upTo(n)) /\ rank[m] = Cardinality(upTo(m))
    OBVIOUS
  <2> HIDE DEF upTo, rank
  <2>4. QED
    BY <1>3, <2>2, <2>3
<1>6. rank \in Injection(S, 1..c)
  BY <1>4, <1>5 DEF Injection, IsInjective
<1>7. Cardinality(1..c) = c
  BY <1>1, FS_Interval
<1>8. rank \in Surjection(S, 1..c)
  <2> HIDE DEF rank, upTo
  <2>1. IsFiniteSet(1..c)
    BY <1>1, FS_Interval
  <2>2. QED
    BY <1>1, <1>6, <1>7, <2>1, FS_Injection, Zenon
<1>9. \A k \in 1..c : \E n \in S : rank[n] = k
  BY <1>8 DEF Surjection
<1>10. ASSUME NEW k \in 1..c PROVE o[k] \in S /\ rank[o[k]] = k
  <2>1. o[k] = CHOOSE n \in S : Cardinality(upTo(n)) = k
    BY <1>10 DEF InOrder
  <2>2. PICK n \in S : rank[n] = k
    BY <1>9, <1>10
  <2>3. \A x \in S : rank[x] = Cardinality(upTo(x))
    OBVIOUS
  <2> HIDE DEF upTo, rank, o
  <2>4. Cardinality(upTo(o[k])) = k /\ o[k] \in S
    BY <2>1, <2>2, <2>3
  <2>5. QED
    BY <2>3, <2>4
<1>11. o = [k \in 1..c |-> o[k]]
  BY DEF InOrder
<1> HIDE DEF rank, upTo
<1>12. o \in Seq(S) /\ Len(o) = c
  <2> HIDE DEF o
  <2>1. o \in [1..c -> S]
    BY <1>10, <1>11
  <2>2. QED
    BY <1>1, <2>1
<1>13. NoTwice(o)
  <2> HIDE DEF o
  <2>1. QED
    BY <1>10, <1>12 DEF NoTwice
<1>14. ToSet(o) = S
  <2> HIDE DEF o
  <2>1. ASSUME NEW n \in S PROVE n \in ToSet(o)
    <3>1. rank[n] \in 1..c /\ o[rank[n]] \in S /\ rank[o[rank[n]]] = rank[n]
      BY <1>4, <1>10
    <3>2. o[rank[n]] = n
      BY <1>5, <3>1
    <3>3. QED
      BY <1>12, <3>1, <3>2, InSeq
  <2>2. ASSUME NEW n \in ToSet(o) PROVE n \in S
    BY <1>10, <1>12, <2>2, InSeq
  <2>3. QED
    BY <2>1, <2>2
<1>15. o = <<>> <=> S = {}
  <2> HIDE DEF o
  <2>1. S = {} <=> c = 0
    BY <1>1, FS_EmptySet
  <2>2. o = <<>> <=> c = 0
    BY <1>1, <1>12
  <2>3. QED
    BY <2>1, <2>2
<1>16. o \in Seq(Stops)
  <2> HIDE DEF o
  <2>1. QED
    BY <1>12
<1>17. QED
  BY <1>12, <1>13, <1>14, <1>15, <1>16

-----------------------------------------------------------------------------
(***************************************************************************)
(* The requests.  An id is at one place, and moves from there to another   *)
(* or gets its answer.                                                     *)
(***************************************************************************)

\* What a request about a thread, a reference or a file's breakpoints names.
LEMMA AskedOf ==
  ASSUME NEW r \in Asked
  PROVE  /\ r.command \in OfThread \cup OfReference => r.of \in Stops
         /\ r.command = "setBreakpoints" => r.file \in Files /\ r.after \subseteq Files
         /\ r.command \in Commands => r # NoRequest
<1>1. CASE r = NoRequest
  <2>1. r.command = "none"
    BY <1>1 DEF NoRequest
  <2>2. QED
    BY <1>1, <2>1, AdapterAssumption DEF OfThread, OfReference
<1>2. CASE r \in [command : Commands \ (OfThread \cup OfReference \cup {"setBreakpoints"})]
  <2>1. r.command \in Commands \ (OfThread \cup OfReference \cup {"setBreakpoints"})
    BY <1>2
  <2>2. r.command # "none"
    BY <2>1, AdapterAssumption
  <2>3. QED
    BY <2>1, <2>2 DEF NoRequest
<1>3. CASE r \in [command : OfThread \cup OfReference, of : Stops]
  <2>1. r.command \in OfThread \cup OfReference /\ r.of \in Stops
    BY <1>3
  <2>2. r.command # "none" /\ r.command # "setBreakpoints"
    BY <2>1 DEF OfThread, OfReference
  <2>3. QED
    BY <2>1, <2>2 DEF NoRequest
<1>4. CASE r \in [command : {"setBreakpoints"}, file : Files, after : SUBSET Files]
  <2>1. r.command = "setBreakpoints" /\ r.file \in Files /\ r.after \subseteq Files
    BY <1>4
  <2>2. QED
    BY <2>1 DEF NoRequest, OfThread, OfReference
<1>5. QED
  BY <1>1, <1>2, <1>3, <1>4 DEF Asked

\* A client can only ask what it may have asked for.
LEMMA RequestsAreAsked ==
  ASSUME NEW c \in Commands, NEW r \in Requests(c)
  PROVE  /\ r \in Asked /\ r # NoRequest
         /\ r.command \in OfThread \cup OfReference => told[r.of] > 0
<1>1. CASE c = "setBreakpoints"
  <2>1. r \in {[command |-> c, file |-> f, after |-> {}] : f \in Files} \cup
                {[command |-> c, file |-> a[1], after |-> {a[2]}] : a \in After}
    BY <1>1 DEF Requests
  <2>2. \A a \in After : a[1] \in Files /\ a[2] \in Files
    BY AdapterAssumption
  <2>3. r \in [command : {"setBreakpoints"}, file : Files, after : SUBSET Files]
    BY <1>1, <2>1, <2>2
  <2>4. r.command = "setBreakpoints"
    BY <2>3
  <2>5. QED
    BY <2>3, <2>4 DEF Asked, NoRequest, OfThread, OfReference
<1>2. CASE c # "setBreakpoints" /\ c \in OfThread \cup OfReference
  <2>1. r \in {[command |-> c, of |-> n] : n \in {m \in Stops : told[m] > 0}}
    BY <1>2 DEF Requests
  <2>2. r \in [command : OfThread \cup OfReference, of : Stops] /\ told[r.of] > 0 /\ r.command = c
    BY <1>2, <2>1
  <2>3. c # "none"
    BY <1>2 DEF OfThread, OfReference
  <2>4. QED
    BY <2>2, <2>3 DEF Asked, NoRequest
<1>3. CASE c # "setBreakpoints" /\ c \notin OfThread \cup OfReference
  <2>1. r = [command |-> c]
    BY <1>3 DEF Requests
  <2>2. r \in [command : Commands \ (OfThread \cup OfReference \cup {"setBreakpoints"})] /\ r.command = c
    BY <1>3, <2>1
  <2>3. c # "none"
    BY AdapterAssumption
  <2>4. QED
    BY <1>3, <2>2, <2>3 DEF Asked, NoRequest
<1>4. QED
  BY <1>1, <1>2, <1>3

\* No request moves, and no stop is told less often.
LEMMA RequestsStay ==
  ASSUME Requested, UNCHANGED <<request, answers, inbox, queue, deferred, hand>>,
         pc' \in {"joining", "done"} => pc \in {"joining", "done"} /\ ended' = ended,
         \A n \in Stops : told[n] > 0 => told'[n] > 0
  PROVE  Requested'
<1>1. ShapeOfRequests'
  BY DEF Requested, ShapeOfRequests
<1>2. Owed'
  BY Zenon DEF Requested, Owed
<1>3. Named'
  <2>1. SUFFICES ASSUME NEW i \in Ids, request[i].command \in OfThread \cup OfReference
                 PROVE  told'[request[i].of] > 0
    BY DEF Named
  <2>2. request[i].of \in Stops
    BY <2>1, AskedOf DEF Requested, ShapeOfRequests
  <2>3. QED
    BY <2>1, <2>2 DEF Requested, Named
<1>4. QED
  BY <1>1, <1>2, <1>3 DEF Requested

\* An answer, to one that is then at no place.
LEMMA Answered ==
  ASSUME Requested, NEW i \in Ids, Responds(i), answers[i] = 0
  PROVE  /\ request' \in [Ids -> Asked] /\ answers' \in [Ids -> Nat]
         /\ request'[i] = NoRequest /\ answers'[i] = 1
         /\ \A j \in Ids \ {i} : request'[j] = request[j] /\ answers'[j] = answers[j]
         /\ UNCHANGED told => Named'
<1>1. /\ request \in [Ids -> Asked] /\ answers \in [Ids -> Nat]
      /\ request' = [request EXCEPT ![i] = NoRequest] /\ answers' = [answers EXCEPT ![i] = @ + 1]
  BY DEF Requested, ShapeOfRequests, Responds
<1>2. NoRequest \in Asked /\ NoRequest.command \notin OfThread \cup OfReference
  BY DEF Asked, NoRequest, OfThread, OfReference
<1>3. /\ request' \in [Ids -> Asked] /\ request'[i] = NoRequest
      /\ \A j \in Ids \ {i} : request'[j] = request[j]
  BY <1>1, <1>2
<1>4. answers' \in [Ids -> Nat] /\ answers'[i] = 1 /\ \A j \in Ids \ {i} : answers'[j] = answers[j]
  BY <1>1
<1>5. ASSUME UNCHANGED told PROVE Named'
  BY <1>2, <1>3, <1>5 DEF Requested, Named
<1>6. QED
  BY <1>3, <1>4, <1>5

\* The answer to the request in hand.
LEMMA PutsDown ==
  ASSUME Requested, hand \in Ids, Responds(hand), hand' = 0, UNCHANGED <<inbox, queue, deferred, told>>,
         pc' \notin {"joining", "done"}
  PROVE  Requested'
<1> DEFINE I == ToSet(inbox)
           Q == ToSet(queue)
           D == ToSet(deferred)
<1>1. answers[hand] = 0 /\ hand \notin I /\ hand \notin Q /\ hand \notin D /\ 0 \notin Ids
  BY AdapterAssumption DEF Requested, Owed
<1>2. /\ request' \in [Ids -> Asked] /\ answers' \in [Ids -> Nat]
      /\ request'[hand] = NoRequest /\ answers'[hand] = 1
      /\ \A j \in Ids \ {hand} : request'[j] = request[j] /\ answers'[j] = answers[j]
      /\ Named'
  BY <1>1, Answered
<1>3. ToSet(inbox') = I /\ ToSet(queue') = Q /\ ToSet(deferred') = D
  OBVIOUS
<1>4. /\ NoTwice(inbox) /\ NoTwice(queue) /\ NoTwice(deferred) /\ I \cap Q = {} /\ I \cap D = {} /\ Q \cap D = {}
      /\ \A i \in Ids : request[i] # NoRequest <=> i = hand \/ i \in I \/ i \in Q \/ i \in D
      /\ \A i \in Ids : answers[i] <= 1 /\ (request[i] # NoRequest => answers[i] = 0)
  BY DEF Requested, Owed
<1> HIDE DEF I, Q, D
<1>5. \A i \in Ids : request'[i] # NoRequest <=> i = hand' \/ i \in I \/ i \in Q \/ i \in D
  BY <1>1, <1>2, <1>4, Zenon
<1>6. \A i \in Ids : answers'[i] <= 1 /\ (request'[i] # NoRequest => answers'[i] = 0)
  <2>1. SUFFICES ASSUME NEW i \in Ids PROVE answers'[i] <= 1 /\ (request'[i] # NoRequest => answers'[i] = 0)
    OBVIOUS
  <2>2. CASE i = hand
    BY <1>2, <2>2
  <2>3. CASE i # hand
    BY <1>2, <1>4, <2>3
  <2>4. QED
    BY <2>2, <2>3
<1>7. Owed'
  BY <1>1, <1>3, <1>4, <1>5, <1>6 DEF Owed
<1>8. ShapeOfRequests'
  BY <1>2 DEF Requested, ShapeOfRequests
<1>9. QED
  BY <1>2, <1>7, <1>8 DEF Requested

\* A request is moved from one place to another.
LEMMA Moved ==
  ASSUME Requested, UNCHANGED <<request, answers, told>>,
         inbox' \in Seq(Ids \cup {"eof"}), queue' \in Seq(Ids), deferred' \in Seq(Ids), hand' \in Ids \cup {0},
         NoTwice(inbox'), NoTwice(queue'), NoTwice(deferred'),
         ToSet(inbox') \cap ToSet(queue') = {}, ToSet(inbox') \cap ToSet(deferred') = {},
         ToSet(queue') \cap ToSet(deferred') = {},
         hand' \in Ids => hand' \notin ToSet(inbox') \cup ToSet(queue') \cup ToSet(deferred'),
         \A i \in Ids : i = hand \/ i \in ToSet(inbox) \cup ToSet(queue) \cup ToSet(deferred) <=>
                        i = hand' \/ i \in ToSet(inbox') \cup ToSet(queue') \cup ToSet(deferred'),
         ~(pc' \in {"joining", "done"} /\ ended' = "client")
  PROVE  Requested'
<1>1. ShapeOfRequests'
  BY DEF Requested, ShapeOfRequests
<1>2. /\ \A i \in Ids : request[i] # NoRequest <=>
                          i = hand \/ i \in ToSet(inbox) \cup ToSet(queue) \cup ToSet(deferred)
      /\ \A i \in Ids : answers[i] <= 1 /\ (request[i] # NoRequest => answers[i] = 0)
  BY DEF Requested, Owed
<1>3. /\ \A i \in Ids : request'[i] # NoRequest <=>
                          i = hand' \/ i \in ToSet(inbox') \cup ToSet(queue') \cup ToSet(deferred')
      /\ \A i \in Ids : answers'[i] <= 1 /\ (request'[i] # NoRequest => answers'[i] = 0)
  BY <1>2, Zenon
<1>4. Owed'
  BY <1>3, Zenon DEF Owed
<1>5. Named'
  BY Zenon DEF Requested, Named
<1>6. QED
  BY <1>1, <1>4, <1>5 DEF Requested

\* What the places hold, where the invariant holds.
LEMMA PlacesAre ==
  ASSUME Requested
  PROVE  /\ inbox \in Seq(Ids \cup {"eof"}) /\ queue \in Seq(Ids) /\ deferred \in Seq(Ids) /\ hand \in Ids \cup {0}
         /\ NoTwice(inbox) /\ NoTwice(queue) /\ NoTwice(deferred)
         /\ ToSet(inbox) \cap ToSet(queue) = {} /\ ToSet(inbox) \cap ToSet(deferred) = {}
         /\ ToSet(queue) \cap ToSet(deferred) = {}
         /\ hand \in Ids => hand \notin ToSet(inbox) \cup ToSet(queue) \cup ToSet(deferred)
         /\ \A i \in Ids : request[i] # NoRequest <=>
                             i = hand \/ i \in ToSet(inbox) \cup ToSet(queue) \cup ToSet(deferred)
         /\ \A i \in Ids : request[i] # NoRequest => answers[i] = 0
         /\ \A i \in Ids : answers[i] <= 1
         /\ request \in [Ids -> Asked] /\ answers \in [Ids -> Nat]
BY Zenon DEF Requested, ShapeOfRequests, Owed

\* What the client sends is on its half of the connection.
LEMMA SendRequests ==
  ASSUME Requested, Placed, NEW i \in Ids, Send(i)
  PROVE  Requested'
<1> DEFINE I == ToSet(inbox)
           Q == ToSet(queue)
           D == ToSet(deferred)
<1>0. PICK c \in Commands \ {"eof"} : \E r \in Requests(c) :
         request' = [request EXCEPT ![i] = r] /\ answers' = [answers EXCEPT ![i] = 0] /\ inbox' = Append(inbox, i)
  BY DEF Send
<1>1. PICK r \in Requests(c) :
         request' = [request EXCEPT ![i] = r] /\ answers' = [answers EXCEPT ![i] = 0] /\ inbox' = Append(inbox, i)
  BY <1>0
<1>2. r \in Asked /\ r # NoRequest /\ (r.command \in OfThread \cup OfReference => told[r.of] > 0)
  BY RequestsAreAsked
<1>3. request[i] = NoRequest /\ UNCHANGED <<queue, deferred, hand, told, pc, ended>>
  BY DEF Send, Outstanding, loop, telling
<1>4. i # hand /\ i \notin I /\ i \notin Q /\ i \notin D
  BY <1>3, PlacesAre
<1>5. inbox' \in Seq(Ids \cup {"eof"}) /\ NoTwice(inbox') /\ ToSet(inbox') = I \cup {i}
  BY <1>1, <1>4, PlacesAre, AppendOnce
<1>6. /\ request' \in [Ids -> Asked] /\ request'[i] = r /\ \A j \in Ids \ {i} : request'[j] = request[j]
      /\ answers' \in [Ids -> Nat] /\ answers'[i] = 0 /\ \A j \in Ids \ {i} : answers'[j] = answers[j]
  BY <1>1, <1>2, PlacesAre
<1>7. ToSet(queue') = Q /\ ToSet(deferred') = D
  BY <1>3
<1>8. ShapeOfRequests'
  BY <1>3, <1>5, <1>6 DEF Requested, ShapeOfRequests
<1>9. Named'
  BY <1>2, <1>3, <1>6 DEF Requested, Named
<1>10. /\ NoTwice(queue) /\ NoTwice(deferred) /\ I \cap Q = {} /\ I \cap D = {} /\ Q \cap D = {}
       /\ hand \in Ids => hand \notin I /\ hand \notin Q /\ hand \notin D
       /\ \A j \in Ids : request[j] # NoRequest <=> j = hand \/ j \in I \/ j \in Q \/ j \in D
       /\ \A j \in Ids : answers[j] <= 1 /\ (request[j] # NoRequest => answers[j] = 0)
       /\ pc \in {"joining", "done"} /\ ended = "client" => queue = <<>> /\ deferred = <<>>
  BY DEF Requested, Owed
<1> HIDE DEF I, Q, D
<1>11. \A j \in Ids : request'[j] # NoRequest <=> j = hand' \/ j \in ToSet(inbox') \/ j \in Q \/ j \in D
  BY <1>2, <1>3, <1>4, <1>5, <1>6, <1>10
<1>12. \A j \in Ids : answers'[j] <= 1 /\ (request'[j] # NoRequest => answers'[j] = 0)
  <2>1. SUFFICES ASSUME NEW j \in Ids PROVE answers'[j] <= 1 /\ (request'[j] # NoRequest => answers'[j] = 0)
    OBVIOUS
  <2>2. CASE j = i
    BY <1>6, <2>2
  <2>3. CASE j # i
    BY <1>6, <1>10, <2>3
  <2>4. QED
    BY <2>2, <2>3
<1>13. Owed'
  BY <1>3, <1>4, <1>5, <1>7, <1>10, <1>11, <1>12 DEF Owed
<1>14. QED
  BY <1>8, <1>9, <1>13 DEF Requested

\* The end of the connection is on it once.
LEMMA HangUpRequests ==
  ASSUME Requested, HangUp
  PROVE  Requested'
<1>1. /\ inbox' = Append(inbox, "eof") /\ \A k \in 1..Len(inbox) : inbox[k] # "eof"
      /\ UNCHANGED <<request, answers, queue, deferred, hand, told, pc, ended>>
  BY DEF HangUp, loop, telling
<1>2. "eof" \notin ToSet(inbox) /\ "eof" \notin Ids
  BY <1>1, PlacesAre, InSeq, AdapterAssumption
<1>3. inbox' \in Seq(Ids \cup {"eof"}) /\ NoTwice(inbox') /\ ToSet(inbox') = ToSet(inbox) \cup {"eof"}
  BY <1>1, <1>2, PlacesAre, AppendOnce
<1>4. ToSet(queue) \subseteq Ids /\ ToSet(deferred) \subseteq Ids
  BY PlacesAre, SeqWithin
<1>5. ShapeOfRequests'
  BY <1>1, <1>3 DEF Requested, ShapeOfRequests
<1>6. Named'
  BY <1>1, Zenon DEF Requested, Named
<1> DEFINE I == ToSet(inbox)
           Q == ToSet(queue)
           D == ToSet(deferred)
<1>7. /\ NoTwice(queue) /\ NoTwice(deferred) /\ I \cap Q = {} /\ I \cap D = {} /\ Q \cap D = {}
      /\ hand \in Ids => hand \notin I /\ hand \notin Q /\ hand \notin D
      /\ \A j \in Ids : request[j] # NoRequest <=> j = hand \/ j \in I \/ j \in Q \/ j \in D
      /\ \A j \in Ids : answers[j] <= 1 /\ (request[j] # NoRequest => answers[j] = 0)
      /\ pc \in {"joining", "done"} /\ ended = "client" => queue = <<>> /\ deferred = <<>>
  BY DEF Requested, Owed
<1>8. ToSet(queue') = Q /\ ToSet(deferred') = D
  BY <1>1
<1> HIDE DEF I, Q, D
<1>9. \A j \in Ids : j \in ToSet(inbox') <=> j \in I
  BY <1>2, <1>3 DEF I
<1>10. ToSet(inbox') \cap Q = {} /\ ToSet(inbox') \cap D = {}
  BY <1>2, <1>3, <1>4, <1>7 DEF I, Q, D
<1>11. \A j \in Ids : request'[j] # NoRequest <=> j = hand' \/ j \in ToSet(inbox') \/ j \in Q \/ j \in D
  BY <1>1, <1>7, <1>9, Zenon
<1>12. Owed'
  BY <1>1, <1>3, <1>7, <1>8, <1>9, <1>10, <1>11 DEF Owed
<1>13. QED
  BY <1>5, <1>6, <1>12 DEF Requested

\* The reader takes a request off the connection for the loop.
LEMMA ReadRequestRequests ==
  ASSUME Requested, Placed, NEW i \in Ids, ReadRequest(i)
  PROVE  Requested'
<1>1. /\ reader = "reading" /\ inbox # <<>> /\ Head(inbox) = i
      /\ inbox' = Tail(inbox) /\ queue' = Append(queue, i)
      /\ UNCHANGED <<request, answers, deferred, hand, told, pc, ended>>
  BY DEF ReadRequest, Reads, loop, telling
<1>2. /\ inbox' \in Seq(Ids \cup {"eof"}) /\ NoTwice(inbox') /\ i \in ToSet(inbox)
      /\ ToSet(inbox') = ToSet(inbox) \ {i}
  BY <1>1, PlacesAre, TailOnce
<1>3. i \notin ToSet(queue) /\ i \notin ToSet(deferred)
  BY <1>2, PlacesAre
<1>4. queue' \in Seq(Ids) /\ NoTwice(queue') /\ ToSet(queue') = ToSet(queue) \cup {i}
  BY <1>1, <1>3, PlacesAre, AppendOnce
<1>5. ToSet(deferred') = ToSet(deferred) /\ hand' = hand /\ ended' # "client"
  BY <1>1 DEF Placed, Control
<1> DEFINE I == ToSet(inbox)
           Q == ToSet(queue)
           D == ToSet(deferred)
<1>6. /\ NoTwice(deferred) /\ I \cap Q = {} /\ I \cap D = {} /\ Q \cap D = {}
      /\ hand \in Ids => hand \notin I \cup Q \cup D
  BY PlacesAre
<1>7. deferred' \in Seq(Ids) /\ NoTwice(deferred') /\ hand' \in Ids \cup {0}
  BY <1>1, PlacesAre
<1>8. ToSet(inbox') = I \ {i} /\ ToSet(queue') = Q \cup {i} /\ ToSet(deferred') = D /\ i \in I
  BY <1>2, <1>4, <1>5
<1> HIDE DEF I, Q, D
<1>9. /\ ToSet(inbox') \cap ToSet(queue') = {} /\ ToSet(inbox') \cap ToSet(deferred') = {}
      /\ ToSet(queue') \cap ToSet(deferred') = {}
      /\ hand' \in Ids => hand' \notin ToSet(inbox') \cup ToSet(queue') \cup ToSet(deferred')
      /\ \A j : j = hand \/ j \in I \cup Q \cup D <=>
                j = hand' \/ j \in ToSet(inbox') \cup ToSet(queue') \cup ToSet(deferred')
  BY <1>5, <1>6, <1>8
<1>10. QED
  BY <1>1, <1>2, <1>4, <1>5, <1>7, <1>9, Moved DEF I, Q, D

\* The reader answers a request itself.
LEMMA ReaderAnswers ==
  ASSUME Requested, NEW i \in Ids, inbox # <<>>, Head(inbox) = i, inbox' = Tail(inbox), Responds(i),
         UNCHANGED <<queue, deferred, hand, told, pc, ended>>
  PROVE  Requested'
<1> DEFINE I == ToSet(inbox)
           Q == ToSet(queue)
           D == ToSet(deferred)
<1>1. /\ inbox' \in Seq(Ids \cup {"eof"}) /\ NoTwice(inbox') /\ i \in I /\ ToSet(inbox') = I \ {i}
  BY PlacesAre, TailOnce
<1>2. request[i] # NoRequest /\ answers[i] = 0 /\ i # hand /\ i \notin Q /\ i \notin D
  BY <1>1, PlacesAre
<1>3. /\ request' \in [Ids -> Asked] /\ answers' \in [Ids -> Nat]
      /\ request'[i] = NoRequest /\ answers'[i] = 1
      /\ \A j \in Ids \ {i} : request'[j] = request[j] /\ answers'[j] = answers[j]
      /\ Named'
  BY <1>2, Answered
<1>4. /\ NoTwice(queue) /\ NoTwice(deferred) /\ I \cap Q = {} /\ I \cap D = {} /\ Q \cap D = {}
      /\ hand \in Ids => hand \notin I /\ hand \notin Q /\ hand \notin D
      /\ \A j \in Ids : request[j] # NoRequest <=> j = hand \/ j \in I \/ j \in Q \/ j \in D
      /\ \A j \in Ids : answers[j] <= 1 /\ (request[j] # NoRequest => answers[j] = 0)
      /\ pc \in {"joining", "done"} /\ ended = "client" => queue = <<>> /\ deferred = <<>>
  BY DEF Requested, Owed
<1>5. ToSet(queue') = Q /\ ToSet(deferred') = D
  OBVIOUS
<1>6. ShapeOfRequests'
  BY <1>1, <1>3 DEF Requested, ShapeOfRequests
<1> HIDE DEF I, Q, D
<1>7. \A j \in Ids : request'[j] # NoRequest <=> j = hand' \/ j \in ToSet(inbox') \/ j \in Q \/ j \in D
  BY <1>1, <1>2, <1>3, <1>4
<1>8. \A j \in Ids : answers'[j] <= 1 /\ (request'[j] # NoRequest => answers'[j] = 0)
  <2>1. SUFFICES ASSUME NEW j \in Ids PROVE answers'[j] <= 1 /\ (request'[j] # NoRequest => answers'[j] = 0)
    OBVIOUS
  <2>2. CASE j = i
    BY <1>3, <2>2
  <2>3. CASE j # i
    BY <1>3, <1>4, <2>3
  <2>4. QED
    BY <2>2, <2>3
<1>9. Owed'
  BY <1>1, <1>4, <1>5, <1>7, <1>8 DEF Owed
<1>10. QED
  BY <1>3, <1>6, <1>9 DEF Requested

\* The reader takes the end of the connection off it.
LEMMA ReadEndRequests ==
  ASSUME Requested, ReadEnd
  PROVE  Requested'
<1>1. /\ inbox # <<>> /\ Head(inbox) = "eof" /\ inbox' = Tail(inbox)
      /\ UNCHANGED <<request, answers, queue, deferred, hand, told, pc, ended>>
  BY DEF ReadEnd, Reads, loop, telling
<1>2. inbox' \in Seq(Ids \cup {"eof"}) /\ NoTwice(inbox') /\ ToSet(inbox') = ToSet(inbox) \ {"eof"}
  BY <1>1, PlacesAre, TailOnce
<1>3. ShapeOfRequests'
  BY <1>1, <1>2 DEF Requested, ShapeOfRequests
<1>4. Named'
  BY <1>1, Zenon DEF Requested, Named
<1> DEFINE I == ToSet(inbox)
           Q == ToSet(queue)
           D == ToSet(deferred)
<1>5. /\ NoTwice(queue) /\ NoTwice(deferred) /\ I \cap Q = {} /\ I \cap D = {} /\ Q \cap D = {}
      /\ hand \in Ids => hand \notin I /\ hand \notin Q /\ hand \notin D
      /\ \A j \in Ids : request[j] # NoRequest <=> j = hand \/ j \in I \/ j \in Q \/ j \in D
      /\ \A j \in Ids : answers[j] <= 1 /\ (request[j] # NoRequest => answers[j] = 0)
      /\ pc \in {"joining", "done"} /\ ended = "client" => queue = <<>> /\ deferred = <<>>
  BY DEF Requested, Owed
<1>6. ToSet(queue') = Q /\ ToSet(deferred') = D
  BY <1>1
<1>7. ToSet(inbox') = I \ {"eof"}
  BY <1>2
<1> HIDE DEF I, Q, D
<1>8. \A j \in Ids : j \in ToSet(inbox') <=> j \in I
  BY <1>7, AdapterAssumption
<1>9. ToSet(inbox') \cap Q = {} /\ ToSet(inbox') \cap D = {}
  BY <1>5, <1>7
<1>10. \A j \in Ids : request'[j] # NoRequest <=> j = hand' \/ j \in ToSet(inbox') \/ j \in Q \/ j \in D
  BY <1>1, <1>5, <1>8, Zenon
<1>11. Owed'
  BY <1>1, <1>2, <1>5, <1>6, <1>8, <1>9, <1>10 DEF Owed
<1>12. QED
  BY <1>3, <1>4, <1>11 DEF Requested

\* The head of the queue is set aside.
LEMMA SetAsideRequests ==
  ASSUME Requested, queue # <<>>, deferred' = Append(deferred, Head(queue)), queue' = Tail(queue),
         UNCHANGED <<request, answers, inbox, hand, told>>, pc' \notin {"joining", "done"}
  PROVE  Requested'
<1> DEFINE i == Head(queue)
           I == ToSet(inbox)
           Q == ToSet(queue)
           D == ToSet(deferred)
<1>1. queue' \in Seq(Ids) /\ NoTwice(queue') /\ i \in Q /\ i \in Ids /\ ToSet(queue') = Q \ {i}
  BY PlacesAre, TailOnce
<1>2. i \notin D
  BY <1>1, PlacesAre
<1>3. deferred' \in Seq(Ids) /\ NoTwice(deferred') /\ ToSet(deferred') = D \cup {i}
  BY <1>1, <1>2, PlacesAre, AppendOnce
<1>4. /\ NoTwice(inbox) /\ I \cap Q = {} /\ I \cap D = {} /\ Q \cap D = {}
      /\ hand \in Ids => hand \notin I \cup Q \cup D
  BY PlacesAre
<1>5. inbox' \in Seq(Ids \cup {"eof"}) /\ NoTwice(inbox') /\ hand' \in Ids \cup {0} /\ ToSet(inbox') = I
  BY PlacesAre
<1> HIDE DEF i, I, Q, D
<1>6. /\ ToSet(inbox') \cap ToSet(queue') = {} /\ ToSet(inbox') \cap ToSet(deferred') = {}
      /\ ToSet(queue') \cap ToSet(deferred') = {}
      /\ hand' \in Ids => hand' \notin ToSet(inbox') \cup ToSet(queue') \cup ToSet(deferred')
      /\ \A j : j = hand \/ j \in I \cup Q \cup D <=>
                j = hand' \/ j \in ToSet(inbox') \cup ToSet(queue') \cup ToSet(deferred')
  BY <1>1, <1>3, <1>4, <1>5
<1>7. QED
  BY <1>1, <1>3, <1>5, <1>6, Moved DEF I, Q, D

\* A turn takes one request off the queue at most.
LEMMA TurnRequests ==
  ASSUME Requested, Placed, Turn
  PROVE  Requested'
<1>1. /\ UNCHANGED <<request, answers, inbox, hand, told>> /\ pc' \in {"leaving", "wait", "take"}
      /\ \/ deferred = <<>> /\ queue # <<>> /\ deferred' = <<Head(queue)>> /\ queue' = Tail(queue)
         \/ UNCHANGED <<deferred, queue>>
  BY DEF Turn, Leaves, client, telling
<1>2. CASE deferred = <<>> /\ queue # <<>> /\ deferred' = <<Head(queue)>> /\ queue' = Tail(queue)
  <2>1. deferred' = Append(deferred, Head(queue))
    BY <1>2
  <2>2. QED
    BY <1>1, <1>2, <2>1, SetAsideRequests
<1>3. CASE UNCHANGED <<deferred, queue>>
  BY <1>1, <1>3, RequestsStay
<1>4. QED
  BY <1>1, <1>2, <1>3

\* A request is taken in hand from where it waited.
LEMMA TakeRequests ==
  ASSUME Requested, Placed, Take
  PROVE  Requested'
<1>1. UNCHANGED <<request, answers, inbox, told>> /\ pc = "take"
  BY DEF Take, client, telling
<1>2. hand \notin Ids /\ hand = 0
  BY <1>1, PlacesAre DEF Placed, Control, Serving
<1> DEFINE I == ToSet(inbox)
           Q == ToSet(queue)
           D == ToSet(deferred)
<1>3. /\ NoTwice(inbox) /\ NoTwice(queue) /\ NoTwice(deferred)
      /\ I \cap Q = {} /\ I \cap D = {} /\ Q \cap D = {} /\ 0 \notin Ids
      /\ inbox' \in Seq(Ids \cup {"eof"}) /\ NoTwice(inbox') /\ ToSet(inbox') = I
      /\ I \cap Ids \subseteq Ids /\ Q \subseteq Ids /\ D \subseteq Ids
  BY <1>1, PlacesAre, SeqWithin, AdapterAssumption
<1>4. CASE deferred # <<>> /\ Takes(Head(deferred)) /\ deferred' = Tail(deferred) /\ UNCHANGED queue
  <2> DEFINE i == Head(deferred)
  <2>1. deferred' \in Seq(Ids) /\ NoTwice(deferred') /\ i \in D /\ i \in Ids /\ ToSet(deferred') = D \ {i}
    BY <1>4, PlacesAre, TailOnce
  <2>2. hand' = i /\ pc' \in {"look", "handle"} /\ queue' \in Seq(Ids) /\ NoTwice(queue') /\ ToSet(queue') = Q
    BY <1>4, PlacesAre DEF Takes
  <2> HIDE DEF i, I, Q, D
  <2>3. /\ ToSet(inbox') \cap ToSet(queue') = {} /\ ToSet(inbox') \cap ToSet(deferred') = {}
        /\ ToSet(queue') \cap ToSet(deferred') = {}
        /\ hand' \in Ids => hand' \notin ToSet(inbox') \cup ToSet(queue') \cup ToSet(deferred')
    BY <1>3, <2>1, <2>2
  <2>4. \A j \in Ids : j = hand \/ j \in I \cup Q \cup D <=>
                j = hand' \/ j \in ToSet(inbox') \cup ToSet(queue') \cup ToSet(deferred')
    BY <1>2, <1>3, <2>1, <2>2
  <2>5. QED
    BY <1>1, <1>3, <2>1, <2>2, <2>3, <2>4, Moved DEF I, Q, D
<1>5. CASE queue # <<>> /\ Takes(Head(queue)) /\ queue' = Tail(queue) /\ UNCHANGED deferred
  <2> DEFINE i == Head(queue)
  <2>1. queue' \in Seq(Ids) /\ NoTwice(queue') /\ i \in Q /\ i \in Ids /\ ToSet(queue') = Q \ {i}
    BY <1>5, PlacesAre, TailOnce
  <2>2. /\ hand' = i /\ pc' \in {"look", "handle"}
        /\ deferred' \in Seq(Ids) /\ NoTwice(deferred') /\ ToSet(deferred') = D
    BY <1>5, PlacesAre DEF Takes
  <2> HIDE DEF i, I, Q, D
  <2>3. /\ ToSet(inbox') \cap ToSet(queue') = {} /\ ToSet(inbox') \cap ToSet(deferred') = {}
        /\ ToSet(queue') \cap ToSet(deferred') = {}
        /\ hand' \in Ids => hand' \notin ToSet(inbox') \cup ToSet(queue') \cup ToSet(deferred')
    BY <1>3, <2>1, <2>2
  <2>4. \A j \in Ids : j = hand \/ j \in I \cup Q \cup D <=>
                j = hand' \/ j \in ToSet(inbox') \cup ToSet(queue') \cup ToSet(deferred')
    BY <1>2, <1>3, <2>1, <2>2
  <2>5. QED
    BY <1>1, <1>3, <2>1, <2>2, <2>3, <2>4, Moved DEF I, Q, D
<1>6. CASE Leaves("client") /\ UNCHANGED <<hand, queue, deferred>>
  BY <1>1, <1>6, RequestsStay DEF Leaves
<1>7. QED
  BY <1>4, <1>5, <1>6 DEF Take

\* Everything that is left is refused.
LEMMA RefuseRequests ==
  ASSUME Requested, Placed, RefuseWhatIsLeft
  PROVE  Requested'
<1> DEFINE I == ToSet(inbox)
           Q == ToSet(queue)
           D == ToSet(deferred)
           L == D \cup Q
<1>1. /\ answers' = [i \in Ids |-> answers[i] + (IF i \in L THEN 1 ELSE 0)]
      /\ request' = [i \in Ids |-> IF i \in L THEN NoRequest ELSE request[i]]
      /\ deferred' = <<>> /\ queue' = <<>> /\ pc = "leaving" /\ pc' = "joining"
      /\ UNCHANGED <<inbox, hand, told, ended>>
  BY DEF RefuseWhatIsLeft, telling
<1>2. hand \notin Ids /\ hand = 0
  BY <1>1, PlacesAre DEF Placed, Control, Serving
<1>3. /\ NoTwice(inbox) /\ I \cap Q = {} /\ I \cap D = {} /\ 0 \notin Ids
      /\ inbox \in Seq(Ids \cup {"eof"})
      /\ \A j \in Ids : request[j] # NoRequest <=> j = hand \/ j \in I \/ j \in Q \/ j \in D
      /\ \A j \in Ids : request[j] # NoRequest => answers[j] = 0
      /\ \A j \in Ids : answers[j] <= 1
      /\ request \in [Ids -> Asked] /\ answers \in [Ids -> Nat]
  BY PlacesAre, AdapterAssumption
<1>4. /\ queue' \in Seq(Ids) /\ deferred' \in Seq(Ids) /\ NoTwice(queue') /\ NoTwice(deferred')
      /\ ToSet(queue') = {} /\ ToSet(deferred') = {}
  BY <1>1, NoneOnce
<1>5. NoRequest \in Asked /\ NoRequest.command \notin OfThread \cup OfReference
  BY DEF Asked, NoRequest, OfThread, OfReference
<1>6. ToSet(inbox') = I
  BY <1>1
<1> HIDE DEF I, Q, D
<1>7. /\ \A j \in Ids \cap L : request'[j] = NoRequest /\ answers'[j] = answers[j] + 1
      /\ \A j \in Ids \ L : request'[j] = request[j] /\ answers'[j] = answers[j]
  BY <1>1, <1>3
<1>8. request' \in [Ids -> Asked] /\ answers' \in [Ids -> Nat]
  BY <1>1, <1>3, <1>5
<1>9. ShapeOfRequests'
  BY <1>1, <1>4, <1>8 DEF Requested, ShapeOfRequests
<1>10. Named'
  BY <1>1, <1>5, <1>7 DEF Requested, Named
<1>11. \A j \in Ids : request'[j] # NoRequest <=> j \in I
  BY <1>2, <1>3, <1>7
<1>12. \A j \in Ids : answers'[j] <= 1 /\ (request'[j] # NoRequest => answers'[j] = 0)
  <2>1. SUFFICES ASSUME NEW j \in Ids PROVE answers'[j] <= 1 /\ (request'[j] # NoRequest => answers'[j] = 0)
    OBVIOUS
  <2>2. CASE j \in L
    BY <1>3, <1>7, <2>2
  <2>3. CASE j \notin L
    BY <1>3, <1>7, <2>3
  <2>4. QED
    BY <2>2, <2>3
<1>13. Owed'
  BY <1>1, <1>2, <1>3, <1>4, <1>6, <1>11, <1>12 DEF Owed
<1>14. QED
  BY <1>9, <1>10, <1>13 DEF Requested

-----------------------------------------------------------------------------
(***************************************************************************)
(* The stops.  Each is on the connection, or held and to be announced, or  *)
(* announced and to be told, or told.                                      *)
(***************************************************************************)

\* What is known of the stops, with what is in the sequences as sets.
LEMMA StopsAre ==
  ASSUME Stopped
  PROVE  /\ line \in Seq(Stops) /\ untold \in Seq(Stops) /\ NoTwice(line) /\ NoTwice(untold)
         /\ told \in [Stops -> Nat] /\ reached \in 0..MaxStops
         /\ held \subseteq Stops /\ announced \subseteq Stops /\ handles \subseteq announced
         /\ OnLine \subseteq Stops /\ ToSet(untold) \subseteq Stops /\ AgentHolds \subseteq Stops
         /\ OnLine \cap held = {} /\ announced \cap OnLine = {}
BY SeqWithin DEF Stopped, ShapeOfStops, Made, Noted, Tellings, OnLine, AgentHolds

\* What every step does that neither reads, announces nor tells of a stop.
LEMMA StopsStay ==
  ASSUME Stopped,
         UNCHANGED <<line, held, announced, untold, handles, told, reached, begun, arrival, session>>,
         pc' = "tell" => pc = "tell", pc' = "go" <=> pc = "go", program' = "live" => program = "live"
  PROVE  Stopped'
<1>1. ShapeOfStops'
  BY DEF Stopped, ShapeOfStops
<1>2. OnLine' = OnLine /\ AgentHolds' = AgentHolds /\ ToSet(untold') = ToSet(untold) /\ ToSet(line') = ToSet(line)
  BY DEF OnLine, AgentHolds
<1>3. Made'
  BY <1>2 DEF Stopped, Made
<1>4. Noted'
  BY <1>2 DEF Stopped, Noted
<1>5. Tellings'
  BY <1>2 DEF Stopped, Tellings
<1>6. EntryIsOurs'
  BY <1>2 DEF Stopped, EntryIsOurs
<1>7. QED
  BY <1>1, <1>3, <1>4, <1>5, <1>6 DEF Stopped

\* The references of what is no longer held go, and what is new is to be told.
LEMMA Announces ==
  ASSUME Stopped, NEW h \in SUBSET AgentHolds, NEW next, Announcing(h, next), untold = <<>>,
         line' \in Seq(Stops), NoTwice(line'), ToSet(line') \subseteq OnLine, ToSet(line') \cap h = {},
         UNCHANGED <<told, reached, begun, arrival, session, program>>, next \notin {"tell", "go"},
         begun \/ arrival = "TakenUp",
         arrival = "Launched" /\ ~StopOnEntry /\ ~Fails => 1 \notin h \cup ToSet(line')
  PROVE  Stopped'
<1> DEFINE new == h \ announced
           L == ToSet(line')
           U == ToSet(untold')
<1>1. /\ held' = h /\ announced' = h /\ handles' = handles \cap h
      /\ untold' = InOrder(new) \o untold /\ pc' = IF untold' = <<>> THEN next ELSE "tell"
  BY DEF Announcing
<1>2. h \subseteq Stops /\ new \in SUBSET Stops
  BY StopsAre
<1>3. /\ InOrder(new) \in Seq(Stops) /\ NoTwice(InOrder(new)) /\ ToSet(InOrder(new)) = new
      /\ InOrder(new) = <<>> <=> new = {}
  BY <1>2, InOrderIs
<1>4. untold' = InOrder(new)
  BY <1>1, <1>3, ConcatEmptySeq
<1>5. untold' \in Seq(Stops) /\ NoTwice(untold') /\ U = new /\ (untold' = <<>> <=> new = {})
  BY <1>3, <1>4
<1>6. pc' # "go"
  BY <1>1
<1>7. ToSet(untold) = {}
  BY NoneOnce
<1>8. AgentHolds' = h \cup L /\ OnLine' = L
  BY <1>1 DEF AgentHolds, OnLine
<1>9. /\ told \in [Stops -> Nat] /\ AgentHolds \subseteq 1..reached /\ reached \in 0..MaxStops
      /\ \A n \in Stops : told[n] > 0 => n <= reached
      /\ announced \cap OnLine = {}
      /\ \A n \in Stops : told[n] <= 1
      /\ \A n \in AgentHolds \ announced : told[n] = 0
      /\ program = "live" /\ ~Fails => \A n \in announced : told[n] = 1 \/ n \in ToSet(untold)
  BY StopsAre DEF Stopped, Made, Noted, Tellings, OnLine
<1>10. OnLine \subseteq AgentHolds
  BY DEF AgentHolds
<1>11. arrival = "Launched" /\ ~StopOnEntry /\ ~Fails => told[1] = 0
  BY DEF Stopped, EntryIsOurs
<1>12. handles' \subseteq h
  BY <1>1
<1> HIDE DEF new, L, U
<1>13. ShapeOfStops'
  BY <1>1, <1>2, <1>5, <1>9, <1>12 DEF ShapeOfStops
<1>14. Made'
  BY <1>1, <1>8, <1>9, <1>10 DEF Made, L
<1>15. Noted'
  BY <1>1, <1>6, <1>9, <1>12 DEF Noted, L
<1>16. Tellings'
  <2>1. NoTwice(untold') /\ ToSet(untold') \subseteq 1..reached'
    BY <1>5, <1>9 DEF U, new
  <2>2. \A n \in Stops : told'[n] <= 1
    BY <1>9
  <2>3. \A n \in ToSet(untold') : told'[n] = 0
    BY <1>5, <1>9 DEF U, new
  <2>4. \A n \in AgentHolds' \ announced' : told'[n] = 0 /\ n \notin ToSet(untold')
    BY <1>1, <1>5, <1>8, <1>9, <1>10 DEF U, new, L
  <2>5. ASSUME program' = "live", ~Fails, NEW n \in announced' PROVE told'[n] = 1 \/ n \in ToSet(untold')
    BY <1>1, <1>5, <1>7, <1>9, <2>5 DEF U, new
  <2>6. QED
    BY <2>1, <2>2, <2>3, <2>4, <2>5 DEF Tellings
<1>17. EntryIsOurs'
  BY <1>1, <1>5, <1>8, <1>11 DEF EntryIsOurs, U, new, L
<1>18. QED
  BY <1>13, <1>14, <1>15, <1>16, <1>17 DEF Stopped

\* A stop that decides whether it holds the world may find that more are held.
LEMMA AnnouncesMore ==
  ASSUME Stopped, Placed, pc = "tell", program = "live",
         line' = <<>>, held' = AgentHolds, announced' = AgentHolds,
         untold' = InOrder(AgentHolds \ announced) \o untold, pc' = pc,
         UNCHANGED <<handles, told, reached, begun, arrival, session, program>>
  PROVE  Stopped' /\ untold' # <<>>
<1> DEFINE new == AgentHolds \ announced
           U == ToSet(untold)
<1>1. new \in SUBSET Stops
  BY StopsAre
<1>2. InOrder(new) \in Seq(Stops) /\ NoTwice(InOrder(new)) /\ ToSet(InOrder(new)) = new
  BY <1>1, InOrderIs
<1>3. /\ \A n \in new : told[n] = 0 /\ n \notin U
      /\ U \subseteq 1..reached
      /\ \A n \in Stops : told[n] <= 1
      /\ \A n \in U : told[n] = 0
      /\ ~Fails => \A n \in announced : told[n] = 1 \/ n \in U
  BY DEF Stopped, Tellings
<1>4. ToSet(InOrder(new)) \cap U = {}
  BY <1>2, <1>3
<1>5. /\ untold' \in Seq(Stops) /\ NoTwice(untold') /\ ToSet(untold') = new \cup U
      /\ untold' = <<>> <=> InOrder(new) = <<>> /\ untold = <<>>
  <2> DEFINE o == InOrder(new)
  <2>1. untold \in Seq(Stops) /\ NoTwice(untold) /\ untold' = o \o untold
    BY StopsAre
  <2>2. o \in Seq(Stops) /\ NoTwice(o) /\ ToSet(o) = new /\ ToSet(o) \cap ToSet(untold) = {}
    BY <1>2, <1>4
  <2> HIDE DEF o
  <2>3. /\ o \o untold \in Seq(Stops) /\ NoTwice(o \o untold) /\ ToSet(o \o untold) = ToSet(o) \cup ToSet(untold)
        /\ o \o untold = <<>> <=> o = <<>> /\ untold = <<>>
    BY <2>1, <2>2, BothOnce
  <2>4. QED
    BY <2>1, <2>2, <2>3 DEF o
<1>6. untold # <<>> /\ pc' = "tell"
  BY DEF Placed, Control
<1>7. untold' # <<>>
  BY <1>5, <1>6
<1>8. ToSet(line') = {} /\ NoTwice(line') /\ line' \in Seq(Stops)
  BY NoneOnce
<1>9. AgentHolds' = AgentHolds /\ OnLine' = {}
  BY <1>8 DEF AgentHolds, OnLine
<1>10. /\ AgentHolds \subseteq 1..reached
       /\ \A n \in Stops : told[n] > 0 => n <= reached
       /\ told \in [Stops -> Nat] /\ reached \in 0..MaxStops /\ handles \subseteq announced
       /\ announced \subseteq held /\ AgentHolds \subseteq Stops
  BY StopsAre DEF Stopped, Made, Noted
<1>11. held \subseteq AgentHolds
  BY DEF AgentHolds
<1>12. ~(arrival = "Launched" /\ ~begun)
  BY <1>6 DEF Stopped, Noted
<1>13. arrival = "Launched" /\ ~StopOnEntry /\ ~Fails => told[1] = 0 /\ 1 \notin U /\ 1 \notin AgentHolds
  BY <1>12 DEF Stopped, EntryIsOurs
<1> HIDE DEF new, U
<1>14. ShapeOfStops'
  BY <1>5, <1>8, <1>10, <1>11 DEF ShapeOfStops
<1>15. Made'
  BY <1>8, <1>9, <1>10 DEF Made
<1>16. Noted'
  BY <1>6, <1>8, <1>10, <1>11, <1>12 DEF Noted
<1>17. Tellings'
  <2>1. NoTwice(untold') /\ ToSet(untold') \subseteq 1..reached'
    BY <1>3, <1>5, <1>10 DEF new
  <2>2. \A n \in Stops : told'[n] <= 1
    BY <1>3
  <2>3. \A n \in ToSet(untold') : told'[n] = 0
    BY <1>3, <1>5
  <2>4. \A n \in AgentHolds' \ announced' : told'[n] = 0 /\ n \notin ToSet(untold')
    BY <1>9
  <2>5. ~Fails => \A n \in announced' : told'[n] = 1 \/ n \in ToSet(untold')
    BY <1>3, <1>5 DEF new
  <2>6. QED
    BY <2>1, <2>2, <2>3, <2>4, <2>5 DEF Tellings
<1>18. EntryIsOurs'
  BY <1>5, <1>9, <1>13 DEF EntryIsOurs, new
<1>19. QED
  BY <1>7, <1>14, <1>15, <1>16, <1>17, <1>18 DEF Stopped

\* Everything on the connection is read, and nothing is announced.
LEMMA Absorbs ==
  ASSUME Stopped, line' = <<>>, held' \subseteq AgentHolds, pc' # "tell", untold' = <<>>,
         UNCHANGED <<announced, handles, told, reached, arrival, session, program>>,
         begun' /\ pc' # "go" => announced \subseteq held',
         arrival = "Launched" /\ (~begun' \/ pc' = "go") =>
           (~begun \/ pc = "go") /\ held' = AgentHolds,
         program = "live" /\ ~Fails => untold = <<>> /\ (begun' /\ pc' # "go" => begun /\ pc # "go")
  PROVE  Stopped'
<1>1. ToSet(line') = {} /\ NoTwice(line') /\ line' \in Seq(Stops) /\ ToSet(untold') = {}
      /\ NoTwice(untold') /\ untold' \in Seq(Stops)
  BY NoneOnce
<1>2. AgentHolds' = held' /\ OnLine' = {} /\ AgentHolds' \subseteq AgentHolds
  BY <1>1 DEF AgentHolds, OnLine
<1>3. AgentHolds \subseteq Stops /\ told \in [Stops -> Nat] /\ reached \in 0..MaxStops
      /\ announced \subseteq Stops /\ handles \subseteq announced
  BY StopsAre
<1>4. ShapeOfStops'
  BY <1>1, <1>3 DEF ShapeOfStops
<1>5. Made'
  BY <1>1, <1>2 DEF Made, Stopped
<1>6. Noted'
  <2>1. arrival' = "Launched" /\ (~begun' \/ pc' = "go") =>
          /\ announced' = {} /\ untold' = <<>> /\ \A n \in Stops : told'[n] = 0
          /\ line' = <<>> /\ (session' => held' = {1})
    <3>1. arrival = "Launched" /\ (~begun \/ pc = "go") =>
          /\ announced = {} /\ \A n \in Stops : told[n] = 0
          /\ line = <<>> /\ (session => held = {1})
      BY DEF Stopped, Noted
    <3>2. line = <<>> => AgentHolds = held
      BY NoneOnce DEF AgentHolds, OnLine
    <3>3. QED
      BY <3>1, <3>2
  <2>2. /\ handles' \subseteq announced' /\ announced' \subseteq 1..reached' /\ announced' \cap ToSet(line') = {}
        /\ (begun' /\ pc' # "go") \/ pc' = "tell" => announced' \subseteq held'
    BY <1>1, <1>3 DEF Stopped, Noted
  <2>3. QED
    BY <2>1, <2>2 DEF Noted
<1>7. Tellings'
  <2>1. program = "live" /\ ~Fails => ToSet(untold) = {}
    BY NoneOnce
  <2>2. QED
    BY <1>1, <1>2, <2>1 DEF Stopped, Tellings
<1>8. EntryIsOurs'
  BY <1>1, <1>2 DEF Stopped, EntryIsOurs
<1>9. QED
  BY <1>4, <1>5, <1>6, <1>7, <1>8 DEF Stopped

\* Either that, or nothing is read.
LEMMA HearsStops ==
  ASSUME Stopped, Hears, pc' # "tell", untold' = <<>>,
         UNCHANGED <<announced, handles, told, reached, arrival, session, program>>,
         begun' /\ pc' # "go" => announced \subseteq held,
         arrival = "Launched" /\ (~begun' \/ pc' = "go") => ~begun \/ pc = "go",
         program = "live" /\ ~Fails => untold = <<>> /\ (begun' /\ pc' # "go" => begun /\ pc # "go")
  PROVE  Stopped'
<1>1. CASE line' = <<>> /\ held' = AgentHolds
  <2>1. held' \subseteq AgentHolds /\ held \subseteq held'
    BY <1>1 DEF AgentHolds
  <2>2. QED
    BY <1>1, <2>1, Absorbs
<1>2. CASE UNCHANGED <<line, held>>
  <2>1. /\ OnLine' = OnLine /\ AgentHolds' = AgentHolds /\ ToSet(line') = ToSet(line)
        /\ ToSet(untold') = {} /\ NoTwice(untold') /\ untold' \in Seq(Stops)
    BY <1>2, NoneOnce DEF OnLine, AgentHolds
  <2>2. ShapeOfStops'
    BY <1>2, <2>1 DEF Stopped, ShapeOfStops
  <2>3. Made'
    BY <1>2, <2>1 DEF Stopped, Made
  <2>4. Noted'
    BY <1>2, <2>1 DEF Stopped, Noted
  <2>5. Tellings'
    <3>1. program = "live" /\ ~Fails => ToSet(untold) = {}
      BY NoneOnce
    <3>2. QED
      BY <1>2, <2>1, <3>1 DEF Stopped, Tellings
  <2>6. EntryIsOurs'
    BY <1>2, <2>1 DEF Stopped, EntryIsOurs
  <2>7. QED
    BY <2>2, <2>3, <2>4, <2>5, <2>6 DEF Stopped
<1>3. QED
  BY <1>1, <1>2 DEF Hears

\* The first of what is to be told is told.
LEMMA TellStops ==
  ASSUME Stopped, Placed, Tell
  PROVE  Stopped'
<1> DEFINE x == Head(untold)
           U == ToSet(untold)
<1>1. /\ pc = "tell" /\ told' = [told EXCEPT ![x] = @ + 1] /\ untold' = Tail(untold)
      /\ pc' = IF untold' = <<>> THEN then ELSE pc
      /\ UNCHANGED <<line, held, announced, handles, reached, begun, arrival, session, program>>
  BY DEF Tell, life, agent
<1>2. untold # <<>> /\ then \in {"turn", "take", "handle", "respond"}
  BY <1>1 DEF Placed, Control, ShapeOfLoop
<1>3. untold' \in Seq(Stops) /\ NoTwice(untold') /\ x \in U /\ x \in Stops /\ ToSet(untold') = U \ {x}
  BY <1>1, <1>2, StopsAre, TailOnce
<1>4. pc' # "go"
  BY <1>1, <1>2
<1>5. /\ U \subseteq 1..reached
      /\ \A n \in Stops : told[n] <= 1
      /\ \A n \in U : told[n] = 0
      /\ \A n \in AgentHolds \ announced : told[n] = 0 /\ n \notin U
      /\ program = "live" /\ ~Fails => \A n \in announced : told[n] = 1 \/ n \in U
      /\ \A n \in Stops : told[n] > 0 => n <= reached
  BY DEF Stopped, Tellings, Made
<1>6. /\ told \in [Stops -> Nat] /\ AgentHolds \subseteq Stops /\ announced \subseteq Stops
      /\ reached \in 0..MaxStops /\ Stops \subseteq Nat
  BY StopsAre DEF Stops
<1>7. ~(arrival = "Launched" /\ ~begun)
  BY <1>2 DEF Stopped, Noted
<1>8. OnLine' = OnLine /\ AgentHolds' = AgentHolds /\ ToSet(line') = ToSet(line)
  BY <1>1 DEF OnLine, AgentHolds
<1>9. arrival = "Launched" /\ ~StopOnEntry /\ ~Fails =>
        told[1] = 0 /\ 1 \notin U /\ 1 \notin announced /\
        (1 \in AgentHolds => line = <<>> /\ program # "live")
  BY <1>1, <1>7 DEF Stopped, EntryIsOurs
<1> HIDE DEF x, U
<1>10. told' \in [Stops -> Nat] /\ told'[x] = told[x] + 1 /\ \A n \in Stops \ {x} : told'[n] = told[n]
  BY <1>1, <1>3, <1>6
<1>11. ShapeOfStops'
  BY <1>1, <1>3, <1>10 DEF Stopped, ShapeOfStops
<1>12. Made'
  <2>1. \A n \in Stops : told'[n] > 0 => n <= reached
    <3>1. x <= reached
      BY <1>3, <1>5, <1>6
    <3>2. QED
      BY <1>5, <1>10, <3>1
  <2>2. QED
    BY <1>1, <1>8, <2>1 DEF Stopped, Made
<1>13. Noted'
  BY <1>1, <1>4, <1>7, <1>8 DEF Stopped, Noted
<1>14. Tellings'
  <2>1. NoTwice(untold') /\ ToSet(untold') \subseteq 1..reached'
    BY <1>1, <1>3, <1>5
  <2>2. ASSUME NEW n \in Stops PROVE told'[n] <= 1
    <3>1. CASE n = x
      BY <1>3, <1>5, <1>10, <3>1
    <3>2. CASE n # x
      BY <1>5, <1>10, <3>2
    <3>3. QED
      BY <3>1, <3>2
  <2>3. \A n \in ToSet(untold') : told'[n] = 0
    BY <1>3, <1>5, <1>10, StopsAre DEF U
  <2>4. \A n \in AgentHolds' \ announced' : told'[n] = 0 /\ n \notin ToSet(untold')
    BY <1>1, <1>3, <1>5, <1>6, <1>8, <1>10
  <2>5. ASSUME program' = "live", ~Fails, NEW n \in announced' PROVE told'[n] = 1 \/ n \in ToSet(untold')
    <3>1. CASE n = x
      BY <1>3, <1>5, <1>10, <3>1
    <3>2. CASE n # x
      BY <1>1, <1>3, <1>5, <1>6, <1>10, <2>5, <3>2
    <3>3. QED
      BY <3>1, <3>2
  <2>6. QED
    BY <2>1, <2>2, <2>3, <2>4, <2>5 DEF Tellings
<1>15. EntryIsOurs'
  <2>1. 1 \in Stops
    BY AdapterAssumption DEF Stops
  <2>2. QED
    BY <1>1, <1>3, <1>8, <1>9, <1>10, <2>1 DEF EntryIsOurs
<1>16. QED
  BY <1>11, <1>12, <1>13, <1>14, <1>15 DEF Stopped

\* A thread of the program stops, which no one was told of.
LEMMA StopStops ==
  ASSUME Stopped, Placed, NEW t \in Threads, Stop(t)
  PROVE  Stopped'
<1> DEFINE x == reached + 1
<1>1. /\ program = "live" /\ 1 \notin AgentHolds /\ reached < MaxStops
      /\ reached' = x /\ line' = Append(line, x)
      /\ UNCHANGED <<held, announced, untold, handles, told, begun, arrival, session, program, pc>>
  BY DEF Stop, Runs, loop, life, telling
<1>2. session /\ reached >= 1
  BY <1>1 DEF Placed, Control
<1>3. x \in Stops /\ x # 1 /\ reached \in 1..MaxStops /\ MaxStops \in Nat /\ x \in Nat
  BY <1>1, <1>2, StopsAre, AdapterAssumption DEF Stops
<1>4. /\ AgentHolds \subseteq 1..reached /\ announced \subseteq 1..reached /\ ToSet(untold) \subseteq 1..reached
      /\ \A n \in Stops : told[n] > 0 => n <= reached
  BY DEF Stopped, Made, Noted, Tellings
<1>5. told \in [Stops -> Nat] /\ OnLine \subseteq AgentHolds /\ held \subseteq AgentHolds /\ OnLine \cap held = {}
  BY StopsAre DEF AgentHolds
<1>6. x \notin AgentHolds /\ x \notin announced /\ x \notin ToSet(untold) /\ told[x] = 0
      /\ 1..reached \subseteq 1..x /\ x \in 1..x
  BY <1>3, <1>4, <1>5
<1>7. line' \in Seq(Stops) /\ NoTwice(line') /\ ToSet(line') = OnLine \cup {x} /\ line' # <<>>
  BY <1>1, <1>3, <1>5, <1>6, StopsAre, AppendOnce DEF OnLine
<1>8. OnLine' = OnLine \cup {x} /\ AgentHolds' = AgentHolds \cup {x} /\ ToSet(untold') = ToSet(untold)
  BY <1>1, <1>7 DEF AgentHolds, OnLine
<1>9. ~(arrival = "Launched" /\ (~begun \/ pc = "go"))
  BY <1>1, <1>2, <1>5 DEF Stopped, Noted
<1>10. x \in 0..MaxStops
  BY <1>1, <1>3
<1> HIDE DEF x
<1>11. ShapeOfStops'
  BY <1>1, <1>7, <1>10 DEF Stopped, ShapeOfStops
<1>12. Made'
  <2>1. \A n \in Stops : told'[n] > 0 => n <= reached'
    BY <1>1, <1>3, <1>4 DEF x, Stops
  <2>2. QED
    BY <1>1, <1>4, <1>5, <1>6, <1>7, <1>8, <2>1 DEF Made
<1>13. Noted'
  BY <1>1, <1>4, <1>6, <1>7, <1>9 DEF Stopped, Noted, OnLine
<1>14. Tellings'
  BY <1>1, <1>4, <1>6, <1>8 DEF Stopped, Tellings
<1>15. EntryIsOurs'
  BY <1>1, <1>3, <1>8 DEF Stopped, EntryIsOurs
<1>16. QED
  BY <1>11, <1>12, <1>13, <1>14, <1>15 DEF Stopped

\* The program that is there now is at its first stop, which nothing was said of.
LEMMA StartsStops ==
  ASSUME Stopped, Placed, ~session, UNCHANGED <<announced, untold, handles, told, begun>>,
         pc' = "arm", reached' = 1,
         \/ arrival' = "Launched" /\ held' = {1} /\ line' = <<>>
         \/ arrival' = "TakenUp" /\ held' = {} /\ line' = << 1 >>
  PROVE  Stopped'
<1>1. arrival = "Launched" /\ ~begun /\ held = {} /\ line = <<>>
  BY DEF Placed, Control
<1>2. announced = {} /\ untold = <<>> /\ \A n \in Stops : told[n] = 0
  BY <1>1 DEF Stopped, Noted
<1>3. 1 \in Stops /\ 1 \in 0..MaxStops
  BY AdapterAssumption DEF Stops
<1>4. ToSet(<<>>) = {} /\ NoTwice(<<>>) /\ <<>> \in Seq(Stops)
      /\ ToSet(<< 1 >>) = {1} /\ NoTwice(<< 1 >>) /\ << 1 >> \in Seq(Stops) /\ << 1 >> # <<>>
  BY <1>3, NoneOnce, OneOnce
<1>5. line' \in Seq(Stops) /\ NoTwice(line') /\ ToSet(line') \cap held' = {} /\ ToSet(line') \cup held' = {1}
      /\ (arrival' = "Launched" => line' = <<>> /\ held' = {1})
  BY <1>4
<1>6. AgentHolds' = {1} /\ OnLine' = ToSet(line') /\ untold' = <<>> /\ ToSet(untold') = {} /\ NoTwice(untold')
  BY <1>2, <1>4, <1>5 DEF AgentHolds, OnLine
<1>7. handles = {} /\ told \in [Stops -> Nat]
  BY <1>2, StopsAre
<1>8. ShapeOfStops'
  BY <1>2, <1>3, <1>4, <1>5, <1>7 DEF ShapeOfStops
<1>9. Made'
  BY <1>2, <1>5, <1>6 DEF Made
<1>10. Noted'
  BY <1>1, <1>2, <1>5, <1>6, <1>7 DEF Noted
<1>11. Tellings'
  BY <1>2, <1>3, <1>6 DEF Tellings
<1>12. EntryIsOurs'
  BY <1>1, <1>2, <1>3, <1>5, <1>6 DEF EntryIsOurs
<1>13. QED
  BY <1>8, <1>9, <1>10, <1>11, <1>12 DEF Stopped

\* An answer mints references at stops the loop has taken note of.
LEMMA MintsStops ==
  ASSUME Stopped, pc = "respond", pc' = "turn", handles \subseteq handles', handles' \subseteq announced,
         UNCHANGED <<line, held, announced, untold, told, reached, begun, arrival, session, program>>
  PROVE  Stopped'
<1>1. announced \subseteq Stops
  BY StopsAre
<1>2. ShapeOfStops'
  BY <1>1 DEF Stopped, ShapeOfStops
<1>3. OnLine' = OnLine /\ AgentHolds' = AgentHolds /\ ToSet(untold') = ToSet(untold) /\ ToSet(line') = ToSet(line)
  BY DEF OnLine, AgentHolds
<1>4. Made'
  BY <1>3 DEF Stopped, Made
<1>5. Noted'
  BY <1>3 DEF Stopped, Noted
<1>6. Tellings'
  BY <1>3 DEF Stopped, Tellings
<1>7. EntryIsOurs'
  BY <1>3 DEF Stopped, EntryIsOurs
<1>8. QED
  BY <1>2, <1>4, <1>5, <1>6, <1>7 DEF Stopped

-----------------------------------------------------------------------------
(***************************************************************************)
(* The table: what the client was told is set, and what the agent has.     *)
(***************************************************************************)

\* What every step does that asks for nothing to be set.
LEMMA TableStays ==
  ASSUME Tabled, UNCHANGED <<byFile, mints, kept, asked, unarmed, armed, settings, session>>,
         program' = "live" => program = "live" /\ (pc = "arm" => pc' = "arm")
  PROVE  Tabled'
<1>1. IdsOf(byFile)' = IdsOf(byFile)
  BY DEF IdsOf
<1>2. Table'
  BY <1>1 DEF Tabled, Table
<1>3. QED
  BY <1>2 DEF Tabled, ShapeOfTable

\* A program that is started has nothing, and is to be asked for everything.
LEMMA StartsTable ==
  ASSUME Tabled, ~session, pc' = "arm", session', program' = "live",
         UNCHANGED <<byFile, mints, kept, asked, unarmed, armed, settings>>
  PROVE  Tabled'
<1>1. /\ kept \subseteq Settings /\ settings = {} /\ armed = NoneSet /\ asked = kept
      /\ unarmed = IdsOf(byFile) /\ \A f \in Files : byFile[f].id = 0 => byFile[f] = NoBreakpoint
      /\ byFile \in [Files -> [id : Nat, after : Nat]]
  BY DEF Tabled, Table, ShapeOfTable
<1>2. unarmed = {} => armed = byFile
  <2>1. SUFFICES ASSUME unarmed = {} PROVE armed = byFile
    OBVIOUS
  <2>2. \A f \in Files : byFile[f].id = 0
    BY <1>1, <2>1 DEF IdsOf
  <2>3. \A f \in Files : byFile[f] = NoBreakpoint
    BY <1>1, <2>2
  <2>4. QED
    BY <1>1, <2>3 DEF NoneSet
<1>3. QED
  BY <1>1, <1>2 DEF Tabled, Table, ShapeOfTable

\* One thing after another is asked of it.
LEMMA ArmTable ==
  ASSUME Tabled, Placed, Arm
  PROVE  Tabled'
<1>1. /\ session /\ ~begun /\ pc = "arm"
      /\ UNCHANGED <<byFile, mints, asked, session, program>>
  BY DEF Arm, Placed, Control, quiet, life
<1>2. /\ kept \subseteq Settings /\ \A f \in Files : byFile[f].id = 0 => byFile[f] = NoBreakpoint
  BY DEF Tabled, Table
<1>3. program = "live" /\ ~Fails => asked \subseteq settings \cup kept /\ (unarmed = {} => armed = byFile)
  BY <1>1 DEF Tabled, Table
<1>4. ASSUME Ask(AgentHolds, "arm") PROVE pc' = "arm"
  BY <1>1, <1>4 DEF Ask
<1>5. ShapeOfTable'
  BY <1>1 DEF Tabled, ShapeOfTable
<1>6. ASSUME NEW s, ArmSetting(s) PROVE Table'
  <2>1. /\ kept' = kept \ {s} /\ UNCHANGED <<unarmed, armed>>
        /\ program = "live" /\ ~Fails => settings' = settings \cup {s} /\ pc' = "arm"
    BY <1>4, <1>6 DEF ArmSetting, MayFail
  <2>2. QED
    BY <1>1, <1>2, <1>3, <2>1 DEF Table
<1>7. ASSUME ArmBreakpoints PROVE Table'
  <2>1. /\ unarmed' = {} /\ UNCHANGED <<kept, settings>>
        /\ program = "live" /\ ~Fails => armed' = byFile /\ pc' = "arm"
    BY <1>4, <1>7 DEF ArmBreakpoints, MayFail
  <2>2. QED
    BY <1>1, <1>2, <1>3, <2>1 DEF Table
<1>8. ASSUME "exceptions" \notin kept, "watch" \notin kept, unarmed = {},
             UNCHANGED <<kept, unarmed, settings, armed>>
      PROVE  Table'
  <2>1. kept = {}
    BY <1>2, <1>8 DEF Settings
  <2>2. QED
    BY <1>1, <1>2, <1>3, <1>8, <2>1 DEF Table
<1>9. QED
  BY <1>5, <1>6, <1>7, <1>8 DEF Arm, Tabled

\* The breakpoints of a file are replaced, and the agent's whole set with them.
LEMMA SetBreakpointsTable ==
  ASSUME Tabled, Placed, Requested, SetBreakpoints
  PROVE  Tabled'
<1>1. /\ pc = "handle" /\ InHand.command = "setBreakpoints"
      /\ mints' = mints + 1
      /\ byFile' = [byFile EXCEPT ![InHand.file] = Linked(InHand.file, InHand.after)]
      /\ UNCHANGED <<session, kept, asked, settings, program>>
      /\ \/ ~session /\ Answering /\ unarmed' = IdsOf(byFile') /\ UNCHANGED armed
         \/ session /\ UNCHANGED unarmed /\ (program = "live" /\ ~Fails => armed' = byFile')
  BY DEF SetBreakpoints, Handles, InHand, life, quiet, Answering, Sent, MayFail
<1>2. hand \in Ids
  BY <1>1 DEF Placed, Control, Serving
<1>3. InHand \in Asked
  BY <1>2, PlacesAre DEF InHand
<1>4. InHand.file \in Files /\ InHand.after \subseteq Files
  BY <1>1, <1>3, AskedOf
<1>5. byFile \in [Files -> [id : Nat, after : Nat]] /\ mints \in Nat
  BY DEF Tabled, ShapeOfTable
<1> DEFINE g == InHand.after
           a == IF g = {} THEN 0 ELSE byFile[CHOOSE x \in g : TRUE].id
<1>6. a \in Nat
  <2>1. CASE g = {}
    BY <2>1
  <2>2. CASE g # {}
    <3>1. (CHOOSE x \in g : TRUE) \in Files
      BY <1>4, <2>2
    <3>2. byFile[CHOOSE x \in g : TRUE].id \in Nat
      BY <1>5, <3>1
    <3>3. QED
      BY <2>2, <3>2
  <2>3. QED
    BY <2>1, <2>2
<1>7. Linked(InHand.file, InHand.after) = [id |-> mints + 1, after |-> a]
  BY DEF Linked
<1> HIDE DEF g, a
<1> DEFINE b == [id |-> mints + 1, after |-> a]
<1>8. b \in [id : Nat, after : Nat] /\ b.id # 0
  BY <1>5, <1>6
<1>9. byFile' = [byFile EXCEPT ![InHand.file] = b]
  BY <1>1, <1>7
<1> HIDE DEF b
<1>10. byFile' \in [Files -> [id : Nat, after : Nat]] /\ mints' \in Nat
  BY <1>1, <1>4, <1>5, <1>8, <1>9
<1>11. /\ kept \subseteq Settings /\ \A f \in Files : byFile[f].id = 0 => byFile[f] = NoBreakpoint
  BY DEF Tabled, Table
<1>12. \A f \in Files : byFile'[f].id = 0 => byFile'[f] = NoBreakpoint
  <2>1. SUFFICES ASSUME NEW f \in Files, byFile'[f].id = 0 PROVE byFile'[f] = NoBreakpoint
    OBVIOUS
  <2>2. f # InHand.file
    BY <1>4, <1>5, <1>8, <1>9, <2>1
  <2>3. byFile'[f] = byFile[f]
    BY <1>5, <1>9, <2>2
  <2>4. QED
    BY <1>11, <2>1, <2>3
<1>13. /\ ~session => settings = {} /\ armed = NoneSet /\ asked = kept
       /\ program = "live" /\ ~Fails => asked \subseteq settings /\ unarmed = {}
  BY <1>1 DEF Tabled, Table
<1>14. ~session => program # "live"
  BY DEF Placed, Control
<1>15. IdsOf(byFile') = IdsOf(byFile)'
  BY DEF IdsOf
<1>16. Table'
  <2>1. CASE ~session
    BY <1>1, <1>11, <1>12, <1>13, <1>14, <1>15, <2>1 DEF Table
  <2>2. CASE session
    BY <1>1, <1>11, <1>12, <1>13, <2>2 DEF Table
  <2>3. QED
    BY <2>1, <2>2
<1>17. QED
  BY <1>10, <1>16 DEF Tabled, ShapeOfTable

\* The set is sent again as it is.
LEMMA SetSuspendPoliciesTable ==
  ASSUME Tabled, Placed, SetSuspendPolicies
  PROVE  Tabled'
<1>1. /\ pc = "handle" /\ UNCHANGED <<session, byFile, mints, kept, asked, unarmed, settings, program>>
      /\ ~session => UNCHANGED armed
      /\ armed' = armed \/ (program = "live" /\ ~Fails => armed' = byFile)
  BY DEF SetSuspendPolicies, Handles, life, table, quiet, Answering, Sent, MayFail
<1>2. program = "live" /\ ~Fails => armed = byFile
  BY <1>1 DEF Tabled, Table
<1>3. IdsOf(byFile)' = IdsOf(byFile)
  BY <1>1 DEF IdsOf
<1>4. QED
  BY <1>1, <1>2, <1>3 DEF Tabled, Table, ShapeOfTable

\* A setting is asked of the agent, or kept until there is one.
LEMMA SetsTable ==
  ASSUME Tabled, Placed, NEW s \in Settings, Sets(s), pc = "handle"
  PROVE  Tabled'
<1>1. /\ UNCHANGED <<session, byFile, mints, unarmed, armed, program>>
      /\ \/ ~session /\ kept' = kept \cup {s} /\ asked' = asked \cup {s} /\ UNCHANGED settings
         \/ /\ session /\ UNCHANGED kept
            /\ program = "live" /\ ~Fails => settings' = settings \cup {s} /\ asked' = asked \cup {s}
  BY DEF Sets, life, quiet, Answering, MayFail
<1>2. /\ kept \subseteq Settings /\ \A f \in Files : byFile[f].id = 0 => byFile[f] = NoBreakpoint
  BY DEF Tabled, Table
<1>3. /\ ~session => settings = {} /\ armed = NoneSet /\ asked = kept /\ unarmed = IdsOf(byFile)
      /\ program = "live" /\ ~Fails => asked \subseteq settings /\ armed = byFile /\ unarmed = {}
  BY DEF Tabled, Table
<1>4. ~session => program # "live"
  BY DEF Placed, Control
<1>5. IdsOf(byFile)' = IdsOf(byFile)
  BY <1>1 DEF IdsOf
<1>6. Table'
  <2>1. CASE ~session
    BY <1>1, <1>2, <1>3, <1>4, <1>5, <2>1 DEF Table
  <2>2. CASE session
    BY <1>1, <1>2, <1>3, <2>2 DEF Table
  <2>3. QED
    BY <2>1, <2>2
<1>7. QED
  BY <1>1, <1>6 DEF Tabled, ShapeOfTable

-----------------------------------------------------------------------------
(***************************************************************************)
(* Asking the session, which reads what is on the connection.              *)
(***************************************************************************)

\* Where an answer leaves the loop.
LEMMA AskLeaves ==
  ASSUME Placed, pc # "tell", NEW h \in SUBSET AgentHolds, NEW next, next # "tell", Ask(h, next)
  PROVE  /\ program = "live" /\ untold = <<>> /\ line' = <<>> /\ held' = h
         /\ UNCHANGED <<request, answers, hand>> /\ (pc' = "tell" <=> untold' # <<>>)
         /\ \/ begun /\ Announcing(h, next)
            \/ ~begun /\ pc' = next /\ UNCHANGED <<announced, untold, handles, then>>
<1>1. program = "live" /\ untold = <<>> /\ line' = <<>> /\ UNCHANGED <<request, answers, hand>>
  BY DEF Placed, Control, Ask
<1>2. CASE begun
  <2>1. Announcing(h, next)
    BY <1>2 DEF Ask
  <2>2. held' = h /\ pc' = IF untold' = <<>> THEN next ELSE "tell"
    BY <2>1 DEF Announcing
  <2>3. QED
    BY <1>1, <1>2, <2>1, <2>2
<1>3. CASE ~begun
  <2>1. pc' = next /\ held' = h /\ UNCHANGED <<announced, untold, handles, then>>
    BY <1>3 DEF Ask
  <2>2. QED
    BY <1>1, <1>3, <2>1
<1>4. QED
  BY <1>2, <1>3

\* The stops after it: all that was read is held, and what is new announced.
LEMMA AskStops ==
  ASSUME Stopped, Placed, pc # "tell", NEW h \in SUBSET AgentHolds, NEW next, next \in {"respond", "arm", "turn"},
         Ask(h, next), UNCHANGED <<told, reached, begun, arrival, session, program>>,
         arrival = "Launched" /\ ~begun => h = AgentHolds,
         pc = "go" => h = {} /\ arrival = "Launched"
  PROVE  Stopped'
<1>1. /\ program = "live" /\ untold = <<>> /\ line' = <<>> /\ held' = h /\ (pc' = "tell" <=> untold' # <<>>)
      /\ \/ begun /\ Announcing(h, next)
         \/ ~begun /\ pc' = next /\ UNCHANGED <<announced, untold, handles, then>>
  BY AskLeaves
<1>2. ToSet(line') = {} /\ NoTwice(line') /\ line' \in Seq(Stops)
  BY <1>1, NoneOnce
<1>3. CASE begun /\ Announcing(h, next)
  <2>1. arrival = "Launched" /\ ~StopOnEntry /\ ~Fails => 1 \notin h
    BY <1>1, <1>3 DEF Stopped, EntryIsOurs
  <2>2. ToSet(line') \subseteq OnLine /\ ToSet(line') \cap h = {} /\ h \cup ToSet(line') = h
    BY <1>2
  <2>3. QED
    BY <1>1, <1>2, <1>3, <2>1, <2>2, Announces
<1>4. CASE ~begun /\ pc' = next /\ UNCHANGED <<announced, untold, handles, then>>
  BY <1>1, <1>4, Absorbs
<1>5. QED
  BY <1>1, <1>3, <1>4

\* The stops after a refusal: what was read is held, and nothing announced.
LEMMA RefusedStops ==
  ASSUME Stopped, Placed, pc # "tell", NEW next, next \in {"respond", "arm", "turn"},
         Refused(next), UNCHANGED <<told, reached, begun, arrival, session, program>>,
         pc = "go" => arrival = "Launched" /\ MayFail
  PROVE  Stopped'
<1>1. Hears /\ untold = <<>> /\ UNCHANGED <<announced, untold, handles>>
  BY DEF Refused, Placed, Control
<1>2. pc' \notin {"tell", "go"}
  BY DEF Refused, Aborts, Puts
<1>3. begun => announced \subseteq held
  BY DEF Stopped, Noted
<1>4. program = "live" /\ ~Fails => pc # "go"
  BY DEF MayFail
<1>5. QED
  BY <1>1, <1>2, <1>3, <1>4, HearsStops

-----------------------------------------------------------------------------
(***************************************************************************)
(* The handlers that ask the session once, or not at all.                  *)
(***************************************************************************)

\* What they do with the request, the loop and the stops.
Served ==
  /\ pc = "handle" /\ UNCHANGED <<quiet, session, begun, arrival>>
  /\ configured' \in BOOLEAN /\ (configured => configured')
  /\ configured' # configured => InHand.command = "configurationDone" /\ Responds(hand)
  /\ \/ Puts(hand, "turn") /\ UNCHANGED asks
     \/ /\ Puts(hand, "begin") /\ UNCHANGED asks /\ session
        /\ InHand.command = "configurationDone" /\ configured'
     \/ pc' = "panicked" /\ UNCHANGED <<asks, request, answers, hand>>
     \/ Refused("respond")
     \/ \E h \in SUBSET AgentHolds :
          /\ Ask(h, "respond")
          /\ h = AgentHolds \/ InHand.command \in OfThread \cup OfReference
          /\ InHand.command \in OfItsOwn => h = AgentHolds /\ InHand.of \in handles

\* Before a program that was launched is let go nothing can be asked of a
\* thread of it or of a reference.
LEMMA AsksOfTheTold ==
  ASSUME Requested, Stopped, hand \in Ids, InHand.command \in OfThread \cup OfReference
  PROVE  ~(arrival = "Launched" /\ ~begun)
<1>1. InHand \in Asked
  BY PlacesAre DEF InHand
<1>2. InHand.of \in Stops
  BY <1>1, AskedOf
<1>3. told[InHand.of] > 0
  BY DEF Requested, Named, InHand
<1>4. told[InHand.of] # 0
  BY <1>2, <1>3, StopsAre
<1>5. QED
  BY <1>2, <1>4 DEF Stopped, Noted

\* A command that is served takes its request out of the hand, and answers or keeps it.
LEMMA ServedRequests ==
  ASSUME Requested, Placed, Stopped, Served
  PROVE  Requested'
<1>1. hand \in Ids /\ UNCHANGED <<inbox, queue, deferred, told>> /\ pc = "handle"
  BY DEF Served, Placed, Control, Serving, quiet
<1>2. CASE Puts(hand, "turn") \/ Puts(hand, "begin")
  BY <1>1, <1>2, PutsDown DEF Puts
<1>3. CASE pc' = "panicked" /\ UNCHANGED <<request, answers, hand>>
  BY <1>1, <1>3, RequestsStay
<1>4. CASE Refused("respond")
  BY <1>1, <1>4, PutsDown DEF Refused, Aborts, Puts
<1>5. ASSUME NEW h \in SUBSET AgentHolds, Ask(h, "respond")
      PROVE  Requested'
  <2>1. UNCHANGED <<request, answers, hand>> /\ pc' \in {"respond", "tell"}
    BY <1>5 DEF Ask, Announcing
  <2>2. QED
    BY <1>1, <2>1, RequestsStay
<1>6. QED
  BY <1>2, <1>3, <1>4, <1>5 DEF Served

\* What it asks of the agent, lets go and takes note of leaves the stops consistent.
LEMMA ServedStops ==
  ASSUME Requested, Placed, Stopped, Served
  PROVE  Stopped'
<1>1. hand \in Ids /\ UNCHANGED <<told, reached, begun, arrival, session, program>> /\ pc = "handle"
  BY DEF Served, Placed, Control, Serving, quiet
<1>2. CASE pc' \in {"turn", "begin", "panicked"} /\ UNCHANGED asks
  BY <1>1, <1>2, StopsStay DEF asks
<1>3. ASSUME NEW h \in SUBSET AgentHolds, Ask(h, "respond"),
             h = AgentHolds \/ InHand.command \in OfThread \cup OfReference
      PROVE  Stopped'
  BY <1>1, <1>3, AskStops, AsksOfTheTold
<1>4. CASE Refused("respond")
  BY <1>1, <1>4, RefusedStops
<1>5. QED
  BY <1>2, <1>3, <1>4 DEF Served, Puts

\* The loop is in a place it can be in after it.
LEMMA ServedPlaced ==
  ASSUME Placed, Served
  PROVE  Placed'
<1>1. /\ hand \in Ids /\ pc = "handle" /\ 0 \notin Ids /\ untold = <<>> /\ ended = "no"
      /\ UNCHANGED <<reader, stopping, pending, ended, program, reached, session, begun, arrival>>
      /\ configured' \in BOOLEAN
  BY AdapterAssumption DEF Served, Placed, Control, Serving, quiet, reading
<1>2. CASE (Puts(hand, "turn") \/ (Puts(hand, "begin") /\ session)) /\ UNCHANGED asks
  BY <1>1, <1>2 DEF Placed, ShapeOfLoop, Control, Serving, Puts, asks, Places
<1>3. CASE pc' = "panicked" /\ UNCHANGED <<asks, request, answers, hand>>
  BY <1>1, <1>3 DEF Placed, ShapeOfLoop, Control, Serving, asks, Places
<1>4. ~session => AgentHolds = {} /\ held = {} /\ line = <<>>
  BY NoneOnce DEF Placed, Control, AgentHolds, OnLine
<1>5. ASSUME NEW h \in SUBSET AgentHolds, Ask(h, "respond")
      PROVE  Placed'
  <2>1. line' = <<>> /\ held' = h /\ hand' = hand /\ (pc' = "tell" <=> untold' # <<>>)
    BY <1>1, <1>5, AskLeaves
  <2>2. \/ then' = then /\ pc' = "respond"
        \/ then' = "respond" /\ pc' \in {"respond", "tell"}
    BY <1>5 DEF Ask, Announcing
  <2>3. QED
    BY <1>1, <1>4, <2>1, <2>2 DEF Placed, ShapeOfLoop, Control, Serving, Places
<1>6. CASE Refused("respond")
  <2>1. /\ hand' = 0 /\ pc' = "turn" /\ UNCHANGED <<untold, then>>
        /\ ~session => held' = {} /\ line' = <<>>
    BY <1>4, <1>6 DEF Refused, Hears, Aborts, Puts
  <2>2. QED
    BY <1>1, <2>1 DEF Placed, ShapeOfLoop, Control, Serving, Places
<1>7. QED
  BY <1>2, <1>3, <1>5, <1>6 DEF Served

\* A reference that resolved is of a stop that is announced after it as well.
LEMMA ServedResolved ==
  ASSUME Requested, Placed, Stopped, Served
  PROVE  Resolved'
<1>1. hand \in Ids /\ pc = "handle"
  BY DEF Served, Placed, Control, Serving
<1>2. CASE pc' \in {"turn", "begin", "panicked"}
  BY <1>2 DEF Resolved
<1>3. ASSUME NEW h \in SUBSET AgentHolds, Ask(h, "respond"),
             InHand.command \in OfItsOwn => h = AgentHolds /\ InHand.of \in handles
      PROVE  Resolved'
  <2>1. request' = request /\ hand' = hand
    BY <1>3 DEF Ask
  <2>2. handles \subseteq announced
    BY StopsAre
  <2>3. begun => announced' = h /\ announced \subseteq AgentHolds
    BY <1>1, <1>3 DEF Ask, Announcing, Stopped, Noted, AgentHolds
  <2>4. ~begun => announced' = announced
    BY <1>3 DEF Ask
  <2>5. InHand.command \in OfItsOwn => InHand.of \in announced'
    BY <1>3, <2>2, <2>3, <2>4
  <2>6. QED
    BY <2>1, <2>5 DEF Resolved, InHand
<1>4. CASE Refused("respond")
  BY <1>4 DEF Refused, Aborts, Puts, Resolved
<1>5. QED
  BY <1>2, <1>3, <1>4 DEF Served, Puts

\* The two kinds of handler.
LEMMA AnsweringServes ==
  ASSUME Placed, pc = "handle", Answering, UNCHANGED life
  PROVE  Served
BY DEF Placed, ShapeOfLoop, Answering, Served, life

\* A handler that asks the agent serves its request.
LEMMA AskingServes ==
  ASSUME Placed, pc = "handle", NEW h \in SUBSET AgentHolds, Asking(h), UNCHANGED life,
         h = AgentHolds \/ InHand.command \in OfThread \cup OfReference,
         InHand.command \in OfItsOwn => h = AgentHolds /\ InHand.of \in handles
  PROVE  Served
BY DEF Placed, ShapeOfLoop, Asking, Served, life

\* A handler of a request about a thread.
LEMMA AboutThreadServes ==
  ASSUME Placed, pc = "handle", NEW h \in SUBSET AgentHolds, AboutThread(h), UNCHANGED life,
         InHand.command \in OfThread
  PROVE  Served
<1>1. InHand.command \notin OfItsOwn
  BY DEF OfThread, OfItsOwn
<1>2. CASE Answering
  BY <1>2, AnsweringServes
<1>3. CASE Asking(h)
  BY <1>1, <1>3, AskingServes
<1>4. QED
  BY <1>2, <1>3 DEF AboutThread

\* A handler of a request about a reference.
LEMMA AboutReferenceServes ==
  ASSUME Placed, pc = "handle", AboutReference, UNCHANGED life
  PROVE  Served
<1>1. CASE Answering
  BY <1>1, AnsweringServes
<1>2. CASE InHand.of \in handles /\ Asking(AgentHolds)
  BY <1>2, AskingServes
<1>3. QED
  BY <1>1, <1>2 DEF AboutReference

\* A handler that asks whatever is held, and mints no reference of its own.
LEMMA AskingAllServes ==
  ASSUME Placed, pc = "handle", Asking(AgentHolds), UNCHANGED life, InHand.command \notin OfItsOwn
  PROVE  Served
BY AskingServes

\* What is left of AgentHolds without some of it.
LEMMA LessServes ==
  ASSUME Placed, pc = "handle", NEW S, Asking(AgentHolds \ S), UNCHANGED life,
         InHand.command \in OfThread \cup OfReference, InHand.command \notin OfItsOwn
  PROVE  Served
<1>1. AgentHolds \ S \in SUBSET AgentHolds
  OBVIOUS
<1>2. QED
  BY <1>1, AskingServes

\* The handlers that leave the table alone.
PlainHandle ==
  \/ Initialize \/ Understands \/ ThreadsOf \/ StackTrace
  \/ ExceptionInfo \/ State \/ RunScript \/ Diff \/ Record \/ Trail
  \/ Recompositions \/ ReplaceCode \/ Scopes \/ Variables \/ SetVariable
  \/ Evaluate \/ Facts \/ Retainers \/ StepInTargets \/ GotoTargets \/ Goto
  \/ RestartFrame \/ Continue \/ ContinueOne \/ Step \/ StepInto

\* Each of these handlers serves its request, and changes nothing else.
LEMMA PlainServes ==
  ASSUME Placed, PlainHandle
  PROVE  Served /\ Plain
<1>1. ASSUME Initialize \/ Understands \/ ExceptionInfo PROVE Served /\ Plain
  <2>1. pc = "handle" /\ Answering /\ Plain
    BY <1>1 DEF Initialize, Understands, ExceptionInfo, Handles
  <2>2. QED
    BY <2>1, AnsweringServes DEF Plain
<1>2. ASSUME StackTrace \/ State PROVE Served /\ Plain
  <2>1. pc = "handle" /\ AboutThread(AgentHolds) /\ Plain /\ InHand.command \in OfThread
    BY <1>2 DEF StackTrace, State, Handles, InHand, OfThread
  <2>2. QED
    BY <2>1, AboutThreadServes DEF Plain
<1>3. ASSUME RunScript \/ ContinueOne \/ Step PROVE Served /\ Plain
  <2>1. /\ pc = "handle" /\ Plain /\ InHand.command \in OfThread
        /\ AboutThread(AgentHolds) \/ AboutThread(AgentHolds \ StopOf(InHand))
    BY <1>3 DEF RunScript, ContinueOne, Step, Handles, InHand, OfThread
  <2>2. AgentHolds \ StopOf(InHand) \in SUBSET AgentHolds
    OBVIOUS
  <2>3. QED
    BY <2>1, <2>2, AboutThreadServes DEF Plain
<1>4. ASSUME Diff \/ Record \/ Trail \/ Recompositions \/ ReplaceCode \/ GotoTargets PROVE Served /\ Plain
  <2>1. pc = "handle" /\ (Answering \/ Asking(AgentHolds)) /\ Plain /\ InHand.command \notin OfItsOwn
    BY <1>4 DEF Diff, Record, Trail, Recompositions, ReplaceCode, GotoTargets, AboutProgram, Handles, InHand,
                OfItsOwn
  <2>2. QED
    BY <2>1, AnsweringServes, AskingAllServes DEF Plain
<1>5. ASSUME Scopes \/ Variables \/ SetVariable \/ Evaluate \/ Facts \/ Retainers \/ StepInTargets
      PROVE  Served /\ Plain
  <2>1. pc = "handle" /\ AboutReference /\ Plain
    BY <1>5 DEF Scopes, Variables, SetVariable, Evaluate, Facts, Retainers, StepInTargets, Handles
  <2>2. QED
    BY <2>1, AboutReferenceServes DEF Plain
<1>6. ASSUME ThreadsOf PROVE Served /\ Plain
  <2>1. pc = "handle" /\ Plain /\ InHand.command \notin OfItsOwn
    BY <1>6 DEF ThreadsOf, Handles, InHand, OfItsOwn
  <2>2. CASE Asking(AgentHolds)
    BY <2>1, <2>2, AskingAllServes DEF Plain
  <2>3. CASE pc' = "panicked" /\ UNCHANGED <<request, answers, hand, quiet, asks>>
    BY <2>1, <2>3 DEF Served, Plain, life, Placed, ShapeOfLoop
  <2>4. QED
    BY <1>6, <2>2, <2>3 DEF ThreadsOf
<1>7. ASSUME Goto PROVE Served /\ Plain
  <2>1. pc = "handle" /\ Plain /\ (Answering \/ AboutReference)
    BY <1>7 DEF Goto, Handles
  <2>2. QED
    BY <2>1, AnsweringServes, AboutReferenceServes DEF Plain
<1>8. ASSUME RestartFrame \/ StepInto PROVE Served /\ Plain
  <2>1. /\ pc = "handle" /\ Plain /\ InHand.command \in OfThread \cup OfReference
        /\ InHand.command \notin OfItsOwn
        /\ Answering \/ AboutReference \/ Asking(AgentHolds \ {InHand.of})
    BY <1>8 DEF RestartFrame, StepInto, Handles, InHand, OfReference, OfItsOwn
  <2>2. QED
    BY <2>1, AnsweringServes, AboutReferenceServes, LessServes DEF Plain
<1>9. ASSUME Continue PROVE Served /\ Plain
  <2>1. /\ pc = "handle" /\ Plain /\ InHand.command \in OfThread \cup OfReference
        /\ InHand.command \notin OfItsOwn /\ (Answering \/ Asking({}))
    BY <1>9 DEF Continue, Handles, InHand, OfThread, OfItsOwn
  <2>2. {} \in SUBSET AgentHolds
    OBVIOUS
  <2>3. QED
    BY <2>1, <2>2, AnsweringServes, AskingServes DEF Plain
<1>10. QED
  BY <1>1, <1>2, <1>3, <1>4, <1>5, <1>6, <1>7, <1>8, <1>9 DEF PlainHandle

\* A handler that asks or that only answers, and changes the table.
LEMMA SettingServes ==
  ASSUME Placed, SetBreakpoints \/ SetSuspendPolicies \/ SetExceptionBreakpoints \/ SetExceptionClasses
                   \/ WatchRecompositions
  PROVE  Served
<1>1. /\ pc = "handle" /\ UNCHANGED life /\ InHand.command \notin OfItsOwn
      /\ Answering \/ Asking(AgentHolds)
  BY DEF SetBreakpoints, SetSuspendPolicies, SetExceptionBreakpoints, SetExceptionClasses,
         WatchRecompositions, Sets, Sent, Asking, Handles, InHand, OfItsOwn
<1>2. QED
  BY <1>1, AnsweringServes, AskingAllServes

\* The client has finished configuring: a program that is there is begun.
LEMMA ConfigurationDoneServes ==
  ASSUME Placed, ConfigurationDone
  PROVE  Served /\ UNCHANGED <<table, armed, settings>>
BY DEF ConfigurationDone, Served, Handles, InHand, Puts, Placed, ShapeOfLoop

\* A handler that leaves the table and what is armed alone keeps them in line.
LEMMA ServedTable ==
  ASSUME Tabled, Served, UNCHANGED <<table, armed, settings>>
  PROVE  Tabled'
<1>1. pc = "handle" /\ UNCHANGED <<session, program, byFile, mints, kept, asked, unarmed, armed, settings>>
  BY DEF Served, quiet, table
<1>2. QED
  BY <1>1, TableStays

\* Every handler but those that start a program keeps the invariant.
LEMMA ServedKeeps ==
  ASSUME Core, PlainHandle \/ ConfigurationDone \/ SetBreakpoints \/ SetSuspendPolicies
                   \/ SetExceptionBreakpoints \/ SetExceptionClasses \/ WatchRecompositions
  PROVE  Core'
<1>1. Requested /\ Placed /\ Stopped /\ Tabled
  BY DEF Core
<1>2. Served
  BY <1>1, PlainServes, SettingServes, ConfigurationDoneServes
<1>3. Requested' /\ Placed' /\ Stopped' /\ Resolved'
  BY <1>1, <1>2, ServedRequests, ServedPlaced, ServedStops, ServedResolved
<1>4. Tabled'
  <2>1. CASE PlainHandle
    BY <1>1, <1>2, <2>1, PlainServes, ServedTable DEF Plain
  <2>2. CASE ConfigurationDone
    BY <1>1, <1>2, <2>2, ConfigurationDoneServes, ServedTable
  <2>3. CASE SetBreakpoints
    BY <1>1, <2>3, SetBreakpointsTable
  <2>4. CASE SetSuspendPolicies
    BY <1>1, <2>4, SetSuspendPoliciesTable
  <2>5. CASE SetExceptionBreakpoints \/ SetExceptionClasses \/ WatchRecompositions
    <3>1. pc = "handle" /\ \E s \in Settings : Sets(s)
      BY <2>5 DEF SetExceptionBreakpoints, SetExceptionClasses, WatchRecompositions, Handles, Settings
    <3>2. QED
      BY <1>1, <3>1, SetsTable
  <2>6. QED
    BY <2>1, <2>2, <2>3, <2>4, <2>5
<1>5. QED
  BY <1>3, <1>4 DEF Core

-----------------------------------------------------------------------------
(***************************************************************************)
(* The client, the thread that reads it, and the program.                  *)
(***************************************************************************)

\* Where the loop is and what it holds in hand are its own.
LEMMA ResolvedStays ==
  ASSUME Resolved, UNCHANGED <<pc, then, hand, announced>>, hand \in Ids => request'[hand] = request[hand], Placed
  PROVE  Resolved'
<1>1. pc = "respond" \/ (pc = "tell" /\ then = "respond") => hand \in Ids
  BY DEF Placed, Control, Serving
<1>2. QED
  BY <1>1 DEF Resolved

\* A step of the client, the reader or the program leaves the loop where it is.
LEMMA PlacedStays ==
  ASSUME Placed, UNCHANGED <<pc, then, hand, untold, pending, ended, session, begun, configured, arrival>>,
         reader' \in {"reading", "ended"}, stopping' \in BOOLEAN, reader = "ended" => reader' = "ended",
         stopping' /\ ~stopping => reader' = "ended",
         program' \in {program, "over"}, program = "none" => program' = "none",
         reached' >= reached, reached' \in Int, reached \in Int,
         ~session => UNCHANGED <<held, line>>
  PROVE  Placed'
BY DEF Placed, ShapeOfLoop, Control, Serving

\* The client sends a request.
LEMMA SendKeeps ==
  ASSUME Core, NEW i \in Ids, Send(i)
  PROVE  Core'
<1>1. Requested /\ Placed /\ Stopped /\ Resolved /\ Tabled
  BY DEF Core
<1>2. UNCHANGED <<reading, queue, loop, life, telling, untold, table, agent>> /\ i \notin Outstanding
  BY DEF Send, telling
<1>3. Requested'
  BY <1>1, SendRequests
<1>4. reached \in Int
  BY <1>1, StopsAre
<1>5. Placed'
  BY <1>1, <1>2, <1>4, PlacedStays DEF reading, loop, life, agent, Placed, ShapeOfLoop
<1>6. Stopped'
  BY <1>1, <1>2, StopsStay DEF loop, life, telling, agent
<1>7. hand \in Ids => request'[hand] = request[hand]
  <2>1. hand \in Ids => hand # i
    BY <1>1, <1>2, PlacesAre DEF Outstanding
  <2>2. \E r : request' = [request EXCEPT ![i] = r]
    BY DEF Send
  <2>3. QED
    BY <1>1, <2>1, <2>2, PlacesAre
<1>8. Resolved'
  BY <1>1, <1>2, <1>7, ResolvedStays DEF loop, telling
<1>9. Tabled'
  BY <1>1, <1>2, TableStays DEF loop, life, table, agent
<1>10. QED
  BY <1>3, <1>5, <1>6, <1>8, <1>9 DEF Core

\* The client closes the connection.
LEMMA HangUpKeeps ==
  ASSUME Core, HangUp
  PROVE  Core'
<1>1. Requested /\ Placed /\ Stopped /\ Resolved /\ Tabled
  BY DEF Core
<1>2. UNCHANGED <<request, reading, queue, loop, life, telling, untold, table, agent>>
  BY DEF HangUp, telling
<1>3. Requested'
  BY <1>1, HangUpRequests
<1>4. reached \in Int
  BY <1>1, StopsAre
<1>5. Placed'
  BY <1>1, <1>2, <1>4, PlacedStays DEF reading, loop, life, agent, Placed, ShapeOfLoop
<1>6. Stopped'
  BY <1>1, <1>2, StopsStay DEF loop, life, telling, agent
<1>7. Resolved'
  BY <1>1, <1>2, ResolvedStays DEF loop, telling
<1>8. Tabled'
  BY <1>1, <1>2, TableStays DEF loop, life, table, agent
<1>9. QED
  BY <1>3, <1>5, <1>6, <1>7, <1>8 DEF Core

\* The reader may end the program, and changes nothing of the loop's.
LEMMA ReaderKeeps ==
  ASSUME Core, Requested', hand \in Ids => request'[hand] = request[hand],
         UNCHANGED <<loop, life, telling, table, owner, reached, line, held, armed, settings>>,
         reader' \in {"reading", "ended"}, stopping' \in BOOLEAN, reader = "ended" => reader' = "ended",
         stopping' /\ ~stopping => reader' = "ended",
         UNCHANGED program \/ EndDebuggee
  PROVE  Core'
<1>1. Placed /\ Stopped /\ Resolved /\ Tabled
  BY DEF Core
<1>2. program' \in {program, "over"} /\ (program # "live" => program' = program)
  BY DEF EndDebuggee
<1>3. reached \in Int
  BY <1>1, StopsAre
<1>4. UNCHANGED <<pc, then, hand, announced, untold, pending, ended, session, begun, configured, arrival, handles,
                  told, reached, line, held>>
  BY DEF loop, life, telling
<1>5. Placed'
  BY <1>1, <1>2, <1>3, <1>4, PlacedStays
<1>6. Stopped'
  BY <1>1, <1>2, <1>4, StopsStay
<1>7. Resolved'
  BY <1>1, <1>4, ResolvedStays
<1>8. Tabled'
  BY <1>1, <1>2, <1>4, TableStays DEF table
<1>9. QED
  BY <1>5, <1>6, <1>7, <1>8 DEF Core

\* The reader takes the next message off the connection.
LEMMA ReadKeeps ==
  ASSUME Core, Read
  PROVE  Core'
<1>1. Requested /\ Placed
  BY DEF Core
<1>2. reader \in {"reading", "ended"} /\ stopping \in BOOLEAN
  BY <1>1 DEF Placed, ShapeOfLoop
<1>3. CASE ReadEnd
  <2>1. Requested' /\ UNCHANGED request
    BY <1>1, <1>3, ReadEndRequests DEF ReadEnd
  <2>2. /\ UNCHANGED <<loop, life, telling, table, owner, reached, line, held, armed, settings>>
        /\ stopping' = TRUE /\ reader' = "ended" /\ EndDebuggee
    BY <1>3 DEF ReadEnd
  <2>3. QED
    BY <2>1, <2>2, ReaderKeeps
<1>4. ASSUME NEW i \in Ids, ReadPause(i) PROVE Core'
  <2>1. /\ inbox # <<>> /\ Head(inbox) = i /\ inbox' = Tail(inbox) /\ Responds(i)
        /\ UNCHANGED <<queue, loop, life, telling, table, owner, reached, line, held, armed, settings>>
        /\ UNCHANGED <<reader, stopping, program>>
    BY <1>4 DEF ReadPause, Reads, reading
  <2>2. UNCHANGED <<deferred, hand, told, pc, ended>>
    BY <2>1 DEF loop, telling
  <2>3. Requested'
    BY <1>1, <2>1, <2>2, ReaderAnswers
  <2>4. hand \in Ids => request'[hand] = request[hand]
    <3>1. i \in ToSet(inbox)
      BY <1>1, <2>1, PlacesAre, TailOnce
    <3>2. QED
      BY <1>1, <2>1, <3>1, PlacesAre DEF Responds
  <2>5. QED
    BY <1>2, <2>1, <2>3, <2>4, ReaderKeeps
<1>5. ASSUME NEW i \in Ids, ReadDisconnect(i) PROVE Core'
  <2>1. /\ inbox # <<>> /\ Head(inbox) = i /\ inbox' = Tail(inbox) /\ Responds(i)
        /\ UNCHANGED <<queue, loop, life, telling, table, owner, reached, line, held, armed, settings>>
        /\ stopping' = TRUE /\ reader' = "ended" /\ EndDebuggee
    BY <1>5 DEF ReadDisconnect, Reads
  <2>2. UNCHANGED <<deferred, hand, told, pc, ended>>
    BY <2>1 DEF loop, telling
  <2>3. Requested'
    BY <1>1, <2>1, <2>2, ReaderAnswers
  <2>4. hand \in Ids => request'[hand] = request[hand]
    <3>1. i \in ToSet(inbox)
      BY <1>1, <2>1, PlacesAre, TailOnce
    <3>2. QED
      BY <1>1, <2>1, <3>1, PlacesAre DEF Responds
  <2>5. QED
    BY <2>1, <2>3, <2>4, ReaderKeeps
<1>6. ASSUME NEW i \in Ids, ReadRequest(i) PROVE Core'
  <2>1. Requested'
    BY <1>1, <1>6, ReadRequestRequests
  <2>2. /\ UNCHANGED <<loop, life, telling, table, owner, reached, line, held, armed, settings>>
        /\ UNCHANGED <<request, reader, stopping, program>>
    BY <1>6 DEF ReadRequest, reading, agent
  <2>3. QED
    BY <1>2, <2>1, <2>2, ReaderKeeps
<1>7. QED
  BY <1>3, <1>4, <1>5, <1>6 DEF Read

\* The program stops, runs on or ends.
LEMMA ProgramKeeps ==
  ASSUME Core, Program
  PROVE  Core'
<1>1. Requested /\ Placed /\ Stopped /\ Resolved /\ Tabled
  BY DEF Core
<1>2. program = "live" /\ session
  BY <1>1 DEF Program, Finish, Stop, Runs, Placed, Control
<1>3. UNCHANGED <<client, reading, queue, loop, life, telling, untold, table, held, armed, settings>>
  BY DEF Program, Finish, Stop, telling
<1>4. program' \in {program, "over"}
  BY DEF Program, Finish, Stop
<1>5. reached \in Int /\ reached' \in Int /\ reached' >= reached
  <2>1. reached' \in {reached, reached + 1}
    BY DEF Program, Finish, Stop
  <2>2. QED
    BY <1>1, <2>1, StopsAre
<1>6. Requested'
  BY <1>1, <1>3, RequestsStay DEF client, loop, telling
<1>7. Placed'
  BY <1>1, <1>2, <1>3, <1>4, <1>5, PlacedStays DEF reading, loop, life, Placed, ShapeOfLoop
<1>8. Stopped'
  <2>1. CASE Finish
    BY <1>1, <1>2, <2>1, StopsStay DEF Finish, loop, life, telling
  <2>2. ASSUME NEW t \in Threads, Stop(t) PROVE Stopped'
    BY <1>1, <2>2, StopStops
  <2>3. QED
    BY <2>1, <2>2 DEF Program
<1>9. Resolved'
  BY <1>1, <1>3, ResolvedStays DEF client, loop, telling
<1>10. Tabled'
  BY <1>1, <1>2, <1>3, TableStays DEF loop, life, table
<1>11. QED
  BY <1>6, <1>7, <1>8, <1>9, <1>10 DEF Core

-----------------------------------------------------------------------------
(***************************************************************************)
(* The loop.                                                               *)
(***************************************************************************)

\* A step of the loop that only moves requests leaves the stops and the table.
LEMMA MovingKeeps ==
  ASSUME Core, UNCHANGED <<then, life, telling, table, agent>>,
         pc \notin {"tell", "go", "arm"}, pc' \notin {"tell", "go", "respond"}
  PROVE  Stopped' /\ Resolved' /\ Tabled'
<1>1. Stopped /\ Tabled
  BY DEF Core
<1>2. Stopped'
  BY <1>1, StopsStay DEF life, telling, agent
<1>3. Resolved'
  BY DEF Resolved
<1>4. Tabled'
  BY <1>1, TableStays DEF life, table, agent
<1>5. QED
  BY <1>2, <1>3, <1>4

\* A turn of the loop begins.
LEMMA TurnKeeps ==
  ASSUME Core, Turn
  PROVE  Core'
<1>1. Requested /\ Placed
  BY DEF Core
<1>2. Requested'
  BY <1>1, TurnRequests
<1>3. /\ pc = "turn" /\ UNCHANGED <<then, life, telling, table, agent, reading, hand>>
      /\ \/ /\ pc' = "leaving" /\ ended' = "client" /\ UNCHANGED pending
            /\ stopping \/ reader = "ended"
         \/ pc' \in {"wait", "take"} /\ UNCHANGED ended /\ pending' \in BOOLEAN
  BY DEF Turn, Leaves
<1>4. Placed'
  BY <1>1, <1>3 DEF Placed, ShapeOfLoop, Control, Serving, Places, life, telling, agent, reading
<1>5. Stopped' /\ Resolved' /\ Tabled'
  BY <1>3, MovingKeeps
<1>6. QED
  BY <1>2, <1>4, <1>5 DEF Core

\* The loop takes a request off the queue.
LEMMA TakeKeeps ==
  ASSUME Core, Take
  PROVE  Core'
<1>1. Requested /\ Placed
  BY DEF Core
<1>2. Requested'
  BY <1>1, TakeRequests
<1>3. /\ pc = "take" /\ UNCHANGED <<then, life, telling, table, agent, reading, pending>>
      /\ \/ pc' = "leaving" /\ ended' = "client" /\ reader = "ended" /\ UNCHANGED hand
         \/ /\ pc' \in {"look", "handle"} /\ UNCHANGED ended
            /\ (deferred # <<>> /\ hand' = Head(deferred)) \/ (queue # <<>> /\ hand' = Head(queue))
  BY DEF Take, Takes, Leaves
<1>4. pc' \in {"look", "handle"} => hand' \in Ids
  BY <1>1, <1>3, PlacesAre, TailOnce
<1>5. Placed'
  BY <1>1, <1>3, <1>4 DEF Placed, ShapeOfLoop, Control, Serving, Places, life, telling, agent, reading
<1>6. Stopped' /\ Resolved' /\ Tabled'
  BY <1>3, MovingKeeps
<1>7. QED
  BY <1>2, <1>5, <1>6 DEF Core

\* A request that arrives while the program is launched is put aside.
LEMMA SetAsideKeeps ==
  ASSUME Core, SetAside
  PROVE  Core'
<1>1. Requested /\ Placed
  BY DEF Core
<1>2. /\ pc = "launching" /\ queue # <<>>
      /\ deferred' = Append(deferred, Head(queue)) /\ queue' = Tail(queue)
      /\ UNCHANGED <<client, reading, pc, hand, then, pending, ended, life, telling, table, agent>>
  BY DEF SetAside
<1>3. Requested'
  BY <1>1, <1>2, SetAsideRequests DEF client, telling
<1>4. Placed'
  BY <1>1, <1>2 DEF Placed, ShapeOfLoop, Control, Serving, life, telling, agent, reading
<1>5. Stopped' /\ Resolved' /\ Tabled'
  BY <1>2, MovingKeeps
<1>6. QED
  BY <1>3, <1>4, <1>5 DEF Core

\* What is left at the end is refused.
LEMMA RefuseKeeps ==
  ASSUME Core, RefuseWhatIsLeft
  PROVE  Core'
<1>1. Requested /\ Placed
  BY DEF Core
<1>2. /\ pc = "leaving" /\ pc' = "joining"
      /\ UNCHANGED <<reading, hand, then, pending, ended, life, telling, table, agent>>
  BY DEF RefuseWhatIsLeft
<1>3. Requested'
  BY <1>1, RefuseRequests
<1>4. Placed'
  BY <1>1, <1>2 DEF Placed, ShapeOfLoop, Control, Serving, Places, life, telling, agent, reading
<1>5. Stopped' /\ Resolved' /\ Tabled'
  BY <1>2, MovingKeeps
<1>6. QED
  BY <1>3, <1>4, <1>5 DEF Core

\* The reader is joined.
LEMMA JoinKeeps ==
  ASSUME Core, Join
  PROVE  Core'
<1>1. Requested /\ Placed
  BY DEF Core
<1>2. /\ pc = "joining" /\ pc' = "done"
      /\ UNCHANGED <<client, reading, queue, hand, then, deferred, pending, ended, life, telling, table, agent>>
  BY DEF Join
<1>3. Requested'
  BY <1>1, <1>2, RequestsStay DEF client, telling
<1>4. Placed'
  BY <1>1, <1>2 DEF Placed, ShapeOfLoop, Control, Serving, Places, life, telling, agent, reading
<1>5. Stopped' /\ Resolved' /\ Tabled'
  BY <1>2, MovingKeeps
<1>6. QED
  BY <1>3, <1>4, <1>5 DEF Core

\* Looking at the program may take one stop off its connection.
LEMMA LooksKeeps ==
  ASSUME Core, EntryIsMain, NEW next, LooksAt(next), UNCHANGED <<queue, hand, deferred>>,
         \/ pc \in {"wait", "take"} /\ next \in {"turn", "take"}
         \/ pc = "look" /\ next = "handle"
  PROVE  Core'
<1>1. Requested /\ Placed /\ Stopped /\ Tabled
  BY DEF Core
<1>2. UNCHANGED <<request, answers, inbox, reader, stopping, pending, told, session, configured, begun,
                  arrival, byFile, mints, unarmed, kept, asked, program, reached, armed, settings>>
  BY DEF LooksAt, client, reading, table
<1>3. \/ /\ line # <<>> /\ line' = Tail(line) /\ Announcing(held \cup {Head(line)}, next) /\ UNCHANGED ended
      \/ /\ line = <<>> /\ line' = line /\ Finishing /\ Announcing(held, next) /\ UNCHANGED ended
      \/ /\ UNCHANGED <<line, held, announced, untold, handles, then>>
         /\ \/ pc' = next /\ UNCHANGED ended
            \/ pc' = "leaving" /\ ended' = "client" /\ stopping /\ pc = "wait"
  BY DEF LooksAt, Leaves
<1>4. pc' \in {next, "tell", "leaving"}
  BY <1>3 DEF Announcing
<1>5. Requested'
  BY <1>1, <1>2, <1>4, RequestsStay
<1>6. untold = <<>>
  BY <1>1 DEF Placed, Control
<1>7. Stopped'
  <2>1. CASE line # <<>> /\ line' = Tail(line) /\ Announcing(held \cup {Head(line)}, next)
    <3> DEFINE h == held \cup {Head(line)}
    <3>1. /\ line' \in Seq(Stops) /\ NoTwice(line') /\ Head(line) \in OnLine /\ ToSet(line') = OnLine \ {Head(line)}
      BY <1>1, <2>1, StopsAre, TailOnce DEF OnLine
    <3>2. OnLine \cap held = {}
      BY <1>1, StopsAre
    <3>3. h \in SUBSET AgentHolds
      BY <3>1 DEF AgentHolds
    <3>4. ToSet(line') \subseteq OnLine /\ ToSet(line') \cap h = {}
      BY <3>1, <3>2
    <3>5. begun \/ arrival = "TakenUp"
      BY <1>1, <2>1 DEF Stopped, Noted, ShapeOfLoop, Placed
    <3>6. arrival = "Launched" /\ ~StopOnEntry /\ ~Fails => 1 \notin AgentHolds
      BY <1>1, <2>1 DEF Stopped, EntryIsOurs
    <3>7. h \cup ToSet(line') \subseteq AgentHolds
      BY <3>3, <3>4 DEF AgentHolds
    <3>8. next \notin {"tell", "go"}
      OBVIOUS
    <3>9. Announcing(h, next)
      BY <2>1
    <3> HIDE DEF h
    <3>10. QED
      BY <1>1, <1>2, <1>6, <3>1, <3>3, <3>4, <3>5, <3>6, <3>7, <3>8, <3>9, Announces
  <2>2. CASE UNCHANGED <<line, held, announced, untold, handles, then>> /\ pc' \in {next, "leaving"}
    BY <1>1, <1>2, <2>2, StopsStay
  <2>3. CASE line = <<>> /\ line' = line /\ Finishing /\ Announcing(held, next)
    <3>1. AgentHolds = held /\ OnLine = {} /\ ToSet(line') = {} /\ NoTwice(line') /\ line' \in Seq(Stops)
      BY <2>3, NoneOnce DEF AgentHolds, OnLine
    <3>2. program = "live" /\ held # {} /\ \A n \in held : owner[n] # Main
      BY <2>3, <3>1 DEF Finishing
    <3>3. 1 \notin held
      BY <3>2 DEF EntryIsMain
    <3>4. session
      BY <1>1, <3>2 DEF Placed, Control
    <3>5. begun \/ arrival = "TakenUp"
      BY <1>1, <3>3, <3>4 DEF Stopped, Noted, ShapeOfLoop, Placed
    <3>6. held \in SUBSET AgentHolds /\ ToSet(line') \subseteq OnLine /\ ToSet(line') \cap held = {}
          /\ 1 \notin held \cup ToSet(line') /\ next \notin {"tell", "go"}
      BY <3>1, <3>3
    <3>7. Announcing(held, next)
      BY <2>3
    <3>8. QED
      BY <1>1, <1>2, <1>6, <3>1, <3>5, <3>6, <3>7, Announces
  <2>4. QED
    BY <1>3, <2>1, <2>2, <2>3
<1>8. Tabled'
  BY <1>1, <1>2, TableStays
<1>9. ~session => held' = {} /\ line' = <<>>
  BY <1>1, <1>3 DEF Placed, Control, Finishing
<1>10. \/ pc' = (IF untold' = <<>> THEN next ELSE "tell") /\ then' = next /\ UNCHANGED ended
       \/ UNCHANGED <<untold, then>> /\ pc' = next /\ UNCHANGED ended
       \/ UNCHANGED <<untold, then>> /\ pc' = "leaving" /\ ended' = "client" /\ stopping /\ pc = "wait"
  BY <1>3 DEF Announcing
<1>11. Placed'
  <2>1. ShapeOfLoop'
    BY <1>1, <1>2, <1>10 DEF Placed, ShapeOfLoop, Places
  <2>2. (hand' \in Ids <=> Serving') /\ (pc' = "tell" <=> untold' # <<>>)
    <3>1. hand \in Ids <=> pc = "look"
      BY <1>1 DEF Placed, Control, Serving
    <3>2. pc' = "tell" <=> untold' # <<>>
      BY <1>6, <1>10
    <3>3. QED
      BY <1>10, <3>1, <3>2 DEF Serving
  <2>3. QED
    BY <1>1, <1>2, <1>9, <1>10, <2>1, <2>2 DEF Placed, Control
<1>12. Resolved'
  BY <1>6, <1>10 DEF Resolved
<1>13. QED
  BY <1>5, <1>7, <1>8, <1>11, <1>12 DEF Core

\* The loop waits, finds nothing, or looks at the program first.
LEMMA LookingKeeps ==
  ASSUME Core, EntryIsMain, WaitForProgram \/ TakeNothing \/ LookFirst
  PROVE  Core'
<1>1. CASE WaitForProgram
  <2>1. pc = "wait" /\ LooksAt(IF pending THEN "take" ELSE "turn") /\ UNCHANGED <<queue, hand, deferred>>
    BY <1>1 DEF WaitForProgram
  <2>2. (IF pending THEN "take" ELSE "turn") \in {"turn", "take"}
    OBVIOUS
  <2>3. QED
    BY <2>1, <2>2, LooksKeeps
<1>2. CASE TakeNothing
  BY <1>2, LooksKeeps DEF TakeNothing
<1>3. CASE LookFirst
  BY <1>3, LooksKeeps DEF LookFirst
<1>4. QED
  BY <1>1, <1>2, <1>3

\* The program is asked for everything it is to have, before it is let go.
LEMMA ArmKeeps ==
  ASSUME Core, Arm
  PROVE  Core'
<1>1. Requested /\ Placed /\ Stopped /\ Tabled
  BY DEF Core
<1>2. /\ pc = "arm" /\ session /\ ~begun /\ hand \notin Ids /\ untold = <<>> /\ ended = "no"
      /\ UNCHANGED <<inbox, reader, stopping, queue, deferred, pending, ended, told, program, reached,
                     session, configured, begun, arrival>>
  BY <1>1 DEF Arm, quiet, reading, life, Placed, Control, Serving
<1>3. Tabled'
  BY <1>1, ArmTable
<1>4. \/ Ask(AgentHolds, "arm")
      \/ Refused("arm")
      \/ pc' \in {"begin", "turn"} /\ UNCHANGED <<request, answers, hand, asks>>
  BY DEF Arm, ArmSetting, ArmBreakpoints
<1>5. CASE Ask(AgentHolds, "arm")
  <2>1. AgentHolds \in SUBSET AgentHolds
    OBVIOUS
  <2>2. pc' = "arm" /\ UNCHANGED <<request, answers, hand, untold, announced, then>>
    BY <1>2, <1>5 DEF Ask
  <2>3. Requested'
    BY <1>1, <1>2, <2>2, RequestsStay
  <2>4. Stopped'
    BY <1>1, <1>2, <1>5, <2>1, AskStops
  <2>5. Placed'
    BY <1>1, <1>2, <2>2 DEF Placed, ShapeOfLoop, Control, Serving, Places
  <2>6. Resolved'
    BY <2>2 DEF Resolved
  <2>7. QED
    BY <1>3, <2>3, <2>4, <2>5, <2>6 DEF Core
<1>6. CASE pc' \in {"begin", "turn"} /\ UNCHANGED <<request, answers, hand, asks>>
  <2>1. Requested'
    BY <1>1, <1>2, <1>6, RequestsStay
  <2>2. Stopped'
    BY <1>1, <1>2, <1>6, StopsStay DEF asks
  <2>3. Placed'
    BY <1>1, <1>2, <1>6 DEF Placed, ShapeOfLoop, Control, Serving, Places, asks
  <2>4. Resolved'
    BY <1>6 DEF Resolved
  <2>5. QED
    BY <1>3, <2>1, <2>2, <2>3, <2>4 DEF Core
<1>7. CASE Refused("arm")
  <2>1. pc' = "turn" /\ UNCHANGED <<request, answers, hand, untold, announced, then>>
    BY <1>7 DEF Refused, Aborts
  <2>2. Requested'
    BY <1>1, <1>2, <2>1, RequestsStay
  <2>3. Stopped'
    BY <1>1, <1>2, <1>7, RefusedStops
  <2>4. Placed'
    BY <1>1, <1>2, <2>1 DEF Placed, ShapeOfLoop, Control, Serving, Places
  <2>5. Resolved'
    BY <2>1 DEF Resolved
  <2>6. QED
    BY <1>3, <2>2, <2>3, <2>4, <2>5 DEF Core
<1>8. QED
  BY <1>4, <1>5, <1>6, <1>7

\* The program is asked what is to be asked of it once, and is then to be let go.
LEMMA BeginKeeps ==
  ASSUME Core, Begin, ~begun
  PROVE  Core'
<1>1. Requested /\ Placed /\ Stopped /\ Tabled
  BY DEF Core
<1>2. /\ pc = "begin" /\ hand \notin Ids /\ untold = <<>> /\ ended = "no" /\ session
      /\ UNCHANGED <<inbox, reader, stopping, queue, deferred, pending, ended, told, program, reached,
                     session, configured, arrival, request, answers, hand, announced, untold, handles, then,
                     table, armed, settings>>
  BY <1>1 DEF Begin, quiet, reading, Placed, Control, Serving
<1>3. /\ Hears
      /\ (begun' = TRUE /\ pc' = "go") \/ (UNCHANGED begun /\ pc' = "turn")
  BY DEF Begin
<1>4. pc' \in {"go", "turn"}
  BY <1>3
<1>5. Requested'
  BY <1>1, <1>2, <1>4, RequestsStay
<1>6. Stopped'
  <2>1. pc' # "tell" /\ untold' = <<>> /\ ~(begun' /\ pc' # "go")
    BY <1>2, <1>3
  <2>2. QED
    BY <1>1, <1>2, <1>3, <2>1, HearsStops
<1>7. Placed'
  BY <1>1, <1>2, <1>3 DEF Placed, ShapeOfLoop, Control, Serving, Places
<1>8. Resolved'
  BY <1>4 DEF Resolved
<1>9. Tabled'
  BY <1>1, <1>2, TableStays DEF table
<1>10. QED
  BY <1>5, <1>6, <1>7, <1>8, <1>9 DEF Core

\* It is let go, or what it is held at is announced.
LEMMA GoKeeps ==
  ASSUME Core, Go
  PROVE  Core'
<1>1. Requested /\ Placed /\ Stopped /\ Tabled
  BY DEF Core
<1>2. /\ pc = "go" /\ hand \notin Ids /\ untold = <<>> /\ ended = "no" /\ session /\ begun
      /\ UNCHANGED <<inbox, reader, stopping, queue, deferred, pending, ended, told, program, reached,
                     session, configured, begun, arrival, table, armed, settings>>
  BY <1>1 DEF Go, quiet, reading, life, Plain, Placed, Control, Serving
<1>3. \/ /\ StopOnEntry \/ arrival = "TakenUp"
         /\ Announcing(held, "turn") /\ UNCHANGED <<line, request, answers, hand>>
      \/ ~StopOnEntry /\ arrival = "Launched" /\ Ask({}, "turn")
      \/ ~StopOnEntry /\ arrival = "Launched" /\ MayFail /\ Refused("turn")
  BY <1>1 DEF Go, Placed, ShapeOfLoop
<1>4. /\ UNCHANGED <<request, answers, hand>> /\ pc' \in {"turn", "tell"} /\ (pc' = "tell" <=> untold' # <<>>)
      /\ then' = "turn" \/ then' = then
      /\ pc' = "tell" => then' = "turn"
  BY <1>2, <1>3 DEF Ask, Announcing, Refused, Aborts
<1>5. Requested'
  BY <1>1, <1>2, <1>4, RequestsStay
<1>6. Stopped'
  <2>1. CASE (StopOnEntry \/ arrival = "TakenUp") /\ Announcing(held, "turn") /\ UNCHANGED line
    <3>1. held \in SUBSET AgentHolds
      BY DEF AgentHolds
    <3>2. line' \in Seq(Stops) /\ NoTwice(line') /\ ToSet(line') = OnLine /\ OnLine \cap held = {}
      BY <1>1, <2>1, StopsAre DEF OnLine
    <3>3. ~(arrival = "Launched" /\ ~StopOnEntry)
      BY <2>1
    <3>4. QED
      BY <1>1, <1>2, <2>1, <3>1, <3>2, <3>3, Announces
  <2>2. CASE arrival = "Launched" /\ Ask({}, "turn")
    <3>1. {} \in SUBSET AgentHolds
      OBVIOUS
    <3>2. QED
      BY <1>1, <1>2, <2>2, <3>1, AskStops
  <2>3. CASE arrival = "Launched" /\ MayFail /\ Refused("turn")
    BY <1>1, <1>2, <2>3, RefusedStops
  <2>4. QED
    BY <1>3, <2>1, <2>2, <2>3
<1>7. Placed'
  BY <1>1, <1>2, <1>4 DEF Placed, ShapeOfLoop, Control, Serving, Places
<1>8. Resolved'
  BY <1>4 DEF Resolved
<1>9. Tabled'
  BY <1>1, <1>2, TableStays DEF table
<1>10. QED
  BY <1>5, <1>6, <1>7, <1>8, <1>9 DEF Core

\* What is to be told decides whether it holds the world.
LEMMA TellAsksKeeps ==
  ASSUME Core, TellAsks
  PROVE  Core'
<1>1. Requested /\ Placed /\ Stopped /\ Tabled
  BY DEF Core
<1>2. /\ pc = "tell" /\ untold # <<>> /\ ended = "no" /\ then \in {"turn", "take", "handle", "respond"}
      /\ (hand \in Ids <=> then \in {"handle", "respond"}) /\ 0 \notin Ids
      /\ UNCHANGED <<inbox, reader, stopping, queue, then, deferred, pending, ended, session, configured, begun,
                     arrival, handles, told, table, program, reached, armed, settings>>
  BY <1>1, AdapterAssumption DEF TellAsks, reading, life, Placed, ShapeOfLoop, Control, Serving
<1>3. \/ /\ program = "live" /\ line' = <<>> /\ held' = AgentHolds /\ announced' = AgentHolds
         /\ untold' = InOrder(AgentHolds \ announced) \o untold
         /\ UNCHANGED <<request, answers, pc, hand>>
      \/ /\ MayFail /\ Hears
         /\ untold' = <<>> /\ Aborts(then) /\ UNCHANGED announced
      \/ UNCHANGED <<line, held, announced, untold, request, answers, pc, hand>>
  BY DEF TellAsks
<1>4. Tabled'
  BY <1>1, <1>2, TableStays DEF table
<1>5. ~session => AgentHolds = {} /\ line = <<>> /\ held = {}
  BY <1>1, NoneOnce DEF Placed, Control, AgentHolds, OnLine
<1>6. CASE /\ program = "live" /\ line' = <<>> /\ held' = AgentHolds /\ announced' = AgentHolds
           /\ untold' = InOrder(AgentHolds \ announced) \o untold
           /\ UNCHANGED <<request, answers, pc, hand>>
  <2>1. Requested'
    BY <1>1, <1>2, <1>6, RequestsStay
  <2>2. Stopped' /\ untold' # <<>>
    BY <1>1, <1>2, <1>6, AnnouncesMore
  <2>3. Placed'
    BY <1>1, <1>2, <1>5, <1>6, <2>2 DEF Placed, ShapeOfLoop, Control, Serving
  <2>4. Resolved'
    <3>1. announced \subseteq AgentHolds
      BY <1>1, <1>2 DEF Stopped, Noted, AgentHolds
    <3>2. QED
      BY <1>2, <1>6, <3>1 DEF Core, Resolved
  <2>5. QED
    BY <1>4, <2>1, <2>2, <2>3, <2>4 DEF Core
<1>7. CASE /\ MayFail /\ Hears
           /\ untold' = <<>> /\ Aborts(then) /\ UNCHANGED announced
  <2>1. \/ hand \in Ids /\ Responds(hand) /\ hand' = 0 /\ pc' = "turn"
        \/ UNCHANGED <<request, answers, hand>> /\ pc' = then /\ then \in {"turn", "take", "handle"}
    BY <1>2, <1>7 DEF Aborts, Puts
  <2>2. pc' \in {"turn", "take", "handle"}
    BY <2>1
  <2>3. Requested'
    <3>1. CASE hand \in Ids /\ Responds(hand) /\ hand' = 0 /\ pc' = "turn"
      BY <1>1, <1>2, <3>1, PutsDown
    <3>2. CASE UNCHANGED <<request, answers, hand>> /\ pc' \in {"turn", "take", "handle"}
      BY <1>1, <1>2, <3>2, RequestsStay
    <3>3. QED
      BY <2>1, <3>1, <3>2
  <2>4. announced \subseteq held /\ ~(program = "live" /\ ~Fails)
    BY <1>1, <1>2, <1>7 DEF Stopped, Noted, MayFail
  <2>5. Stopped'
    BY <1>1, <1>2, <1>7, <2>2, <2>4, HearsStops
  <2>6. Placed'
    <3>1. ~session => held' = {} /\ line' = <<>>
      BY <1>5, <1>7 DEF Hears
    <3>2. QED
      BY <1>1, <1>2, <1>7, <2>1, <3>1 DEF Placed, ShapeOfLoop, Control, Serving, Places
  <2>7. Resolved'
    BY <2>2 DEF Resolved
  <2>8. QED
    BY <1>4, <2>3, <2>5, <2>6, <2>7 DEF Core
<1>8. CASE UNCHANGED <<line, held, announced, untold, request, answers, pc, hand>>
  <2>1. Requested'
    BY <1>1, <1>2, <1>8, RequestsStay
  <2>2. Stopped'
    BY <1>1, <1>2, <1>8, StopsStay
  <2>3. Placed'
    BY <1>1, <1>2, <1>8 DEF Placed, ShapeOfLoop, Control, Serving
  <2>4. Resolved'
    BY <1>2, <1>8 DEF Core, Resolved
  <2>5. QED
    BY <1>4, <2>1, <2>2, <2>3, <2>4 DEF Core
<1>9. QED
  BY <1>3, <1>6, <1>7, <1>8

\* A stop is told to the client.
LEMMA TellKeeps ==
  ASSUME Core, Tell
  PROVE  Core'
<1>1. Requested /\ Placed /\ Stopped /\ Tabled
  BY DEF Core
<1>2. /\ pc = "tell" /\ untold # <<>> /\ ended = "no" /\ then \in {"turn", "take", "handle", "respond"}
      /\ (hand \in Ids <=> then \in {"handle", "respond"})
      /\ told' = [told EXCEPT ![Head(untold)] = @ + 1] /\ pc' = IF untold' = <<>> THEN then ELSE pc
      /\ UNCHANGED <<request, answers, inbox, reader, stopping, queue, then, deferred, pending, ended, session,
                     configured, begun, arrival, handles, announced, table, program, reached, line, held, hand,
                     armed, settings>>
  BY <1>1 DEF Tell, client, reading, life, agent, Placed, ShapeOfLoop, Control, Serving
<1>3. \A n \in Stops : told[n] > 0 => told'[n] > 0
  <2>1. told \in [Stops -> Nat]
    BY <1>1, StopsAre
  <2>2. \A n \in Stops : told'[n] = told[n] \/ told'[n] = told[n] + 1
    BY <1>2, <2>1
  <2>3. QED
    BY <2>1, <2>2
<1>4. pc' \in {"turn", "take", "handle", "respond", "tell"}
  BY <1>2
<1>5. Requested'
  BY <1>1, <1>2, <1>3, <1>4, RequestsStay
<1>6. Stopped'
  BY <1>1, TellStops
<1>7. Placed'
  BY <1>1, <1>2, <1>4 DEF Placed, ShapeOfLoop, Control, Serving, Places
<1>8. Resolved'
  BY <1>2 DEF Core, Resolved
<1>9. Tabled'
  BY <1>1, <1>2, TableStays DEF table
<1>10. QED
  BY <1>5, <1>6, <1>7, <1>8, <1>9 DEF Core

\* What an answer mints references at is announced.
LEMMA RespondKeeps ==
  ASSUME Core, Respond
  PROVE  Core'
<1>1. Requested /\ Placed /\ Stopped /\ Tabled /\ Resolved
  BY DEF Core
<1>2. /\ pc = "respond" /\ hand \in Ids /\ Responds(hand) /\ hand' = 0 /\ pc' = "turn" /\ ended = "no"
      /\ untold = <<>> /\ 0 \notin Ids
      /\ UNCHANGED <<inbox, reader, stopping, queue, deferred, pending, ended, told, program, reached, line, held,
                     announced, untold, then, session, configured, begun, arrival, table, armed, settings>>
  BY <1>1, AdapterAssumption DEF Respond, Puts, quiet, reading, life, Plain, Placed, Control, Serving
<1>3. PICK m \in {{}, Mints(InHand)} : handles' = handles \cup m
  BY DEF Respond
<1>4. InHand.command \in OfItsOwn => InHand.of \in announced
  BY <1>1, <1>2 DEF Resolved, InHand
<1>5. m \subseteq announced
  <2>1. StopOf(InHand) \subseteq announced
    BY DEF StopOf
  <2>2. \/ Mints(InHand) = StopOf(InHand)
        \/ InHand.command \in OfItsOwn /\ Mints(InHand) = {InHand.of}
        \/ Mints(InHand) = announced
        \/ Mints(InHand) = {}
    BY DEF Mints, OfItsOwn
  <2>3. QED
    BY <1>4, <2>1, <2>2
<1>6. handles \subseteq handles' /\ handles' \subseteq announced
  BY <1>1, <1>3, <1>5, StopsAre
<1>7. Requested'
  BY <1>1, <1>2, PutsDown
<1>8. Stopped'
  BY <1>1, <1>2, <1>6, MintsStops
<1>9. Placed'
  BY <1>1, <1>2 DEF Placed, ShapeOfLoop, Control, Serving, Places
<1>10. Resolved'
  BY <1>2 DEF Resolved
<1>11. Tabled'
  BY <1>1, <1>2, TableStays DEF table
<1>12. QED
  BY <1>7, <1>8, <1>9, <1>10, <1>11 DEF Core

-----------------------------------------------------------------------------
(***************************************************************************)
(* Starting a program.                                                     *)
(***************************************************************************)

\* It is there, held, and is to be asked for what was kept for it.
LEMMA StartsKeeps ==
  ASSUME Core, NEW how, NEW h, NEW l, Starts(how, h, l), hand \in Ids, ~session, pc \in {"handle", "launching"},
         (how = "Launched" /\ h = {1} /\ l = <<>>) \/ (how = "TakenUp" /\ h = {} /\ l = << 1 >>),
         UNCHANGED <<inbox, reader, stopping, queue, then, deferred, pending, telling, table, armed, settings>>
  PROVE  Core'
<1>1. Requested /\ Placed /\ Stopped /\ Tabled
  BY DEF Core
<1>2. /\ session' = TRUE /\ arrival' = how /\ program' = "live" /\ reached' = 1 /\ held' = h /\ line' = l
      /\ Responds(hand) /\ hand' = 0 /\ pc' = "arm" /\ 0 \notin Ids
      /\ UNCHANGED <<configured, begun, ended, announced, untold, handles, told>>
  BY AdapterAssumption DEF Starts, Puts, telling
<1>3. ~begun /\ untold = <<>> /\ ended = "no"
  BY <1>1 DEF Placed, Control
<1>4. Requested'
  BY <1>1, <1>2, PutsDown
<1>5. Stopped'
  BY <1>1, <1>2, StartsStops
<1>6. Placed'
  BY <1>1, <1>2, <1>3 DEF Placed, ShapeOfLoop, Control, Serving, Places
<1>7. Resolved'
  BY <1>2 DEF Resolved
<1>8. Tabled'
  BY <1>1, <1>2, StartsTable DEF table
<1>9. QED
  BY <1>4, <1>5, <1>6, <1>7, <1>8 DEF Core

\* There is none, or none any more: the request in hand is answered.
LEMMA RefusedKeeps ==
  ASSUME Core, hand \in Ids, Responds(hand), hand' = 0, pc \in {"handle", "launching"},
         \/ pc' = "turn" /\ UNCHANGED ended
         \/ pc' = "leaving" /\ ended' = "nothing",
         UNCHANGED <<inbox, reader, stopping, queue, then, deferred, pending, telling, table, armed, settings,
                     program, reached, held, line, session, configured, begun, arrival>>
  PROVE  Core'
<1>1. Requested /\ Placed /\ Stopped /\ Tabled
  BY DEF Core
<1>2. 0 \notin Ids /\ untold = <<>> /\ ended = "no" /\ UNCHANGED <<told, untold, announced, handles>>
  BY <1>1, AdapterAssumption DEF Placed, Control, telling
<1>3. Requested'
  BY <1>1, <1>2, PutsDown
<1>4. Stopped'
  BY <1>1, <1>2, StopsStay
<1>5. Placed'
  BY <1>1, <1>2 DEF Placed, ShapeOfLoop, Control, Serving, Places
<1>6. Resolved'
  BY DEF Resolved
<1>7. Tabled'
  BY <1>1, TableStays DEF table
<1>8. QED
  BY <1>3, <1>4, <1>5, <1>6, <1>7 DEF Core

\* `launch` is asked.
LEMMA LaunchKeeps ==
  ASSUME Core, Launch
  PROVE  Core'
<1>1. Requested /\ Placed /\ Stopped /\ Tabled
  BY DEF Core
<1>2. /\ pc = "handle"
      /\ UNCHANGED <<inbox, reader, stopping, queue, deferred, pending, then, told, program, reached, line, held,
                     announced, untold, handles, session, configured, begun, arrival, table, armed, settings,
                     worlds>>
  BY DEF Launch, Handles, reading, Plain, life
<1>3. hand \in Ids /\ untold = <<>> /\ ended = "no"
  BY <1>1, <1>2 DEF Placed, Control, Serving
<1>4. CASE session
  <2>1. Responds(hand) /\ hand' = 0 /\ pc' = "leaving" /\ ended' = "nothing"
    BY <1>4 DEF Launch, Leaves
  <2>2. QED
    BY <1>2, <1>3, <2>1, RefusedKeeps DEF telling
<1>5. CASE ~session
  <2>1. pc' = "launching" /\ UNCHANGED <<request, answers, hand, ended>>
    BY <1>5 DEF Launch
  <2>2. Requested'
    BY <1>1, <1>2, <2>1, RequestsStay
  <2>3. Stopped'
    BY <1>1, <1>2, <2>1, StopsStay
  <2>4. Placed'
    BY <1>1, <1>2, <1>3, <1>5, <2>1 DEF Placed, ShapeOfLoop, Control, Serving, Places
  <2>5. Resolved'
    BY <2>1 DEF Resolved
  <2>6. Tabled'
    BY <1>1, <1>2, <2>1, TableStays DEF table
  <2>7. QED
    BY <2>2, <2>3, <2>4, <2>5, <2>6 DEF Core
<1>6. QED
  BY <1>4, <1>5

\* The launch is over: it has worked or failed.
LEMMA LaunchedKeeps ==
  ASSUME Core, Launched
  PROVE  Core'
<1>1. pc = "launching" /\ hand \in Ids /\ ~session
  BY DEF Core, Launched, Placed, Control, Serving
<1>2. UNCHANGED <<inbox, reader, stopping, queue, then, deferred, pending, telling, table, armed, settings>>
  BY DEF Launched
<1>3. CASE Starts("Launched", {1}, <<>>)
  BY <1>1, <1>2, <1>3, StartsKeeps
<1>4. CASE Puts(hand, "turn") /\ UNCHANGED <<session, configured, begun, arrival, program, reached, held, line, ended>>
  BY <1>1, <1>2, <1>4, RefusedKeeps DEF Puts
<1>5. CASE NothingToDebug
  BY <1>1, <1>2, <1>5, RefusedKeeps DEF NothingToDebug, Leaves, life
<1>6. QED
  BY <1>3, <1>4, <1>5 DEF Launched

\* `attach` takes up a child that is held already.
LEMMA AttachKeeps ==
  ASSUME Core, Attach
  PROVE  Core'
<1>1. pc = "handle" /\ hand \in Ids
  BY DEF Core, Attach, Handles, Placed, Control, Serving
<1>2. UNCHANGED <<inbox, reader, stopping, queue, then, deferred, pending, telling, table, armed, settings>>
  BY DEF Attach
<1>3. CASE ~session /\ Starts("TakenUp", {}, << 1 >>)
  BY <1>1, <1>2, <1>3, StartsKeeps
<1>4. CASE NothingToDebug
  BY <1>1, <1>2, <1>4, RefusedKeeps DEF NothingToDebug, Leaves, life
<1>5. QED
  BY <1>3, <1>4 DEF Attach

-----------------------------------------------------------------------------
(***************************************************************************)
(* The configuration.                                                      *)
(***************************************************************************)

\* No step but the client's own asks for anything.
Lessens == \A i \in Ids : request'[i] \in {request[i], NoRequest}

\* A step that answers a request makes none.
LEMMA AnswersLessen ==
  ASSUME Requested, UNCHANGED request \/ (\E i \in Ids : Responds(i)) \/ RefuseWhatIsLeft
  PROVE  Lessens
<1>1. request \in [Ids -> Asked]
  BY PlacesAre
<1>2. CASE UNCHANGED request
  BY <1>2 DEF Lessens
<1>3. ASSUME NEW i \in Ids, Responds(i) PROVE Lessens
  BY <1>1, <1>3 DEF Lessens, Responds
<1>4. CASE RefuseWhatIsLeft
  BY <1>4 DEF Lessens, RefuseWhatIsLeft
<1>5. QED
  BY <1>2, <1>3, <1>4

\* A step that configures and begins nothing, and makes no request, keeps it.
LEMMA ConfiguresStays ==
  ASSUME Configures, Lessens, UNCHANGED <<configured, begun>>, pc' = "begin" => pc = "begin"
  PROVE  Configures'
<1>1. NoRequest.command # "configurationDone"
  BY DEF NoRequest
<1>2. \A i \in Ids : request'[i].command = "configurationDone" => request[i].command = "configurationDone"
  BY <1>1 DEF Lessens
<1>3. QED
  BY <1>2 DEF Configures

\* A client says once that it has configured, and not again after that was taken.
LEMMA SendConfigures ==
  ASSUME Core, Configures, NEW i \in Ids, Send(i)
  PROVE  Configures'
<1>1. PICK c \in Commands \ {"eof"} :
         /\ c = "configurationDone" => ~configured /\ ~Sends(c)
         /\ \E r \in Requests(c) : request' = [request EXCEPT ![i] = r]
  BY DEF Send
<1>2. PICK r \in Requests(c) : request' = [request EXCEPT ![i] = r]
  BY <1>1
<1>3. r.command = c
  BY DEF Requests
<1>4. request'[i] = r /\ \A j \in Ids \ {i} : request'[j] = request[j]
  BY <1>2, PlacesAre DEF Core
<1>5. UNCHANGED <<configured, begun, pc>>
  BY DEF Send, life, loop
<1>6. c = "configurationDone" => ~configured /\ \A j \in Ids : request[j].command # "configurationDone"
  BY <1>1 DEF Sends
<1>7. QED
  BY <1>3, <1>4, <1>5, <1>6 DEF Configures

\* A command that is served configures only if that is what it asked for.
LEMMA ServedConfigures ==
  ASSUME Core, Configures, Served
  PROVE  Configures'
<1>1. /\ UNCHANGED begun /\ hand \in Ids /\ Requested /\ Placed
      /\ configured' \in BOOLEAN /\ configured \in BOOLEAN /\ (configured => configured')
      /\ configured' # configured => InHand.command = "configurationDone" /\ Responds(hand)
  BY DEF Served, Core, Placed, Control, Serving, ShapeOfLoop
<1>2. UNCHANGED request \/ Responds(hand)
  BY DEF Served, Puts, Ask, Refused, Aborts
<1>3. Lessens
  BY <1>1, <1>2, AnswersLessen
<1>4. NoRequest.command # "configurationDone"
  BY DEF NoRequest
<1>5. \A i \in Ids : request'[i].command = "configurationDone" => request[i].command = "configurationDone"
  BY <1>3, <1>4 DEF Lessens
<1>6. pc' = "begin" => InHand.command = "configurationDone" /\ configured'
  BY DEF Served, Puts, Ask, Refused, Aborts, Announcing
<1>7. InHand.command = "configurationDone" => ~configured
  BY <1>1 DEF Configures, InHand
<1>8. ASSUME configured' # configured PROVE \A i \in Ids : request'[i].command # "configurationDone"
  <2>1. request'[hand] = NoRequest
    BY <1>1, <1>8, PlacesAre DEF Responds
  <2>2. \A i \in Ids : request[i].command = "configurationDone" => i = hand
    BY <1>1, <1>8 DEF Configures, InHand
  <2>3. QED
    BY <1>4, <1>5, <2>1, <2>2
<1>9. QED
  BY <1>1, <1>5, <1>6, <1>7, <1>8 DEF Configures

\* The client is done configuring once, and so is the program begun once.
LEMMA ConfiguresKeeps ==
  ASSUME Core, Configures, Next
  PROVE  Configures'
<1>1. Requested /\ Placed /\ configured \in BOOLEAN
  BY DEF Core, Placed, ShapeOfLoop
<1>2. ASSUME NEW i \in Ids, Send(i) PROVE Configures'
  BY <1>2, SendConfigures
<1>3. CASE HangUp \/ Program \/ Finished
  <2>1. UNCHANGED <<request, configured, begun, pc>>
    BY <1>3 DEF HangUp, Program, Finish, Stop, Finished, vars, client, life, loop
  <2>2. QED
    BY <1>1, <2>1, AnswersLessen, ConfiguresStays
<1>4. CASE Read
  <2>1. UNCHANGED <<configured, begun, pc>> /\ (UNCHANGED request \/ \E i \in Ids : Responds(i))
    BY <1>4 DEF Read, ReadEnd, ReadPause, ReadDisconnect, ReadRequest, life, loop
  <2>2. QED
    BY <1>1, <2>1, AnswersLessen, ConfiguresStays
<1>5. CASE Turn \/ Take \/ SetAside \/ Tell \/ Join \/ RefuseWhatIsLeft
  <2>1. UNCHANGED <<configured, begun>> /\ (pc' = "begin" => pc = "begin")
    BY <1>1, <1>5 DEF Turn, Take, Takes, Leaves, SetAside, Tell, Join, RefuseWhatIsLeft, life, Placed, ShapeOfLoop
  <2>2. UNCHANGED request \/ RefuseWhatIsLeft
    BY <1>5 DEF Turn, Take, SetAside, Tell, Join, client
  <2>3. QED
    BY <1>1, <2>1, <2>2, AnswersLessen, ConfiguresStays
<1>6. CASE WaitForProgram \/ TakeNothing \/ LookFirst
  <2>1. UNCHANGED <<configured, begun, request>> /\ pc' # "begin"
    BY <1>6 DEF WaitForProgram, TakeNothing, LookFirst, LooksAt, Leaves, Announcing, client
  <2>2. QED
    BY <1>1, <2>1, AnswersLessen, ConfiguresStays
<1>7. CASE PlainHandle \/ ConfigurationDone \/ SetBreakpoints \/ SetSuspendPolicies
             \/ SetExceptionBreakpoints \/ SetExceptionClasses \/ WatchRecompositions
  BY <1>1, <1>7, PlainServes, SettingServes, ConfigurationDoneServes, ServedConfigures
<1>8. CASE Launch \/ Launched \/ Attach
  <2>1. hand \in Ids
    BY <1>1, <1>8 DEF Launch, Launched, Attach, Handles, Placed, Control, Serving
  <2>2. /\ UNCHANGED <<configured, begun>> /\ pc' # "begin"
        /\ UNCHANGED request \/ Responds(hand)
    BY <1>8 DEF Launch, Launched, Attach, Starts, NothingToDebug, Puts, Leaves, Plain, life
  <2>3. QED
    BY <1>1, <2>1, <2>2, AnswersLessen, ConfiguresStays
<1>9. CASE Arm
  <2>1. /\ pc = "arm" /\ ~begun /\ hand \notin Ids /\ UNCHANGED <<configured, begun>>
    BY <1>1, <1>9 DEF Arm, life, Placed, Control, Serving
  <2>2. UNCHANGED request /\ (pc' = "begin" => configured)
    BY <1>9, <2>1 DEF Arm, ArmSetting, ArmBreakpoints, Ask, Announcing, Refused, Aborts
  <2>3. QED
    BY <2>1, <2>2 DEF Configures
<1>10. CASE Begin
  <2>1. pc = "begin" /\ pc' # "begin" /\ UNCHANGED <<request, configured>>
    BY <1>10 DEF Begin
  <2>2. QED
    BY <2>1 DEF Configures
<1>11. CASE Go \/ TellAsks \/ Respond
  <2>1. UNCHANGED <<configured, begun>> /\ (UNCHANGED request \/ Responds(hand))
    BY <1>11 DEF Go, TellAsks, Respond, Announcing, Ask, Refused, Aborts, Puts, Plain, life
  <2>2. pc' # "begin"
    BY <1>1, <1>11 DEF Go, TellAsks, Respond, Announcing, Ask, Refused, Aborts, Puts, Placed, ShapeOfLoop
  <2>3. Responds(hand) /\ hand \notin Ids => UNCHANGED request
    BY <1>1, PlacesAre DEF Responds
  <2>4. QED
    BY <1>1, <2>1, <2>2, <2>3, AnswersLessen, ConfiguresStays
<1>12. QED
  BY <1>2, <1>3, <1>4, <1>5, <1>6, <1>7, <1>8, <1>9, <1>10, <1>11 DEF Next, Client, Loop, Handle, PlainHandle

\* The first stop is made with the program, and no other takes its number.
LEMMA EntryIsMainKeeps ==
  ASSUME Core, EntryIsMain, Next
  PROVE  EntryIsMain'
<1>1. Placed /\ Stopped
  BY DEF Core
<1>2. ASSUME NEW t \in Threads, Stop(t) PROVE EntryIsMain'
  <2>1. program = "live" /\ reached < MaxStops /\ owner' = [owner EXCEPT ![reached + 1] = t]
    BY <1>2 DEF Stop, Runs
  <2>2. reached >= 1 /\ reached \in 0..MaxStops
    BY <1>1, <2>1, StopsAre DEF Placed, Control
  <2>3. reached + 1 \in Stops /\ reached + 1 # 1 /\ 1 \in Stops
    BY <2>1, <2>2, AdapterAssumption DEF Stops
  <2>4. QED
    BY <2>1, <2>3 DEF EntryIsMain
<1>3. CASE Client \/ Read \/ Finish \/ Finished
  <2>1. UNCHANGED owner
    BY <1>3 DEF Client, HangUp, Send, Read, ReadEnd, ReadPause, ReadDisconnect, ReadRequest, Finish, Finished,
                vars, agent
  <2>2. QED
    BY <2>1 DEF EntryIsMain
<1>4. CASE PlainHandle \/ ConfigurationDone \/ SetBreakpoints \/ SetSuspendPolicies
             \/ SetExceptionBreakpoints \/ SetExceptionClasses \/ WatchRecompositions
  <2>1. Served
    BY <1>1, <1>4, PlainServes, SettingServes, ConfigurationDoneServes
  <2>2. QED
    BY <2>1 DEF Served, quiet, EntryIsMain
<1>5. CASE Turn \/ WaitForProgram \/ Take \/ TakeNothing \/ LookFirst \/ SetAside \/ Tell \/ TellAsks
             \/ RefuseWhatIsLeft \/ Join
  <2>1. UNCHANGED owner
    BY <1>5 DEF Turn, WaitForProgram, Take, TakeNothing, LookFirst, LooksAt, SetAside, Tell, TellAsks,
                RefuseWhatIsLeft, Join, agent
  <2>2. QED
    BY <2>1 DEF EntryIsMain
<1>6. CASE Launch \/ Launched \/ Attach \/ Arm \/ Begin \/ Go \/ Respond
  <2>1. UNCHANGED owner
    BY <1>6 DEF Launch, Launched, Attach, Starts, NothingToDebug, Arm, Begin, Go, Respond, quiet
  <2>2. QED
    BY <2>1 DEF EntryIsMain
<1>7. QED
  BY <1>2, <1>3, <1>4, <1>5, <1>6 DEF Next, Program, Loop, Handle, PlainHandle

-----------------------------------------------------------------------------
(***************************************************************************)
(* The theorems.                                                           *)
(***************************************************************************)

\* Nothing was asked, and there is no program.
LEMMA InitHolds == Init => IndInv
<1> SUFFICES ASSUME Init PROVE IndInv
  OBVIOUS
<1>1. /\ NoTwice(<<>>) /\ ToSet(<<>>) = {} /\ <<>> \in Seq(Ids \cup {"eof"}) /\ <<>> \in Seq(Ids) /\ <<>> \in Seq(Stops)
      /\ 0 \notin Ids /\ 1 \in Stops /\ Stops \subseteq Nat /\ MaxStops \in Nat \ {0}
  BY NoneOnce, AdapterAssumption DEF Stops
<1>2. NoRequest \in Asked /\ NoRequest.command = "none"
  BY DEF Asked, NoRequest
<1>3. NoBreakpoint \in [id : Nat, after : Nat] /\ NoBreakpoint.id = 0
  BY DEF NoBreakpoint
<1>4. \A i \in Ids : request[i] = NoRequest /\ answers[i] = 0
  BY DEF Init
<1>5. Requested
  <2>1. ShapeOfRequests
    BY <1>1, <1>2 DEF Init, ShapeOfRequests
  <2>2. Owed
    BY <1>1, <1>4 DEF Init, Owed
  <2>3. Named
    BY <1>2, <1>4 DEF Named, OfThread, OfReference
  <2>4. QED
    BY <2>1, <2>2, <2>3 DEF Requested
<1>6. Placed
  BY <1>1 DEF Init, Placed, ShapeOfLoop, Control, Serving, Places
<1>7. AgentHolds = {} /\ OnLine = {}
  BY <1>1 DEF Init, AgentHolds, OnLine
<1>8. Stopped
  <2>1. ShapeOfStops
    BY <1>1 DEF Init, ShapeOfStops
  <2>2. \A n \in Stops : told[n] = 0
    BY DEF Init
  <2>3. Made
    BY <1>1, <1>7, <2>2 DEF Init, Made
  <2>4. Noted
    BY <1>1, <2>2 DEF Init, Noted
  <2>5. Tellings
    BY <1>1, <1>7, <2>2 DEF Init, Tellings
  <2>6. EntryIsOurs
    BY <1>1, <1>7, <2>2 DEF Init, EntryIsOurs
  <2>7. QED
    BY <2>1, <2>3, <2>4, <2>5, <2>6 DEF Stopped
<1>9. Resolved
  BY DEF Init, Resolved
<1>10. Tabled
  <2>1. byFile = [f \in Files |-> NoBreakpoint] /\ mints = 0
    BY DEF Init
  <2>2. ShapeOfTable
    BY <1>3, <2>1 DEF ShapeOfTable
  <2>3. IdsOf(byFile) = {}
    BY <1>3, <2>1 DEF IdsOf
  <2>4. Table
    BY <2>1, <2>3 DEF Init, Table, NoneSet
  <2>5. QED
    BY <2>2, <2>4 DEF Tabled
<1>11. Configures
  BY <1>2, <1>4 DEF Init, Configures
<1>12. EntryIsMain
  BY <1>1, AdapterAssumption DEF Init, EntryIsMain
<1>13. QED
  BY <1>5, <1>6, <1>8, <1>9, <1>10, <1>11, <1>12 DEF IndInv, Core

\* A step of either thread, of the client or of the program.
LEMMA StepHolds == IndInv /\ [Next]_vars => IndInv'
<1> SUFFICES ASSUME IndInv, [Next]_vars PROVE IndInv'
  OBVIOUS
<1>1. Core /\ Configures /\ EntryIsMain
  BY DEF IndInv
<1>2. CASE UNCHANGED vars
  <2>1. UNCHANGED <<request, hand, loop, life, telling, table, agent, client, reading, queue>>
    BY <1>2 DEF vars, client, loop
  <2>2. Requested'
    BY <1>1, <2>1, RequestsStay DEF Core, client, loop, telling
  <2>3. reached \in Int
    BY <1>1, StopsAre DEF Core
  <2>4. Placed'
    BY <1>1, <2>1, <2>3, PlacedStays DEF Core, reading, loop, life, agent, telling, Placed, ShapeOfLoop
  <2>5. Stopped'
    BY <1>1, <2>1, StopsStay DEF Core, loop, life, telling, agent
  <2>6. Resolved'
    BY <1>1, <2>1, ResolvedStays DEF Core, loop, telling
  <2>7. Tabled'
    BY <1>1, <2>1, TableStays DEF Core, loop, life, table, agent
  <2>8. Configures'
    BY <1>1, <2>1, AnswersLessen, ConfiguresStays DEF Core, life, loop
  <2>9. EntryIsMain'
    BY <1>1, <2>1 DEF EntryIsMain, agent
  <2>10. QED
    BY <2>2, <2>4, <2>5, <2>6, <2>7, <2>8, <2>9 DEF IndInv, Core
<1>3. CASE Next
  <2>1. Configures' /\ EntryIsMain'
    BY <1>1, <1>3, ConfiguresKeeps, EntryIsMainKeeps
  <2>2. CASE Client
    <3>1. Core'
      BY <1>1, <2>2, SendKeeps, HangUpKeeps DEF Client
    <3>2. QED
      BY <2>1, <3>1 DEF IndInv
  <2>3. CASE Read
    BY <1>1, <2>1, <2>3, ReadKeeps DEF IndInv
  <2>4. CASE Program
    BY <1>1, <2>1, <2>4, ProgramKeeps DEF IndInv
  <2>5. CASE Handle
    <3>1. CASE Launch \/ Attach
      BY <1>1, <2>1, <3>1, LaunchKeeps, AttachKeeps DEF IndInv
    <3>2. CASE PlainHandle \/ ConfigurationDone \/ SetBreakpoints \/ SetSuspendPolicies
                 \/ SetExceptionBreakpoints \/ SetExceptionClasses \/ WatchRecompositions
      BY <1>1, <2>1, <3>2, ServedKeeps DEF IndInv
    <3>3. QED
      BY <2>5, <3>1, <3>2 DEF Handle, PlainHandle
  <2>6. CASE Turn \/ Take \/ SetAside \/ RefuseWhatIsLeft \/ Join
    BY <1>1, <2>1, <2>6, TurnKeeps, TakeKeeps, SetAsideKeeps, RefuseKeeps, JoinKeeps DEF IndInv
  <2>7. CASE WaitForProgram \/ TakeNothing \/ LookFirst
    BY <1>1, <2>1, <2>7, LookingKeeps DEF IndInv
  <2>8. CASE Launched \/ Arm \/ Go \/ TellAsks \/ Tell \/ Respond
    BY <1>1, <2>1, <2>8, LaunchedKeeps, ArmKeeps, GoKeeps, TellAsksKeeps, TellKeeps, RespondKeeps DEF IndInv
  <2>9. CASE Begin
    <3>1. ~begun
      BY <1>1, <2>9 DEF Configures, Begin
    <3>2. QED
      BY <1>1, <2>1, <2>9, <3>1, BeginKeeps DEF IndInv
  <2>10. CASE Finished
    BY <1>2, <2>10 DEF Finished
  <2>11. QED
    BY <1>3, <2>2, <2>3, <2>4, <2>5, <2>6, <2>7, <2>8, <2>9, <2>10 DEF Next, Loop
<1>4. QED
  BY <1>2, <1>3

\* The inductive invariant: a request is at one place until it has its answer, a stop is on the connection,
\* held, announced and told in that order, and the table goes to the agent whole.
THEOREM Inductive == Spec => []IndInv
<1>1. QED
  BY InitHolds, StepHolds, PTL DEF Spec

\* No request is answered twice, and when the connection ends with its client whatever the reader took off it
\* was answered: what a disconnect overtook, and what was set aside while a program was being started.
THEOREM AnswersOnce == Spec => []OneAnswer
<1>1. IndInv => OneAnswer
  <2> SUFFICES ASSUME IndInv PROVE OneAnswer
    OBVIOUS
  <2>1. Requested /\ Placed
    BY DEF IndInv, Core
  <2>2. \A i \in Ids : answers[i] <= 1
    BY <2>1, PlacesAre
  <2>3. ASSUME pc = "done", ended = "client", NEW i \in Outstanding PROVE i \in ToSet(inbox)
    <3>1. i \in Ids /\ request[i] # NoRequest
      BY DEF Outstanding
    <3>2. queue = <<>> /\ deferred = <<>>
      BY <2>1, <2>3 DEF Requested, Owed
    <3>3. hand \notin Ids
      BY <2>1, <2>3 DEF Placed, Control, Serving
    <3>4. ToSet(queue) = {} /\ ToSet(deferred) = {}
      BY <3>2, NoneOnce
    <3>5. QED
      BY <2>1, <3>1, <3>3, <3>4, PlacesAre
  <2>4. QED
    BY <2>2, <2>3 DEF OneAnswer
<1>2. QED
  BY <1>1, Inductive, PTL

\* Whatever fails, a reference that resolves is about a stop that is still held.
THEOREM ReferencesStayHeld == Spec => []ReferencesAreHeld
<1>1. IndInv => ReferencesAreHeld
  BY DEF IndInv, Core, Stopped, Noted, ReferencesAreHeld
<1>2. QED
  BY <1>1, Inductive, PTL

\* A stop is told once, and by the end of the turn; the entry stop not to a client that asked for its program
\* to run; and a reference that resolves is about a stop that is still held: of an agent that does what it never
\* refuses to.
THEOREM ClientsAreCurrent == ASSUME ~Fails PROVE Spec => []ClientIsCurrent
<1>1. IndInv => ClientIsCurrent
  <2> SUFFICES ASSUME IndInv PROVE ClientIsCurrent
    OBVIOUS
  <2>1. Placed /\ Stopped
    BY DEF IndInv, Core
  <2>2. TellsOnce
    <3>1. pc = "turn" => ToSet(untold) = {}
      BY <2>1, NoneOnce DEF Placed, Control
    <3>2. QED
      BY <2>1, <3>1 DEF TellsOnce, Stopped, Tellings, EntryIsOurs
  <2>3. ReferencesAreHeld
    BY <2>1 DEF ReferencesAreHeld, Stopped, Noted
  <2>4. QED
    BY <2>2, <2>3 DEF ClientIsCurrent
<1>2. QED
  BY <1>1, Inductive, PTL

\* What the client was told is set or will be is what the agent has when the program is let go, in either order
\* of launching and configuring, and at every turn after, of such an agent.
THEOREM AskedIsArmed == ASSUME ~Fails PROVE Spec => []ArmedIsAsked
<1>1. IndInv => ArmedIsAsked
  BY DEF IndInv, Core, Tabled, Table, ArmedIsAsked
<1>2. QED
  BY <1>1, Inductive, PTL
=============================================================================
