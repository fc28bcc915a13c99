----------------------- MODULE ReindexMonitor_proofs -----------------------
(* Proofs about ReindexMonitor, for every value of its constants. *)
EXTENDS ReindexMonitor, FiniteSetTheorems, SequenceTheorems, TLAPS

Files == Binaries \union Pair
Commands == [do : {"stop", "backup", "install", "move", "restart"},
             on : {"node"} \union Files \union Derived]

\* A stop can only be first, the start of the node is last and nothing else is.
Ordered(q) ==
  \A i \in 1..Len(q) :
    /\ q[i].do = "stop" => i = 1
    /\ q[i].do = "restart" <=> i = Len(q)
    /\ q[i].do \in {"backup", "install"} => q[i].on \in Files

\* The types of what the node shows, the monitor has seen of it, and the disk holds.
Samples ==
  [running : BOOLEAN, rpc : BOOLEAN, height : Nat, line : Nat, pow : BOOLEAN,
   mixed : BOOLEAN, database : BOOLEAN, binaries : {"unknown", "match", "mismatch"}]
TypeInv ==
  /\ height \in Nat /\ line \in Nat /\ dbLast \in BOOLEAN /\ saw \in Samples
  /\ place \in [Files -> {"original", "new", "torn"}] /\ derived \subseteq Derived

\* What stands between the cycle's sample and the commands that follow from it, as
\* long as the operator does not start the node meanwhile.
RemedyInv ==
  /\ node \in {"down", "starting", "up"}
  /\ IF pc = "remedy" THEN todo # <<>> /\ todo \in Seq(Commands) /\ Ordered(todo)
                      ELSE todo = <<>>
  /\ meddled \in BOOLEAN
  /\ pc = "remedy" /\ Head(todo).do # "stop" => node = "down" \/ meddled
  /\ pc \in {"chain", "log", "classify"} \/ (pc = "remedy" /\ Head(todo).do = "stop") =>
       (~saw.running => node = "down" \/ meddled)
  /\ pc = "classify" => (saw.pow \/ saw.mixed => "pow" \in log \/ meddled)

\* Every file still to be replaced is in a backup, or will be before.
Backed(q) ==
  \A i \in 1..Len(q) : q[i].do = "install" =>
    \/ q[i].on \in kept
    \/ \E k \in 1..(i - 1) : q[k].do = "backup" /\ q[k].on = q[i].on

\* Every directory of derived state will be moved away before the start; as long
\* as the node may still run and rebuild them, that means all of them.
Moved(q) ==
  \A d \in IF Head(q).do = "stop" THEN Derived ELSE derived :
    \E i \in 1..Len(q) : q[i].do = "move" /\ q[i].on = d

FilesInv ==
  /\ OriginalsKept
  /\ pc = "remedy" => Backed(todo) /\ (meddled \/ Moved(todo))
-----------------------------------------------------------------------------
(* The commands of a remedy *)

\* A finite set comes as a sequence with nothing left out.
LEMMA SequencedAll ==
  ASSUME NEW S, IsFiniteSet(S)
  PROVE  /\ Sequenced(S) \in Seq(S) /\ Len(Sequenced(S)) = Cardinality(S)
         /\ Cardinality(S) \in Nat
         /\ \A x \in S : \E i \in 1..Len(Sequenced(S)) : Sequenced(S)[i] = x
<1> DEFINE N == Cardinality(S)
           All(q) == \A x \in S : \E i \in 1..N : q[i] = x
<1>1. N \in Nat /\ ExistsBijection(1..N, S)
  BY FS_CardinalityType
<1>2. \E q \in [1..N -> S] : All(q)
  BY <1>1 DEF ExistsBijection, Bijection, Surjection
<1>3. Sequenced(S) \in [1..N -> S] /\ All(Sequenced(S))
  BY <1>2 DEF Sequenced
<1> HIDE DEF N
<1> QED
  BY <1>1, <1>3 DEF N

\* One stretch of a remedy: the same command on every member of a finite set.
Stretch(q, c, F) ==
  /\ q \in Seq(Commands) /\ (F = {} <=> Len(q) = 0)
  /\ \A i \in 1..Len(q) : q[i].do = c /\ q[i].on \in F
  /\ \A f \in F : \E i \in 1..Len(q) : q[i].on = f

\* The commands that do one thing to each of a set of files are a stretch of that thing.
LEMMA DoIsStretch ==
  ASSUME NEW c \in {"backup", "install", "move"}, NEW F \in SUBSET (Files \union Derived),
         IsFiniteSet(F)
  PROVE  Stretch(Sequenced(Do(c, F)), c, F)
<1> DEFINE S == Do(c, F)
           f == [x \in F |-> [do |-> c, on |-> x]]
<1>1. IsFiniteSet(S)
  <2>1. f \in Surjection(F, S)
    BY DEF Surjection, Do
  <2> QED
    BY <2>1, FS_Surjection
<1>2. S \subseteq Commands /\ \A r \in S : r.do = c /\ r.on \in F
  BY DEF Do, Commands
<1>3. ASSUME NEW x \in F PROVE \E r \in S : r.on = x
  <2>1. [do |-> c, on |-> x] \in S
    BY DEF Do
  <2> QED
    BY <2>1
<1>4. F = {} <=> S = {}
  BY DEF Do
<1>5. S = {} <=> Cardinality(S) = 0
  BY <1>1, FS_EmptySet
<1> HIDE DEF S
<1>6. /\ Sequenced(S) \in Seq(S) /\ Len(Sequenced(S)) = Cardinality(S)
      /\ \A x \in S : \E i \in 1..Len(Sequenced(S)) : Sequenced(S)[i] = x
  BY <1>1, SequencedAll
<1>7. \A i \in 1..Len(Sequenced(S)) : Sequenced(S)[i] \in S
  BY <1>6
<1>8. Sequenced(S) \in Seq(Commands)
  BY <1>2, <1>6
<1> QED
  BY <1>2, <1>3, <1>4, <1>5, <1>6, <1>7, <1>8 DEF Stretch, S

\* A pair is a finite set.
LEMMA PairFinite == ASSUME NEW x, NEW y PROVE IsFiniteSet({x, y})
<1>1. IsFiniteSet({x}) /\ IsFiniteSet({y})
  BY FS_Singleton
<1>2. IsFiniteSet({x} \union {y})
  BY <1>1, FS_Union
<1>3. {x, y} = {x} \union {y}
  OBVIOUS
<1> QED
  BY <1>2, <1>3

\* A concatenation holds its first sequence's elements, then its second's.
LEMMA ConcatAt ==
  ASSUME NEW T, NEW s \in Seq(T), NEW t \in Seq(T)
  PROVE  /\ s \o t \in Seq(T) /\ Len(s \o t) = Len(s) + Len(t)
         /\ \A i \in 1..Len(s) : (s \o t)[i] = s[i]
         /\ \A i \in 1..Len(t) : (s \o t)[i + Len(s)] = t[i]
  BY ConcatProperties

\* The five stretches of a remedy and where each of them begins.
IsRemedy(q, F) ==
  /\ q \in Seq(Commands) /\ Len(q) >= 2 /\ q[1].do = "stop" /\ Ordered(q)
  /\ \A i \in 1..Len(q) : q[i].do = "install" =>
       \E k \in 1..(i - 1) : q[k].do = "backup" /\ q[k].on = q[i].on
  /\ \A d \in Derived : \E i \in 1..Len(q) : q[i].do = "move" /\ q[i].on = d
  /\ F # {} <=> q[2].do = "backup"

\* A remedy stops first, backs up what it installs before it does, and moves all derived state.
LEMMA RemedyShape ==
  ASSUME NEW F \in {Binaries, Pair, {}}
  PROVE  IsRemedy(Remedy(F), F)
<1>parts. PICK A, B, C, D, E :
         /\ A = Command("stop") /\ E = Command("restart")
         /\ B = Sequenced(Do("backup", F)) /\ C = Sequenced(Do("install", F))
         /\ D = Sequenced(Do("move", Derived))
  OBVIOUS
<1>joins. PICK AB, ABC, Q, q : AB = A \o B /\ ABC = AB \o C /\ Q = ABC \o D /\ q = Q \o E
  OBVIOUS
<1>1. F \subseteq Files /\ IsFiniteSet(F)
  <2>1. IsFiniteSet(Binaries) /\ IsFiniteSet(Pair) /\ IsFiniteSet({})
    BY PairFinite, FS_EmptySet, Zenon DEF Binaries, Pair
  <2> QED
    BY <2>1 DEF Files
<1>2. Stretch(B, "backup", F) /\ Stretch(C, "install", F)
  BY <1>parts, <1>1, DoIsStretch
<1>3. Stretch(D, "move", Derived)
  BY <1>parts, DerivedIsFinite, DoIsStretch
<1>4. /\ A \in Seq(Commands) /\ Len(A) = 1 /\ A[1].do = "stop"
      /\ E \in Seq(Commands) /\ Len(E) = 1 /\ E[1].do = "restart"
  BY <1>parts DEF Command, Commands
<1>5. Remedy(F) = q
  BY <1>parts, <1>joins DEF Remedy
<1>lens. PICK lb \in Nat, lc \in Nat, ld \in Nat : lb = Len(B) /\ lc = Len(C) /\ ld = Len(D)
  BY <1>2, <1>3 DEF Stretch
<1>6. /\ lb = Len(B) /\ lc = Len(C) /\ ld = Len(D) /\ lb \in Nat /\ lc \in Nat /\ ld \in Nat
      /\ B \in Seq(Commands) /\ C \in Seq(Commands) /\ D \in Seq(Commands)
  BY <1>lens, <1>2, <1>3 DEF Stretch
<1>7. /\ AB \in Seq(Commands) /\ Len(AB) = 1 + lb
      /\ \A i \in 1..1 : AB[i] = A[i]
      /\ \A i \in 1..lb : AB[i + 1] = B[i]
  <2>0. A \in Seq(Commands) /\ B \in Seq(Commands) /\ AB = A \o B
    BY <1>joins, <1>4, <1>6
  <2>1. /\ AB \in Seq(Commands) /\ Len(AB) = Len(A) + Len(B)
        /\ \A i \in 1..Len(A) : AB[i] = A[i]
        /\ \A i \in 1..Len(B) : AB[i + Len(A)] = B[i]
    BY <2>0, ConcatAt
  <2> QED
    BY <2>1, <1>4, <1>6
<1>8. /\ ABC \in Seq(Commands) /\ Len(ABC) = 1 + lb + lc
      /\ \A i \in 1..(1 + lb) : ABC[i] = AB[i]
      /\ \A i \in 1..lc : ABC[i + (1 + lb)] = C[i]
  <2>0. AB \in Seq(Commands) /\ C \in Seq(Commands) /\ ABC = AB \o C
    BY <1>joins, <1>6, <1>7
  <2>1. /\ ABC \in Seq(Commands) /\ Len(ABC) = Len(AB) + Len(C)
        /\ \A i \in 1..Len(AB) : ABC[i] = AB[i]
        /\ \A i \in 1..Len(C) : ABC[i + Len(AB)] = C[i]
    BY <2>0, ConcatAt
  <2> QED
    BY <2>1, <1>6, <1>7
<1>9. /\ Q \in Seq(Commands) /\ Len(Q) = 1 + lb + lc + ld
      /\ \A i \in 1..(1 + lb + lc) : Q[i] = ABC[i]
      /\ \A i \in 1..ld : Q[i + (1 + lb + lc)] = D[i]
  <2>0. ABC \in Seq(Commands) /\ D \in Seq(Commands) /\ Q = ABC \o D
    BY <1>joins, <1>6, <1>8
  <2>1. /\ Q \in Seq(Commands) /\ Len(Q) = Len(ABC) + Len(D)
        /\ \A i \in 1..Len(ABC) : Q[i] = ABC[i]
        /\ \A i \in 1..Len(D) : Q[i + Len(ABC)] = D[i]
    BY <2>0, ConcatAt
  <2> QED
    BY <2>1, <1>6, <1>8
<1>10. /\ q \in Seq(Commands) /\ Len(q) = 1 + lb + lc + ld + 1
       /\ \A i \in 1..(1 + lb + lc + ld) : q[i] = Q[i]
       /\ \A i \in 1..1 : q[i + (1 + lb + lc + ld)] = E[i]
  <2>0. Q \in Seq(Commands) /\ E \in Seq(Commands) /\ q = Q \o E
    BY <1>joins, <1>4, <1>6, <1>9
  <2>1. /\ q \in Seq(Commands) /\ Len(q) = Len(Q) + Len(E)
        /\ \A i \in 1..Len(Q) : q[i] = Q[i]
        /\ \A i \in 1..Len(E) : q[i + Len(Q)] = E[i]
    BY <2>0, ConcatAt
  <2> QED
    BY <2>1, <1>4, <1>6, <1>9
<1>11. /\ q[1] = A[1] /\ q[2 + lb + lc + ld] = E[1] /\ Len(q) = 2 + lb + lc + ld
       /\ \A i \in 1..lb : q[i + 1] = B[i]
       /\ \A i \in 1..lc : q[i + 1 + lb] = C[i]
       /\ \A i \in 1..ld : q[i + 1 + lb + lc] = D[i]
  <2>1. ASSUME NEW i \in 1..lb PROVE q[i + 1] = B[i]
    <3>1. /\ i + 1 \in 1..(1 + lb) /\ i + 1 \in 1..(1 + lb + lc)
          /\ i + 1 \in 1..(1 + lb + lc + ld)
      BY <2>1, <1>lens
    <3>2. q[i + 1] = Q[i + 1]
      BY <3>1, <1>10
    <3>3. Q[i + 1] = ABC[i + 1]
      BY <3>1, <1>9
    <3>4. ABC[i + 1] = AB[i + 1]
      BY <3>1, <1>8
    <3>5. AB[i + 1] = B[i]
      BY <2>1, <1>7
    <3> QED
      BY <3>2, <3>3, <3>4, <3>5
  <2>2. ASSUME NEW i \in 1..lc PROVE q[i + 1 + lb] = C[i]
    <3>1. /\ i + 1 + lb = i + (1 + lb) /\ i + (1 + lb) \in 1..(1 + lb + lc)
          /\ i + (1 + lb) \in 1..(1 + lb + lc + ld)
      BY <2>2, <1>lens
    <3>2. q[i + (1 + lb)] = Q[i + (1 + lb)]
      BY <3>1, <1>10
    <3>3. Q[i + (1 + lb)] = ABC[i + (1 + lb)]
      BY <3>1, <1>9
    <3>4. ABC[i + (1 + lb)] = C[i]
      BY <2>2, <1>8
    <3> QED
      BY <3>1, <3>2, <3>3, <3>4
  <2>3. ASSUME NEW i \in 1..ld PROVE q[i + 1 + lb + lc] = D[i]
    <3>1. /\ i + 1 + lb + lc = i + (1 + lb + lc)
          /\ i + (1 + lb + lc) \in 1..(1 + lb + lc + ld)
      BY <2>3, <1>lens
    <3>2. q[i + (1 + lb + lc)] = Q[i + (1 + lb + lc)]
      BY <3>1, <1>10
    <3>3. Q[i + (1 + lb + lc)] = D[i]
      BY <2>3, <1>9
    <3> QED
      BY <3>1, <3>2, <3>3
  <2>4. q[1] = A[1]
    <3>1. /\ 1 \in 1..1 /\ 1 \in 1..(1 + lb) /\ 1 \in 1..(1 + lb + lc)
          /\ 1 \in 1..(1 + lb + lc + ld)
      BY <1>lens
    <3> QED
      BY <3>1, <1>7, <1>8, <1>9, <1>10
  <2>5. q[2 + lb + lc + ld] = E[1] /\ Len(q) = 2 + lb + lc + ld
    <3>1. 1 + (1 + lb + lc + ld) = 2 + lb + lc + ld /\ 1 \in 1..1
          /\ 1 + lb + lc + ld + 1 = 2 + lb + lc + ld
      BY <1>lens
    <3> QED
      BY <3>1, <1>10
  <2> QED
    BY <2>1, <2>2, <2>3, <2>4, <2>5
<1>len. Len(q) = 2 + lb + lc + ld
  BY <1>11
<1>12. ASSUME NEW i \in 1..Len(q)
       PROVE  \/ i = 1
              \/ i - 1 \in 1..lb
              \/ i - 1 - lb \in 1..lc
              \/ i - 1 - lb - lc \in 1..ld
              \/ i = Len(q) /\ i = 2 + lb + lc + ld
  BY <1>lens, <1>len
<1>13. ASSUME NEW i \in 1..Len(q)
       PROVE  \/ i = 1 /\ q[i].do = "stop"
              \/ i - 1 \in 1..lb /\ q[i].do = "backup" /\ q[i].on \in F
              \/ i - 1 - lb \in 1..lc /\ q[i].do = "install" /\ q[i].on \in F
              \/ i - 1 - lb - lc \in 1..ld /\ q[i].do = "move" /\ q[i].on \in Derived
              \/ i = Len(q) /\ q[i].do = "restart"
  <2>1. CASE i = 1
    BY <2>1, <1>4, <1>11
  <2>2. CASE i - 1 \in 1..lb
    <3>1. q[i] = B[i - 1]
      BY <2>2, <1>6, <1>11
    <3> QED
      BY <2>2, <3>1, <1>2, <1>6 DEF Stretch
  <2>3. CASE i - 1 - lb \in 1..lc
    <3>1. q[i] = C[i - 1 - lb]
      BY <2>3, <1>6, <1>11
    <3> QED
      BY <2>3, <3>1, <1>2, <1>6 DEF Stretch
  <2>4. CASE i - 1 - lb - lc \in 1..ld
    <3>1. q[i] = D[i - 1 - lb - lc]
      <4>1. i = (i - 1 - lb - lc) + 1 + lb + lc
        BY <1>lens
      <4> QED
        BY <4>1, <2>4, <1>11
    <3> QED
      BY <2>4, <3>1, <1>3, <1>6 DEF Stretch
  <2>5. CASE i = Len(q) /\ i = 2 + lb + lc + ld
    BY <2>5, <1>4, <1>11
  <2> QED
    BY <1>12, <2>1, <2>2, <2>3, <2>4, <2>5
<1>14. Ordered(q)
  <2>1. ASSUME NEW i \in 1..Len(q)
        PROVE  /\ q[i].do = "stop" => i = 1
               /\ q[i].do \in {"backup", "install"} => q[i].on \in Files
               /\ q[i].do = "restart" => i = Len(q)
    BY <1>1, <1>13
  <2>2. Len(q) \in 1..Len(q) /\ q[Len(q)].do = "restart"
    BY <1>4, <1>11, <1>lens, <1>len
  <2> QED
    BY <2>1, <2>2 DEF Ordered
<1>15. ASSUME NEW i \in 1..Len(q), q[i].do = "install"
       PROVE  \E k \in 1..(i - 1) : q[k].do = "backup" /\ q[k].on = q[i].on
  <2>1. i - 1 - lb \in 1..lc /\ q[i].on \in F
    BY <1>13, <1>15
  <2>2. PICK j \in 1..lb : B[j].on = q[i].on /\ B[j].do = "backup"
    BY <2>1, <1>2, <1>6 DEF Stretch
  <2>3. j + 1 \in 1..(i - 1) /\ q[j + 1] = B[j]
    BY <2>1, <2>2, <1>6, <1>11
  <2> QED
    BY <2>2, <2>3
<1>16. ASSUME NEW d \in Derived
       PROVE  \E i \in 1..Len(q) : q[i].do = "move" /\ q[i].on = d
  <2>1. PICK j \in 1..ld : D[j].on = d /\ D[j].do = "move"
    BY <1>3, <1>6 DEF Stretch
  <2>2. j + 1 + lb + lc \in 1..Len(q) /\ q[j + 1 + lb + lc] = D[j]
    BY <2>1, <1>6, <1>11
  <2> QED
    BY <2>1, <2>2
<1>17. F # {} <=> q[2].do = "backup"
  <2>1. F = {} <=> lb = 0
    BY <1>2, <1>6 DEF Stretch
  <2>2. F = {} <=> lc = 0
    BY <1>2, <1>6 DEF Stretch
  <2>3. CASE F = {}
    BY <2>1, <2>2, <2>3, <1>6, <1>10, <1>13
  <2>4. CASE F # {}
    <3>1. 1 \in 1..lb
      BY <2>1, <2>4, <1>6
    <3>2. q[2] = B[1] /\ B[1].do = "backup"
      BY <3>1, <1>2, <1>11, <1>6 DEF Stretch
    <3> QED
      BY <3>2, <2>4
  <2> QED
    BY <2>3, <2>4
<1>18. Len(q) >= 2 /\ q[1].do = "stop"
  BY <1>4, <1>6, <1>10, <1>11
<1>19. IsRemedy(q, F)
  BY <1>10, <1>14, <1>15, <1>16, <1>17, <1>18 DEF IsRemedy
<1> QED
  BY <1>5, <1>19

-----------------------------------------------------------------------------
(* The monitor between two commands *)

\* The first command of a queue that is not empty, and the queue without it.
LEMMA HeadAndTail ==
  ASSUME NEW q \in Seq(Commands), q # <<>>
  PROVE  /\ Len(q) \in Nat \ {0} /\ Head(q) = q[1] /\ q[1] \in Commands
         /\ Tail(q) \in Seq(Commands) /\ Len(Tail(q)) = Len(q) - 1
         /\ \A i \in 1..Len(Tail(q)) : i + 1 \in 1..Len(q) /\ Tail(q)[i] = q[i + 1]
         /\ Len(q) = 1 <=> Tail(q) = <<>>
<1>1. /\ Len(q) \in Nat \ {0} /\ Head(q) = q[1] /\ q[1] \in Commands
      /\ Tail(q) \in Seq(Commands) /\ Len(Tail(q)) = Len(q) - 1
      /\ \A i \in 1..Len(Tail(q)) : i + 1 \in 1..Len(q) /\ Tail(q)[i] = q[i + 1]
  OBVIOUS
<1>2. Len(Tail(q)) = 0 <=> Tail(q) = <<>>
  BY <1>1, EmptySeq
<1> QED
  BY <1>1, <1>2

\* A command hands over to the next one, or to the report after the last.
LEMMA NextCommandStep ==
  ASSUME RemedyInv, pc = "remedy", NextCommand
  PROVE  /\ todo' = Tail(todo)
         /\ IF Len(todo) = 1 THEN pc' = "goes on" /\ todo' = <<>>
            ELSE /\ pc' = "remedy" /\ todo' # <<>> /\ todo' \in Seq(Commands)
                 /\ Ordered(todo') /\ Head(todo').do # "stop"
<1>1. todo # <<>> /\ todo \in Seq(Commands) /\ Ordered(todo)
  BY DEF RemedyInv
<1>2. todo' = Tail(todo) /\ pc' = IF Len(todo) = 1 THEN "goes on" ELSE "remedy"
  BY DEF NextCommand, Goto
<1>3. CASE Len(todo) = 1
  BY <1>1, <1>2, <1>3, HeadAndTail
<1>4. CASE Len(todo) # 1
  <2>1. /\ todo' # <<>> /\ todo' \in Seq(Commands) /\ Len(todo') = Len(todo) - 1
        /\ Len(todo) \in Nat
        /\ \A i \in 1..Len(todo') : i + 1 \in 1..Len(todo) /\ todo'[i] = todo[i + 1]
    BY <1>1, <1>2, <1>4, HeadAndTail
  <2>2. ASSUME NEW i \in 1..Len(todo')
        PROVE  /\ todo'[i].do # "stop"
               /\ todo'[i].do = "restart" <=> i = Len(todo')
               /\ todo'[i].do \in {"backup", "install"} => todo'[i].on \in Files
    <3>1. i + 1 \in 1..Len(todo) /\ todo'[i] = todo[i + 1] /\ i + 1 # 1
      BY <2>1
    <3>2. i + 1 = Len(todo) <=> i = Len(todo')
      BY <2>1
    <3> QED
      BY <3>1, <3>2, <1>1 DEF Ordered
  <2>3. Head(todo') = todo'[1] /\ 1 \in 1..Len(todo')
    BY <2>1, HeadAndTail
  <2> QED
    BY <1>2, <1>4, <2>1, <2>2, <2>3 DEF Ordered
<1> QED
  BY <1>3, <1>4

\* The command at hand is the first of the list.
LEMMA AtHand ==
  ASSUME RemedyInv, NEW c, Now(c)
  PROVE  /\ pc = "remedy" /\ todo # <<>> /\ todo \in Seq(Commands) /\ Ordered(todo)
         /\ Head(todo) = todo[1] /\ Target = todo[1].on /\ todo[1].do = c
         /\ 1 \in 1..Len(todo) /\ Len(todo) \in Nat
         /\ c # "stop" => node = "down" \/ meddled
<1>1. pc = "remedy" /\ todo # <<>> /\ todo \in Seq(Commands) /\ Ordered(todo)
  BY DEF Now, RemedyInv
<1> QED
  BY <1>1, HeadAndTail DEF Now, Target, RemedyInv

\* The remedy a sample asks for installs binaries only when the sample saw a reason to.
LEMMA RemediedCases ==
  \/ Remedied \in {Remedy(Binaries), Remedy(Pair)} /\ (saw.pow \/ saw.mixed)
  \/ Remedied \in {Remedy({}), <<>>}
  BY DEF Remedied, Class

\* The sample that has seen nothing is a sample.
LEMMA NoSampleType == NoSample \in Samples
  BY DEF NoSample, Samples

\* Every step keeps the types.
LEMMA TypeStep == RemedyInv /\ TypeInv /\ [Next]_vars => TypeInv'
<1> SUFFICES ASSUME RemedyInv, TypeInv, [Next]_vars PROVE TypeInv'
  OBVIOUS
<1>1. CASE NodeStep
  <2>1. saw' = saw /\ place' = place /\ derived' \in {derived, Derived}
    BY <1>1 DEF NodeStep, NodeReady, NodeDies, NodeWorks, OperatorStarts, NodeLogs, monitor, disk
  <2>2. height' \in {height, height + 1, 0} /\ line' \in {line, line + 1}
    BY <1>1 DEF NodeStep, NodeReady, NodeDies, NodeWorks, OperatorStarts, NodeLogs, Begin, monitor
  <2>3. dbLast' \in BOOLEAN
    BY <1>1 DEF NodeStep, NodeReady, NodeDies, NodeWorks, OperatorStarts, NodeLogs, Begin,
       monitor, TypeInv
  <2> QED
    BY <2>1, <2>2, <2>3 DEF TypeInv
<1>2. CASE MonitorStarts
  BY <1>2 DEF MonitorStarts, idle, nodeVars, disk, TypeInv
<1>3. CASE SampleProcess
  BY <1>3 DEF SampleProcess, NoSample, idle, nodeVars, disk, TypeInv, Samples
<1>4. CASE SampleChain
  BY <1>4 DEF SampleChain, idle, nodeVars, disk, TypeInv, Samples
<1>5. CASE SampleLog
  <2>1. Integrity \in {"unknown", "match", "mismatch"}
    BY DEF Integrity
  <2>2. ("pow" \in log) \in BOOLEAN /\ ({"pow", "deserialize"} \subseteq log) \in BOOLEAN
        /\ (dbLast /\ (saw.running => log # {})) \in BOOLEAN
    OBVIOUS
  <2>3. saw' \in Samples
    BY <1>5, <2>1, <2>2 DEF SampleLog, ReadLog, TypeInv, Samples
  <2> QED
    BY <1>5, <2>3 DEF SampleLog, idle, nodeVars, disk, TypeInv
<1>6. CASE Classify
  BY <1>6 DEF Classify, nodeVars, disk, TypeInv, Samples
<1>7. CASE RemedyStep
  <2>1. derived' \subseteq derived /\ saw' = saw
    BY <1>7 DEF RemedyStep, Stop, Backup, Install, MoveAway, Restart, disk, quiet
  <2>2. place' \in [Files -> {"original", "new", "torn"}]
    <3>1. CASE Install
      <4>1. Target \in Files
        BY <3>1, AtHand DEF Install, Ordered
      <4> QED
        BY <3>1, <4>1 DEF Install, TypeInv
    <3>2. CASE ~Install
      BY <1>7, <3>2 DEF RemedyStep, Stop, Backup, MoveAway, Restart, disk, TypeInv
    <3> QED
      BY <3>1, <3>2
  <2>3. dbLast' = dbLast /\ height' \in {height, 0} /\ line' = line
    BY <1>7 DEF RemedyStep, Stop, Backup, Install, MoveAway, Restart, Begin, nodeVars
  <2> QED
    BY <2>1, <2>2, <2>3 DEF TypeInv
<1>8. CASE WriteState
  BY <1>8, NoSampleType DEF WriteState, nodeVars, disk, TypeInv
<1>9. CASE MonitorDies
  <2>1. place' \in [Files -> {"original", "new", "torn"}]
    <3>1. CASE UNCHANGED place
      BY <3>1 DEF TypeInv
    <3>2. CASE Now("install") /\ place' = [place EXCEPT ![Target] = "torn"]
      BY <3>2 DEF TypeInv
    <3> QED
      BY <1>9, <3>1, <3>2 DEF MonitorDies
  <2> QED
    BY <1>9, <2>1, NoSampleType DEF MonitorDies, nodeVars, TypeInv
<1>10. CASE UNCHANGED vars
  BY <1>10 DEF vars, nodeVars, disk, TypeInv
<1> QED
  BY <1>1, <1>2, <1>3, <1>4, <1>5, <1>6, <1>7, <1>8, <1>9, <1>10 DEF Next, MonitorStep

\* The remedy's invariant holds at the start.
LEMMA RemedyInvInit == Init => RemedyInv
  BY DEF Init, RemedyInv

\* One step per action: a remedy starts from a node seen down or still to be
\* stopped, and from evidence of the present run.
LEMMA RemedyInvStep ==
  ASSUME RemedyInv, TypeInv, [Next]_vars
  PROVE  RemedyInv'
<1>1. CASE NodeReady
  BY <1>1 DEF NodeReady, RemedyInv
<1>2. CASE NodeDies
  BY <1>2 DEF NodeDies, monitor, RemedyInv
<1>3. CASE NodeWorks
  BY <1>3 DEF NodeWorks, monitor, RemedyInv
<1>4. ASSUME NEW e \in Errors, NodeLogs(e) PROVE RemedyInv'
  BY <1>4 DEF NodeLogs, monitor, RemedyInv
<1>5. CASE OperatorStarts
  BY <1>5 DEF OperatorStarts, Begin, monitor, RemedyInv
<1>6. CASE MonitorStarts
  BY <1>6 DEF MonitorStarts, Goto, idle, nodeVars, RemedyInv
<1>7. CASE SampleProcess
  BY <1>7 DEF SampleProcess, Goto, idle, nodeVars, NoSample, RemedyInv
<1>8. CASE SampleChain
  <2>1. saw'.running = saw.running
    BY <1>8 DEF SampleChain, TypeInv, Samples
  <2> QED
    BY <1>8, <2>1 DEF SampleChain, Goto, idle, nodeVars, RemedyInv
<1>9. CASE SampleLog
  <2>1. saw'.running = saw.running /\ (saw'.pow \/ saw'.mixed => "pow" \in log)
    BY <1>9 DEF SampleLog, ReadLog, TypeInv, Samples
  <2> QED
    BY <1>9, <2>1 DEF SampleLog, Goto, idle, nodeVars, RemedyInv
<1>10. CASE Classify
  <2>1. todo' \in {Remedy(Binaries), Remedy(Pair), Remedy({}), <<>>}
    BY <1>10, RemediedCases DEF Classify
  <2>2. saw'.running = saw.running
    BY <1>10 DEF Classify, TypeInv, Samples
  <2>3. CASE todo' = <<>>
    <3>1. pc' \in {"goes on", "write"}
      BY <1>10, <2>3 DEF Classify, Goto
    <3> QED
      BY <1>10, <2>3, <3>1 DEF Classify, nodeVars, RemedyInv
  <2>4. CASE todo' # <<>>
    <3>1. PICK F \in {Binaries, Pair, {}} : todo' = Remedy(F)
      BY <2>1, <2>4
    <3>2. todo' \in Seq(Commands) /\ Ordered(todo') /\ todo'[1].do = "stop"
      BY <3>1, RemedyShape DEF IsRemedy
    <3>3. Head(todo').do = "stop"
      BY <3>2, <2>4, HeadAndTail
    <3>4. pc' = "remedy" /\ pc = "classify" /\ node' = node /\ meddled' = meddled
      BY <1>10, <2>4 DEF Classify, Goto, nodeVars
    <3> QED
      BY <2>2, <2>4, <3>2, <3>3, <3>4 DEF RemedyInv, Ordered
  <2> QED
    BY <2>3, <2>4
<1>11. CASE Stop
  <2>1. CASE NextCommand
    <3>1. node' = "down" \/ meddled
      <4>1. pc = "remedy" /\ Head(todo).do = "stop"
        BY <1>11 DEF Stop, Now
      <4>2. CASE saw.running
        <5>1. ~(Goto("off") /\ todo' = <<>>) \/ node' = "down" \/ ~NextCommand
          BY <2>1, <4>1, NextCommandStep DEF Goto
        <5> QED
          BY <1>11, <2>1, <4>2, <5>1 DEF Stop
      <4>3. CASE ~saw.running
        BY <1>11, <4>1, <4>3 DEF Stop, RemedyInv
      <4> QED
        BY <4>2, <4>3
    <3>2. pc = "remedy" /\ meddled' = meddled /\ node' \in {node, "down"}
      BY <1>11 DEF Stop, Now, quiet
    <3> QED
      BY <2>1, <3>1, <3>2, NextCommandStep DEF RemedyInv, Ordered
  <2>2. CASE ~NextCommand
    <3>1. pc' = "off" /\ todo' = <<>> /\ node' = node /\ meddled' = meddled
      BY <1>11, <2>2 DEF Stop, Goto, quiet
    <3> QED
      BY <3>1 DEF RemedyInv
  <2> QED
    BY <2>1, <2>2
<1>12. CASE Backup \/ Install \/ MoveAway
  <2>1. NextCommand /\ node' = node /\ (node = "down" \/ meddled) /\ meddled' = meddled /\ pc = "remedy"
    BY <1>12, AtHand DEF Backup, Install, MoveAway, nodeVars, disk, quiet
  <2> QED
    BY <2>1, NextCommandStep DEF RemedyInv, Ordered
<1>13. CASE Restart
  <2>1. NextCommand /\ pc = "remedy" /\ todo[1].do = "restart" /\ 1 \in 1..Len(todo) /\ Ordered(todo)
    BY <1>13, AtHand DEF Restart
  <2>2. Len(todo) = 1
    BY <2>1 DEF Ordered
  <2>3. pc' = "goes on" /\ todo' = <<>>
    BY <2>1, <2>2, NextCommandStep
  <2>4. node' \in {"starting", node} /\ meddled' = meddled
    BY <1>13 DEF Restart, Begin, nodeVars, quiet
  <2> QED
    BY <2>3, <2>4 DEF RemedyInv
<1>14. CASE WriteState
  BY <1>14 DEF WriteState, Goto, nodeVars, RemedyInv
<1>15. CASE MonitorDies
  BY <1>15 DEF MonitorDies, Goto, nodeVars, RemedyInv
<1>16. CASE UNCHANGED vars
  BY <1>16 DEF vars, nodeVars, RemedyInv, Ordered
<1> QED
  BY <1>1, <1>2, <1>3, <1>4, <1>5, <1>6, <1>7, <1>8, <1>9, <1>10, <1>11, <1>12, <1>13,
     <1>14, <1>15, <1>16 DEF Next, NodeStep, MonitorStep, RemedyStep

\* The invariants of the evidence hold in every reachable state.
LEMMA Invariance == Spec => [](RemedyInv /\ TypeInv)
<1>1. Init => TypeInv
  <2> SUFFICES ASSUME Init PROVE TypeInv
    OBVIOUS
  <2>1. /\ height = 0 /\ line = 0 /\ dbLast = FALSE /\ saw = NoSample /\ derived = Derived
        /\ place = [f \in Files |-> "original"]
    BY DEF Init, Files
  <2> QED
    BY <2>1, NoSampleType DEF TypeInv
<1> QED
  BY <1>1, TypeStep, RemedyInvInit, RemedyInvStep, PTL DEF Spec


\* Files are replaced and moved only while the node is down, or under one that the
\* operator started during the cycle.
LEMMA WritesStep ==
  ASSUME RemedyInv, TypeInv, [Next]_vars, place' # place \/ ~(derived \subseteq derived')
  PROVE  node = "down" \/ meddled
<1>1. CASE NodeStep
  BY <1>1 DEF NodeStep, NodeReady, NodeDies, NodeWorks, OperatorStarts, NodeLogs, monitor, disk,
     TypeInv
<1>2. CASE Install \/ MoveAway
  BY <1>2, AtHand DEF Install, MoveAway
<1>3. CASE MonitorDies
  <2>1. Now("install")
    BY <1>3 DEF MonitorDies
  <2> QED
    BY <2>1, AtHand
<1>4. CASE MonitorStarts \/ SampleProcess \/ SampleChain \/ SampleLog \/ Classify \/ WriteState
  BY <1>4 DEF MonitorStarts, SampleProcess, SampleChain, SampleLog, Classify, WriteState, idle,
     disk
<1>5. CASE Stop \/ Backup \/ Restart
  BY <1>5 DEF Stop, Backup, Restart, disk
<1>6. CASE UNCHANGED vars
  BY <1>6 DEF vars, disk
<1> QED
  BY <1>1, <1>2, <1>3, <1>4, <1>5, <1>6 DEF Next, MonitorStep, RemedyStep

\* A remedy that replaces files is decided by nothing but Classify.
LEMMA DecisionStep ==
  ASSUME RemedyInv, [Next]_vars, todo = <<>>, todo' \in {Remedy(Binaries), Remedy(Pair)}
  PROVE  "pow" \in log \/ meddled
<1>1. Len(todo') >= 2 /\ todo'[2].do = "backup" /\ Binaries # {} /\ Pair # {}
  BY RemedyShape DEF IsRemedy, Binaries, Pair
<1>2. todo' # <<>>
  BY <1>1
<1>3. pc # "remedy"
  BY DEF RemedyInv
<1>4. Classify
  <2>1. todo' # todo
    BY <1>2
  <2> QED
    BY <2>1, <1>2, <1>3 DEF Next, NodeStep, MonitorStep, RemedyStep, NodeReady, NodeDies,
       NodeWorks, NodeLogs, OperatorStarts, monitor, MonitorStarts, SampleProcess, SampleChain,
       SampleLog, idle, Stop, Backup, Install, MoveAway, Restart, Now, WriteState, MonitorDies, vars
<1>5. saw.pow \/ saw.mixed
  <2>1. todo' # Remedy({})
    BY <1>1, RemedyShape DEF IsRemedy
  <2> QED
    BY <2>1, <1>2, <1>4, RemediedCases DEF Classify
<1> QED
  BY <1>4, <1>5 DEF Classify, RemedyInv

\* The monitor never writes where a node runs, though it may be killed anywhere and
\* the node may die anywhere, but for a node that the operator started meanwhile.
THEOREM NodeIsDown == Spec => NoWriteUnderNode
<1>1. RemedyInv /\ TypeInv /\ [Next]_vars
        => [place' # place \/ ~(derived \subseteq derived') => node = "down" \/ meddled]_vars
  BY WritesStep
<1> QED
  BY Invariance, <1>1, PTL DEF Spec, NoWriteUnderNode

\* Files are replaced only for what the log of the present run shows.
THEOREM EvidenceHolds == Spec => EvidenceIsFresh
<1>1. RemedyInv /\ [Next]_vars
        => [todo = <<>> /\ todo' \in {Remedy(Binaries), Remedy(Pair)} => "pow" \in log \/ meddled]_vars
  BY DecisionStep
<1> QED
  BY Invariance, <1>1, PTL DEF Spec, EvidenceIsFresh

-----------------------------------------------------------------------------
(* The files, as long as no command fails *)

\* What is left of a remedy is still backed up first and moved away.
LEMMA TailBacked ==
  ASSUME todo \in Seq(Commands), todo # <<>>, todo' = Tail(todo), Backed(todo),
         kept \subseteq kept', todo[1].do = "backup" => todo[1].on \in kept'
  PROVE  Backed(todo)'
<1>1. \A i \in 1..Len(todo') : i + 1 \in 1..Len(todo) /\ todo'[i] = todo[i + 1]
  BY HeadAndTail
<1>2. Len(todo) \in Nat /\ Len(todo') = Len(todo) - 1
  BY HeadAndTail
<1>3. ASSUME NEW i \in 1..Len(todo'), todo'[i].do = "install"
      PROVE  \/ todo'[i].on \in kept'
             \/ \E k \in 1..(i - 1) : todo'[k].do = "backup" /\ todo'[k].on = todo'[i].on
  <2>1. i + 1 \in 1..Len(todo) /\ todo'[i] = todo[i + 1]
    BY <1>1
  <2>2. \/ todo[i + 1].on \in kept
        \/ \E k \in 1..((i + 1) - 1) : todo[k].do = "backup" /\ todo[k].on = todo[i + 1].on
    BY <2>1, <1>3 DEF Backed
  <2>3. CASE todo[i + 1].on \in kept
    BY <2>1, <2>3
  <2>4. ASSUME NEW k \in 1..((i + 1) - 1), todo[k].do = "backup", todo[k].on = todo[i + 1].on
        PROVE  \/ todo'[i].on \in kept'
               \/ \E m \in 1..(i - 1) : todo'[m].do = "backup" /\ todo'[m].on = todo'[i].on
    <3>1. CASE k = 1
      BY <3>1, <2>1, <2>4
    <3>2. CASE k # 1
      <4>1. k - 1 \in 1..(i - 1) /\ k - 1 \in 1..Len(todo') /\ (k - 1) + 1 = k
        BY <3>2, <1>2
      <4>2. todo'[k - 1] = todo[k]
        BY <4>1, <1>1
      <4> QED
        BY <4>1, <4>2, <2>1, <2>4
    <3> QED
      BY <3>1, <3>2
  <2> QED
    BY <2>2, <2>3, <2>4
<1> QED
  BY <1>3 DEF Backed

\* A command that is done leaves the rest of the remedy to move every derived file still there.
LEMMA TailMoved ==
  ASSUME todo \in Seq(Commands), todo # <<>>, todo' = Tail(todo), Moved(todo),
         derived \subseteq Derived, derived' \subseteq derived, Head(todo').do # "stop",
         todo[1].do = "move" => todo[1].on \notin derived'
  PROVE  Moved(todo)'
<1>1. \A i \in 1..Len(todo') : i + 1 \in 1..Len(todo) /\ todo'[i] = todo[i + 1]
  BY HeadAndTail
<1>2. Len(todo) \in Nat /\ Len(todo') = Len(todo) - 1
  BY HeadAndTail
<1>3. ASSUME NEW d \in derived'
      PROVE  \E i \in 1..Len(todo') : todo'[i].do = "move" /\ todo'[i].on = d
  <2>1. PICK k \in 1..Len(todo) : todo[k].do = "move" /\ todo[k].on = d
    BY DEF Moved
  <2>2. k - 1 \in 1..Len(todo') /\ (k - 1) + 1 = k
    BY <2>1, <1>2
  <2>3. todo'[k - 1] = todo[k]
    BY <2>2, <1>1
  <2> QED
    BY <2>1, <2>2, <2>3
<1> QED
  BY <1>3 DEF Moved

\* One step per action that a kept original or a remedy under way depends on.
LEMMA FilesStep ==
  ASSUME ~CommandsMayFail, RemedyInv, TypeInv, FilesInv, [Next]_vars
  PROVE  FilesInv'
<1> USE DEF Files
<1>1. CASE NodeStep
  <2>1. place' = place /\ kept' = kept /\ todo' = todo /\ pc' = pc
    BY <1>1 DEF NodeStep, NodeReady, NodeDies, NodeWorks, OperatorStarts, NodeLogs, monitor, disk
  <2>2. derived' = derived \/ node # "down"
    BY <1>1 DEF NodeStep, NodeReady, NodeDies, NodeWorks, OperatorStarts, NodeLogs, monitor, disk
  <2>4. meddled' = meddled \/ (meddled' /\ pc = "remedy") \/ pc # "remedy"
    BY <1>1 DEF NodeStep, NodeReady, NodeDies, NodeWorks, OperatorStarts, NodeLogs
  <2>3. pc = "remedy" => meddled' \/ Moved(todo)'
    BY <2>1, <2>2, <2>4 DEF RemedyInv, FilesInv, Moved
  <2> QED
    BY <2>1, <2>3 DEF FilesInv, OriginalsKept, Backed
<1>2. CASE MonitorStarts \/ SampleProcess \/ SampleChain \/ SampleLog
  BY <1>2 DEF MonitorStarts, SampleProcess, SampleChain, SampleLog, Goto, idle, disk, FilesInv,
     OriginalsKept
<1>3. CASE Classify
  <2>1. place' = place /\ kept' = kept
    BY <1>3 DEF Classify, disk
  <2>2. CASE todo' = <<>>
    BY <1>3, <2>1, <2>2 DEF Classify, Goto, FilesInv, OriginalsKept
  <2>3. CASE todo' # <<>>
    <3>1. PICK F \in {Binaries, Pair, {}} : todo' = Remedy(F)
      BY <1>3, <2>3, RemediedCases DEF Classify
    <3>2. IsRemedy(todo', F)
      BY <3>1, RemedyShape
    <3>3. Head(todo').do = "stop"
      BY <3>2, <2>3, HeadAndTail DEF IsRemedy
    <3> QED
      BY <2>1, <3>2, <3>3 DEF IsRemedy, FilesInv, OriginalsKept, Backed, Moved
  <2> QED
    BY <2>2, <2>3
<1>4. ASSUME NextCommand, pc = "remedy", kept \subseteq kept', derived' \subseteq derived,
             todo[1].do = "backup" => todo[1].on \in kept',
             todo[1].do = "move" => todo[1].on \notin derived', OriginalsKept',
             meddled' = meddled
      PROVE  FilesInv'
  <2>1. CASE Len(todo) = 1
    BY <1>4, <2>1, NextCommandStep DEF FilesInv
  <2>2. CASE Len(todo) # 1
    <3>1. todo \in Seq(Commands) /\ todo # <<>> /\ todo' = Tail(todo) /\ Head(todo').do # "stop"
      BY <1>4, <2>2, NextCommandStep DEF RemedyInv
    <3>2. Backed(todo)'
      BY <1>4, <3>1, TailBacked DEF FilesInv
    <3>3. meddled' \/ Moved(todo)'
      BY <1>4, <3>1, TailMoved DEF FilesInv, TypeInv
    <3> QED
      BY <1>4, <3>2, <3>3 DEF FilesInv
  <2> QED
    BY <2>1, <2>2
<1>5. CASE Stop
  <2>m. meddled' = meddled
    BY <1>5 DEF Stop, quiet
  <2>1. place' = place /\ kept' = kept /\ derived' = derived /\ todo[1].do = "stop" /\ pc = "remedy"
    BY <1>5, AtHand DEF Stop, disk
  <2>2. OriginalsKept'
    BY <2>1 DEF FilesInv, OriginalsKept
  <2>3. CASE NextCommand
    BY <2>1, <2>2, <2>3, <1>4, <2>m
  <2>4. CASE ~NextCommand
    BY <1>5, <2>2, <2>4 DEF Stop, Goto, FilesInv
  <2> QED
    BY <2>3, <2>4
<1>6. CASE Backup
  <2>m. meddled' = meddled
    BY <1>6 DEF Backup, quiet
  <2>1. /\ NextCommand /\ pc = "remedy" /\ todo[1].do = "backup" /\ todo[1].on = Target
        /\ Target \in Files
    BY <1>6, AtHand DEF Backup, Ordered
  <2>2. /\ place' = place /\ derived' = derived
        /\ kept' = IF place[Target] = "original" THEN kept \union {Target} ELSE kept
    BY <1>6 DEF Backup
  <2>3. Target \in kept' /\ kept \subseteq kept' /\ OriginalsKept'
    BY <2>1, <2>2 DEF FilesInv, OriginalsKept
  <2> QED
    BY <2>1, <2>2, <2>3, <1>4, <2>m
<1>7. CASE Install
  <2>m. meddled' = meddled
    BY <1>7 DEF Install, quiet
  <2>1. /\ NextCommand /\ pc = "remedy" /\ todo[1].do = "install" /\ todo[1].on = Target
        /\ 1 \in 1..Len(todo) /\ Target \in Files
    BY <1>7, AtHand DEF Install, Ordered
  <2>2. kept' = kept /\ derived' = derived /\ place' = [place EXCEPT ![Target] = "new"]
    BY <1>7 DEF Install
  <2>3. Target \in kept
    <3>1. Backed(todo)
      BY <2>1 DEF FilesInv
    <3> QED
      BY <2>1, <3>1 DEF Backed
  <2>4. OriginalsKept'
    BY <2>2, <2>3 DEF FilesInv, OriginalsKept, TypeInv
  <2> QED
    BY <2>1, <2>2, <2>4, <1>4, <2>m
<1>8. CASE MoveAway
  <2>m. meddled' = meddled
    BY <1>8 DEF MoveAway, quiet
  <2>1. /\ NextCommand /\ pc = "remedy" /\ todo[1].do = "move" /\ todo[1].on = Target
    BY <1>8, AtHand DEF MoveAway
  <2>2. place' = place /\ kept' = kept /\ derived' = derived \ {Target}
    BY <1>8 DEF MoveAway
  <2>3. OriginalsKept'
    BY <2>2 DEF FilesInv, OriginalsKept
  <2> QED
    BY <2>1, <2>2, <2>3, <1>4, <2>m
<1>9. CASE Restart
  <2>m. meddled' = meddled
    BY <1>9 DEF Restart, quiet
  <2>1. /\ NextCommand /\ pc = "remedy" /\ todo[1].do = "restart"
    BY <1>9, AtHand DEF Restart
  <2>2. place' = place /\ kept' = kept /\ derived' = derived
    BY <1>9 DEF Restart, disk
  <2>3. OriginalsKept'
    BY <2>2 DEF FilesInv, OriginalsKept
  <2> QED
    BY <2>1, <2>2, <2>3, <1>4, <2>m
<1>10. CASE WriteState
  BY <1>10 DEF WriteState, Goto, disk, FilesInv, OriginalsKept
<1>11. CASE MonitorDies
  <2>1. OriginalsKept'
    <3>1. CASE UNCHANGED place
      BY <1>11, <3>1 DEF MonitorDies, FilesInv, OriginalsKept
    <3>2. CASE Now("install") /\ place' = [place EXCEPT ![Target] = "torn"]
      <4>1. /\ pc = "remedy" /\ todo[1].do = "install" /\ todo[1].on = Target /\ 1 \in 1..Len(todo)
        BY <3>2, AtHand
      <4>2. Target \in kept
        <5>1. Backed(todo)
          BY <4>1 DEF FilesInv
        <5> QED
          BY <4>1, <5>1 DEF Backed
      <4> QED
        BY <1>11, <3>2, <4>2 DEF MonitorDies, FilesInv, OriginalsKept, TypeInv
    <3> QED
      BY <1>11, <3>1, <3>2 DEF MonitorDies
  <2> QED
    BY <1>11, <2>1 DEF MonitorDies, Goto, FilesInv
<1>12. CASE UNCHANGED vars
  BY <1>12 DEF vars, disk, FilesInv, OriginalsKept, Backed, Moved
<1> QED
  BY <1>1, <1>2, <1>3, <1>5, <1>6, <1>7, <1>8, <1>9, <1>10, <1>11, <1>12 DEF Next, MonitorStep,
     RemedyStep

\* When the commands succeed, the invariants of the files hold in every reachable state.
LEMMA FilesInvariance ==
  ASSUME ~CommandsMayFail
  PROVE  Spec => []FilesInv
<1>1. Init => FilesInv
  BY DEF Init, FilesInv, OriginalsKept, Files
<1>2. RemedyInv /\ TypeInv /\ FilesInv /\ [Next]_vars => FilesInv'
  BY FilesStep
<1> QED
  BY Invariance, <1>1, <1>2, PTL DEF Spec

\* While no command fails, every original that was replaced, or half replaced by
\* a monitor that was killed, is in a backup.
THEOREM BackupsComplete ==
  ASSUME ~CommandsMayFail
  PROVE  Spec => []OriginalsKept
<1>1. FilesInv => OriginalsKept
  BY DEF FilesInv
<1> QED
  BY FilesInvariance, <1>1, PTL

\* While no command fails, the node starts on no derived state from before, unless
\* the operator let a node rebuild it during the remedy.
THEOREM StartIsClean ==
  ASSUME ~CommandsMayFail
  PROVE  Spec => StartsClean
<1>1. ASSUME RemedyInv, TypeInv, FilesInv, [Next]_vars, Now("restart"), derived # {}, ~meddled
      PROVE  FALSE
  <2>1. pc = "remedy" /\ todo[1].do = "restart" /\ 1 \in 1..Len(todo) /\ Ordered(todo)
        /\ Head(todo) = todo[1]
    BY <1>1, AtHand
  <2>2. Len(todo) = 1
    BY <2>1 DEF Ordered
  <2>3. \E i \in 1..Len(todo) : todo[i].do = "move"
    BY <1>1, <2>1 DEF FilesInv, Moved
  <2> QED
    BY <2>1, <2>2, <2>3
<1>2. RemedyInv /\ TypeInv /\ FilesInv /\ [Next]_vars
        => [Now("restart") /\ node' = "starting" /\ node = "down" => derived = {} \/ meddled]_vars
  BY <1>1
<1> QED
  BY Invariance, FilesInvariance, <1>2, PTL DEF Spec, StartsClean
=============================================================================
