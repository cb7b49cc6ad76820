-------------------------- MODULE WriteMachineProofs --------------------------
(***************************************************************************)
(* Proofs about the machine that executes the programs of the commands     *)
(* that write without invoke_action, for any program and every answer of   *)
(* the BMC: it sends nothing but what its program contains (SendsOnly), a  *)
(* program that is fit to (GoodProgram) reports the requests that were     *)
(* refused (Remembers), and a request that waits for another one is not    *)
(* made once that was refused (Heeded), or before it succeeded (Earned).   *)
(*                                                                         *)
(* Programs contain programs, to any depth.  Instead of an induction over  *)
(* them, a property of a step is defined by a set of steps that contains   *)
(* it and is closed under going into a step (Closed, SoberSet, GoodSet):   *)
(* such a set can be taken apart (...Unfolds) and put together (...Folds). *)
(* Each action of the machine is shown to keep what these properties say   *)
(* of the steps left to do.                                                *)
(***************************************************************************)
EXTENDS WriteMachine, WellFoundedInduction, TLAPS

-----------------------------------------------------------------------------
(* Sequences of steps. *)

\* Programs are sequences; of what is of no interest.
IsSeq(p) == \E S : p \in Seq(S)

\* The length and the places of a sequence of steps.
LEMMA SeqFacts ==
    ASSUME NEW p, IsSeq(p)
    PROVE  /\ Len(p) \in Nat /\ DOMAIN p = 1 .. Len(p)
           /\ p = <<>> <=> Len(p) = 0
BY DEF IsSeq

\* The steps of two sequences, one after the other.
LEMMA ConcatFacts ==
    ASSUME NEW p, NEW q, IsSeq(p), IsSeq(q)
    PROVE  /\ IsSeq(p \o q)
           /\ Len(p \o q) = Len(p) + Len(q)
           /\ \A i \in 1 .. Len(p) : (p \o q)[i] = p[i]
           /\ \A i \in 1 .. Len(q) : (p \o q)[Len(p) + i] = q[i]
<1>1. PICK P : p \in Seq(P)
  BY DEF IsSeq
<1>2. PICK Q : q \in Seq(Q)
  BY DEF IsSeq
<1>3. p \in Seq(P \cup Q) /\ q \in Seq(P \cup Q)
  BY <1>1, <1>2
<1>4. p \o q \in Seq(P \cup Q)
  BY <1>3
<1> QED BY <1>3, <1>4 DEF IsSeq

\* The steps after the first one.
LEMMA TailFacts ==
    ASSUME NEW p, IsSeq(p), p # <<>>
    PROVE  /\ IsSeq(Tail(p)) /\ Head(p) = p[1]
           /\ Len(Tail(p)) = Len(p) - 1
           /\ \A i \in 1 .. Len(p) - 1 : Tail(p)[i] = p[i + 1]
<1>1. PICK P : p \in Seq(P)
  BY DEF IsSeq
<1> QED BY <1>1 DEF IsSeq

\* The steps from place k on, to which End cuts the program.
LEMMA RestFacts ==
    ASSUME NEW p, IsSeq(p), NEW k \in 1 .. Len(p)
    PROVE  /\ IsSeq(SubSeq(p, k, Len(p)))
           /\ Len(SubSeq(p, k, Len(p))) = Len(p) - k + 1
           /\ \A i \in 1 .. Len(p) - k + 1 : SubSeq(p, k, Len(p))[i] = p[k + i - 1]
<1>1. PICK P : p \in Seq(P)
  BY DEF IsSeq
<1>2. SubSeq(p, k, Len(p)) \in Seq(P)
  BY <1>1
<1> QED BY <1>1, <1>2 DEF IsSeq

\* The tuples from which programs are written are sequences.
LEMMA TupleFacts ==
    /\ IsSeq(<<>>)
    /\ \A a : IsSeq(<<a>>)
    /\ \A a, b : IsSeq(<<a, b>>)
    /\ \A a, b, c : IsSeq(<<a, b, c>>)
    /\ \A a, b, c, d : IsSeq(<<a, b, c, d>>)
<1>1. <<>> \in Seq({})
  OBVIOUS
<1>2. \A a : <<a>> \in Seq({a})
  OBVIOUS
<1>3. \A a, b : <<a, b>> \in Seq({a, b})
  OBVIOUS
<1>4. \A a, b, c : <<a, b, c>> \in Seq({a, b, c})
  OBVIOUS
<1>5. \A a, b, c, d : <<a, b, c, d>> \in Seq({a, b, c, d})
  OBVIOUS
<1> QED BY Zenon, <1>1, <1>2, <1>3, <1>4, <1>5 DEF IsSeq

\* Concatenation is associative.
LEMMA ConcatAssoc ==
    ASSUME NEW p, NEW q, NEW r, IsSeq(p), IsSeq(q), IsSeq(r)
    PROVE  p \o (q \o r) = (p \o q) \o r
<1>1. PICK P : p \in Seq(P)
  BY DEF IsSeq
<1>2. PICK Q : q \in Seq(Q)
  BY DEF IsSeq
<1>3. PICK R : r \in Seq(R)
  BY DEF IsSeq
<1>4. p \in Seq(P \cup Q \cup R) /\ q \in Seq(P \cup Q \cup R) /\ r \in Seq(P \cup Q \cup R)
  BY <1>1, <1>2, <1>3
<1> QED BY <1>4

\* The empty sequence is neutral.
LEMMA ConcatNone == \A p : IsSeq(p) => <<>> \o p = p /\ p \o <<>> = p
<1> SUFFICES ASSUME NEW p, IsSeq(p) PROVE <<>> \o p = p /\ p \o <<>> = p
  OBVIOUS
<1>1. PICK S : p \in Seq(S)
  BY DEF IsSeq
<1>2. <<>> \in Seq(S)
  OBVIOUS
<1> QED BY <1>1, <1>2

\* The front of a program is what is next.
LEMMA FrontFacts ==
    ASSUME NEW a, NEW k, IsSeq(a), IsSeq(k), a # <<>>
    PROVE  /\ a \o k # <<>> /\ Head(a \o k) = Head(a) /\ Tail(a \o k) = Tail(a) \o k
           /\ IsSeq(Tail(a))
<1>1. PICK A : a \in Seq(A)
  BY DEF IsSeq
<1>2. PICK K : k \in Seq(K)
  BY DEF IsSeq
<1>3. a \in Seq(A \cup K) /\ k \in Seq(A \cup K)
  BY <1>1, <1>2
<1> QED BY <1>3 DEF IsSeq

-----------------------------------------------------------------------------
(* What follows an "end" step up to the next return is never reached. *)

\* Step i is never reached: it comes after an end, and no return is in between.
Dead(p, i) == \E j \in 1 .. i - 1 : p[j].do = "end" /\ \A k \in j .. i : p[k].do # "return"

\* The steps that may be reached.
Live(p) == {p[i] : i \in {n \in DOMAIN p : ~ Dead(p, n)}}

\* A live step is one at a place that is reached.
LEMMA LiveStep ==
    ASSUME NEW p, NEW s
    PROVE  s \in Live(p) <=> \E i \in DOMAIN p : s = p[i] /\ ~ Dead(p, i)
BY DEF Live

\* The next step of a program is live.
LEMMA LiveHead ==
    ASSUME NEW p, IsSeq(p), p # <<>>
    PROVE  Head(p) \in Live(p)
<1>1. 1 \in DOMAIN p /\ Head(p) = p[1]
  BY SeqFacts, TailFacts
<1>2. ~ Dead(p, 1)
  BY DEF Dead
<1> QED BY <1>1, <1>2, LiveStep

\* What is live once the next step was taken was live before, unless that step
\* ends the command.
LEMMA LiveTail ==
    ASSUME NEW p, IsSeq(p), p # <<>>, Head(p).do # "end"
    PROVE  Live(Tail(p)) \subseteq Live(p)
<1> DEFINE q == Tail(p)
<1> SUFFICES ASSUME NEW s \in Live(q) PROVE s \in Live(p)
  OBVIOUS
<1>0. PICK i \in DOMAIN q : s = q[i] /\ ~ Dead(q, i)
  BY Zenon, LiveStep
<1>1. /\ Len(p) \in Nat /\ Len(p) # 0 /\ i \in 1 .. Len(p) - 1
      /\ q[i] = p[i + 1] /\ i + 1 \in DOMAIN p /\ Head(p) = p[1]
      /\ \A k \in 1 .. Len(p) - 1 : q[k] = p[k + 1]
  BY SeqFacts, TailFacts
<1>2. ~ Dead(p, i + 1)
  <2> SUFFICES ASSUME NEW j \in 1 .. i, p[j].do = "end",
                      \A k \in j .. i + 1 : p[k].do # "return"
               PROVE  FALSE
    BY <1>1 DEF Dead
  <2> HIDE DEF q
  <2>1. j # 1 
    BY <1>1
  <2>2. j - 1 \in 1 .. i - 1 /\ q[j - 1].do = "end"
    BY SMTT(30), <1>1, <2>1
  <2>3. ASSUME NEW k \in j - 1 .. i PROVE q[k].do # "return"
    <3>1. k \in 1 .. Len(p) - 1 /\ k + 1 \in j .. i + 1
      BY <1>1, <2>1
    <3> QED BY <1>1, <3>1
  <2>4. Dead(q, i)
    BY <2>2, <2>3 DEF Dead
  <2> QED BY <1>0, <2>4
<1> QED BY <1>0, <1>1, <1>2, LiveStep

\* What is live in two programs, one after the other, is live in one of them.
LEMMA LiveConcat ==
    ASSUME NEW p, NEW q, IsSeq(p), IsSeq(q)
    PROVE  Live(p \o q) \subseteq Live(p) \cup Live(q)
<1> DEFINE r == p \o q
<1> SUFFICES ASSUME NEW s \in Live(r) PROVE s \in Live(p) \cup Live(q)
  OBVIOUS
<1>0. PICK i \in DOMAIN r : s = r[i] /\ ~ Dead(r, i)
  BY Zenon, LiveStep
<1>1. /\ Len(p) \in Nat /\ Len(q) \in Nat /\ i \in 1 .. Len(p) + Len(q)
      /\ DOMAIN p = 1 .. Len(p) /\ DOMAIN q = 1 .. Len(q)
      /\ \A k \in 1 .. Len(p) : r[k] = p[k]
      /\ \A k \in 1 .. Len(q) : r[Len(p) + k] = q[k]
  BY SeqFacts, ConcatFacts
<1> HIDE DEF r
<1>2. CASE i <= Len(p)
  <2>1. ~ Dead(p, i)
    BY <1>0, <1>1, <1>2 DEF Dead
  <2> QED BY <1>0, <1>1, <1>2, <2>1, LiveStep
<1>3. CASE i > Len(p)
  <2> DEFINE m == i - Len(p)
  <2>1. m \in 1 .. Len(q) /\ r[i] = q[m] /\ i = Len(p) + m
    BY <1>1, <1>3
  <2> HIDE DEF m
  <2>2. ASSUME Dead(q, m) PROVE FALSE
    <3>1. PICK j \in 1 .. m - 1 : q[j].do = "end" /\ \A k \in j .. m : q[k].do # "return"
      BY <2>2 DEF Dead
    <3>2. Len(p) + j \in 1 .. i - 1 /\ r[Len(p) + j].do = "end"
      BY <1>1, <2>1, <3>1
    <3>3. ASSUME NEW k \in Len(p) + j .. i PROVE r[k].do # "return"
      <4>1. k - Len(p) \in j .. m /\ k - Len(p) \in 1 .. Len(q)
        BY <1>1, <2>1
      <4>2. r[k] = q[k - Len(p)]
        BY <1>1, <4>1
      <4> QED BY <3>1, <4>1, <4>2
    <3> QED BY <1>0, <3>2, <3>3 DEF Dead
  <2> QED BY <1>0, <1>1, <2>1, <2>2, LiveStep
<1> QED BY <1>1, <1>2, <1>3

\* A command that ends goes on at a return.
LEMMA LiveRest ==
    ASSUME NEW p, IsSeq(p), NEW k \in 1 .. Len(p), p[k].do = "return"
    PROVE  Live(SubSeq(p, k, Len(p))) \subseteq Live(p)
<1> DEFINE q == SubSeq(p, k, Len(p))
<1> SUFFICES ASSUME NEW s \in Live(q) PROVE s \in Live(p)
  OBVIOUS
<1>0. PICK i \in DOMAIN q : s = q[i] /\ ~ Dead(q, i)
  BY Zenon, LiveStep
<1>1. /\ Len(p) \in Nat /\ DOMAIN p = 1 .. Len(p) /\ DOMAIN q = 1 .. Len(p) - k + 1
      /\ \A n \in 1 .. Len(p) - k + 1 : q[n] = p[k + n - 1]
  BY SeqFacts, RestFacts
<1> HIDE DEF q
<1>2. ASSUME Dead(p, k + i - 1) PROVE FALSE
  <2>1. PICK j \in 1 .. k + i - 2 :
          p[j].do = "end" /\ \A n \in j .. k + i - 1 : p[n].do # "return"
    BY <1>0, <1>1, <1>2 DEF Dead
  <2>2. j > k
    <3>1. k \in j .. k + i - 1 \/ j > k
      BY <1>0, <1>1
    <3> QED BY <2>1, <3>1
  <2>3. j - k + 1 \in 1 .. i - 1 /\ q[j - k + 1].do = "end"
    BY <1>0, <1>1, <2>1, <2>2
  <2>4. ASSUME NEW n \in j - k + 1 .. i PROVE q[n].do # "return"
    <3>1. k + n - 1 \in j .. k + i - 1 /\ n \in 1 .. Len(p) - k + 1
      BY <1>0, <1>1, <2>2
    <3> QED BY Zenon, <1>1, <2>1, <3>1
  <2> QED BY <1>0, <2>3, <2>4 DEF Dead
<1>3. k + i - 1 \in DOMAIN p /\ s = p[k + i - 1]
  BY <1>0, <1>1
<1> QED BY <1>2, <1>3, LiveStep

\* A program as it is written, without returns; and one that ends the command.
Plain(p) == IsSeq(p) /\ \A i \in DOMAIN p : p[i].do # "return"
Halts(p) == \E i \in DOMAIN p : p[i].do = "end"

\* What comes after a program that ends the command is never reached.
LEMMA LiveUnreached ==
    ASSUME NEW p, NEW q, Plain(p), Plain(q), Halts(p)
    PROVE  Live(p \o q) \subseteq Live(p)
<1> DEFINE r == p \o q
<1> SUFFICES ASSUME NEW s \in Live(r) PROVE s \in Live(p)
  OBVIOUS
<1>0. PICK i \in DOMAIN r : s = r[i] /\ ~ Dead(r, i)
  BY Zenon, LiveStep
<1>1. /\ Len(p) \in Nat /\ Len(q) \in Nat /\ i \in 1 .. Len(p) + Len(q)
      /\ DOMAIN p = 1 .. Len(p) /\ DOMAIN q = 1 .. Len(q)
      /\ \A k \in 1 .. Len(p) : r[k] = p[k]
      /\ \A k \in 1 .. Len(q) : r[Len(p) + k] = q[k]
  BY SeqFacts, ConcatFacts DEF Plain
<1> HIDE DEF r
<1>2. ASSUME NEW k \in 1 .. Len(p) + Len(q) PROVE r[k].do # "return"
  <2>1. CASE k <= Len(p)
    BY <1>1, <2>1 DEF Plain
  <2>2. CASE k > Len(p)
    <3>1. k - Len(p) \in 1 .. Len(q) /\ r[k] = r[Len(p) + (k - Len(p))]
      BY <1>1, <2>2
    <3>2. r[k] = q[k - Len(p)]
      BY <1>1, <3>1
    <3> QED BY <1>1, <3>1, <3>2 DEF Plain
  <2> QED BY <1>1, <2>1, <2>2
<1>3. CASE i <= Len(p)
  <2>1. ~ Dead(p, i)
    BY <1>0, <1>1, <1>3 DEF Dead
  <2> QED BY <1>0, <1>1, <1>3, <2>1, LiveStep
<1>4. CASE i > Len(p)
  <2>1. PICK j \in 1 .. Len(p) : p[j].do = "end"
    BY <1>1 DEF Halts
  <2>2. j \in 1 .. i - 1 /\ r[j].do = "end"
    BY <1>1, <1>4, <2>1
  <2>3. \A k \in j .. i : r[k].do # "return"
    BY <1>1, <1>2
  <2> QED BY <1>0, <2>2, <2>3 DEF Dead
<1> QED BY <1>1, <1>3, <1>4

\* What is live in a tuple is a part of it.
LEMMA LiveTuples ==
    /\ Live(<<>>) = {}
    /\ \A a : Live(<<a>>) = {a}
    /\ \A a, b : Live(<<a, b>>) \subseteq {a, b}
    /\ \A a, b, c : Live(<<a, b, c>>) \subseteq {a, b, c}
    /\ \A a, b, c, d : Live(<<a, b, c, d>>) \subseteq {a, b, c, d}
<1>1. \A a : ~ Dead(<<a>>, 1)
  BY DEF Dead
<1>2. ASSUME NEW a PROVE Live(<<a>>) = {a}
  <2>1. DOMAIN <<a>> = {1} /\ <<a>>[1] = a
    OBVIOUS
  <2>2. \A s : s \in Live(<<a>>) <=> s = a
    BY <1>1, <2>1, LiveStep
  <2> QED BY <2>2
<1> QED BY <1>2 DEF Live

-----------------------------------------------------------------------------
(* Programs that send certain requests only. *)

\* A set of steps that send nothing but requests of T, and contain no others.
Closed(T, C) ==
    \A s \in C :
       /\ s.do = "write" => s.what \in T
       /\ s.do = "reboot" => "reboot" \in T
       /\ IsSeq(s.steps) /\ Live(s.steps) \subseteq C

\* The step sends nothing but requests of T, and contains nothing else.
Within(T, s) == \E C : Closed(T, C) /\ s \in C

\* The program sends nothing but requests of T.
Confined(T, p) == IsSeq(p) /\ \A s \in Live(p) : Within(T, s)

\* What a step sends that is confined to T, and that its own steps are.
LEMMA WithinUnfolds ==
    ASSUME NEW T, NEW s, Within(T, s)
    PROVE  /\ s.do = "write" => s.what \in T
           /\ s.do = "reboot" => "reboot" \in T
           /\ Confined(T, s.steps)
<1>1. PICK C : Closed(T, C) /\ s \in C
  BY DEF Within
<1> QED BY <1>1 DEF Closed, Within, Confined

\* A step is confined to T if its request and its own steps are.
LEMMA WithinFolds ==
    ASSUME NEW T, NEW s, Confined(T, s.steps),
           s.do = "write" => s.what \in T,
           s.do = "reboot" => "reboot" \in T
    PROVE  Within(T, s)
<1> DEFINE Own(t) == CHOOSE C : Closed(T, C) /\ t \in C
           All == {s} \cup UNION {Own(t) : t \in Live(s.steps)}
<1>1. ASSUME NEW t \in Live(s.steps) PROVE Closed(T, Own(t)) /\ t \in Own(t)
  BY DEF Confined, Within
<1>2. Live(s.steps) \subseteq All
  BY <1>1
<1>3. \A t \in Live(s.steps) : Own(t) \subseteq All
  BY Zenon
<1>4. ASSUME NEW u \in All
      PROVE  /\ u.do = "write" => u.what \in T
             /\ u.do = "reboot" => "reboot" \in T
             /\ IsSeq(u.steps) /\ Live(u.steps) \subseteq All
  <2>1. CASE u = s
    BY <1>2, <2>1 DEF Confined
  <2>2. CASE u # s
    <3>1. PICK t \in Live(s.steps) : u \in Own(t)
      BY <2>2
    <3>2. Closed(T, Own(t)) /\ Own(t) \subseteq All
      BY <1>1, <1>3
    <3> HIDE DEF Own, All
    <3> QED BY <3>1, <3>2 DEF Closed
  <2> QED BY <2>1, <2>2
<1>5. Closed(T, All) /\ s \in All
  <2> HIDE DEF Own
  <2> QED BY <1>4 DEF Closed
<1> QED BY <1>5 DEF Within

\* Confined programs, put together.
LEMMA ConfinedParts ==
    ASSUME NEW T
    PROVE  /\ Confined(T, <<>>)
           /\ \A a : Within(T, a) => Confined(T, <<a>>)
           /\ \A a, b : Within(T, a) /\ Within(T, b) => Confined(T, <<a, b>>)
           /\ \A a, b, c : Within(T, a) /\ Within(T, b) /\ Within(T, c) =>
                 Confined(T, <<a, b, c>>)
           /\ \A a, b, c, d : Within(T, a) /\ Within(T, b) /\ Within(T, c) /\ Within(T, d) =>
                 Confined(T, <<a, b, c, d>>)
           /\ \A p, q : Confined(T, p) /\ Confined(T, q) => Confined(T, p \o q)
           /\ \A p, q : Confined(T, p) /\ Plain(p) /\ Halts(p) /\ Plain(q) =>
                 Confined(T, p \o q)
<1>1. Confined(T, <<>>)
  BY TupleFacts, LiveTuples DEF Confined
<1>2. \A a : Within(T, a) => Confined(T, <<a>>)
  BY Zenon, TupleFacts, LiveTuples DEF Confined
<1>3. \A a, b : Within(T, a) /\ Within(T, b) => Confined(T, <<a, b>>)
  BY TupleFacts, LiveTuples DEF Confined
<1>4. \A a, b, c : Within(T, a) /\ Within(T, b) /\ Within(T, c) => Confined(T, <<a, b, c>>)
  BY TupleFacts, LiveTuples DEF Confined
<1>5. \A a, b, c, d : Within(T, a) /\ Within(T, b) /\ Within(T, c) /\ Within(T, d) =>
         Confined(T, <<a, b, c, d>>)
  BY TupleFacts, LiveTuples DEF Confined
<1>6. ASSUME NEW p, NEW q, Confined(T, p), Confined(T, q) PROVE Confined(T, p \o q)
  BY <1>6, ConcatFacts, LiveConcat DEF Confined
<1>7. ASSUME NEW p, NEW q, Confined(T, p), Plain(p), Halts(p), Plain(q)
      PROVE  Confined(T, p \o q)
  BY <1>7, ConcatFacts, LiveUnreached DEF Confined, Plain
<1> QED BY <1>1, <1>2, <1>3, <1>4, <1>5, <1>6, <1>7

\* Confined steps: those that send nothing, and those that contain others.
LEMMA WithinSteps ==
    ASSUME NEW T
    PROVE  /\ \A endings : Within(T, Might(endings))
           /\ \A ending : Confined(T, Ends(ending))
           /\ Within(T, ReturnIfError)
           /\ Within(T, FetchTask)
           /\ \A what \in T : \A by, heed : Within(T, Request(what, by, heed))
           /\ \A replies, steps : Confined(T, steps) => Within(T, After(replies, steps))
           /\ \A steps : Confined(T, steps) => Within(T, Maybe(steps))
           /\ \A steps, heed : Confined(T, steps) => Within(T, Run(steps, heed))
           /\ \A m, steps : Confined(T, steps) => Within(T, By(m, steps))
           /\ "reboot" \in T => \A heed : Within(T, Reboot(heed))
<1>0. ASSUME NEW do, NEW what, NEW when, NEW steps, NEW heed, Confined(T, steps),
             do = "write" => what \in T, do = "reboot" => "reboot" \in T
      PROVE  Within(T, Step(do, what, when, steps, heed))
  <2> DEFINE s == Step(do, what, when, steps, heed)
  <2>1. s.do = do /\ s.what = what /\ s.steps = steps
    BY DEF Step
  <2> HIDE DEF s
  <2>2. Within(T, s)
    BY <1>0, <2>1, WithinFolds
  <2> QED BY <2>2 DEF s
<1>1. Confined(T, <<>>) /\ \A a : Within(T, a) => Confined(T, <<a>>)
  BY Zenon, ConfinedParts
<1>2. \A endings : Within(T, Might(endings))
  BY <1>0, <1>1 DEF Might
<1>3. \A ending : Confined(T, Ends(ending))
  BY <1>0, <1>1 DEF Ends
<1>4. Within(T, ReturnIfError)
  BY <1>0, <1>1 DEF ReturnIfError
<1>5. Within(T, FetchTask)
  BY <1>0, <1>1 DEF FetchTask
<1>6. \A what \in T : \A by, heed : Within(T, Request(what, by, heed))
  BY <1>0, <1>1 DEF Request
<1>7. \A replies, steps : Confined(T, steps) => Within(T, After(replies, steps))
  BY <1>0 DEF After
<1>8. \A steps : Confined(T, steps) => Within(T, Maybe(steps))
  BY <1>0 DEF Maybe
<1>9. \A steps, heed : Confined(T, steps) => Within(T, Run(steps, heed))
  BY <1>0 DEF Run
<1>10. \A m, steps : Confined(T, steps) => Within(T, By(m, steps))
  BY <1>0 DEF By
<1>11. "reboot" \in T => \A heed : Within(T, Reboot(heed))
  BY <1>0, <1>1 DEF Reboot
<1> QED BY <1>2, <1>3, <1>4, <1>5, <1>6, <1>7, <1>8, <1>9, <1>10, <1>11

\* reboot() of either manager sends nothing but the restart.
LEMMA ConfinedReboot ==
    ASSUME NEW T, "reboot" \in T, NEW m
    PROVE  Confined(T, reboot(m))
BY Zenon, ConfinedParts, WithinSteps
   DEF reboot, IDracManager_reboot, RedfishManager_reboot, Write

-----------------------------------------------------------------------------
(* Programs as they are written. *)

\* Programs, put together, and the steps they are made of, which are no returns.
LEMMA PlainParts ==
    /\ Plain(<<>>)
    /\ \A a : a.do # "return" => Plain(<<a>>)
    /\ \A a, b : a.do # "return" /\ b.do # "return" => Plain(<<a, b>>)
    /\ \A a, b, c : a.do # "return" /\ b.do # "return" /\ c.do # "return" =>
          Plain(<<a, b, c>>)
    /\ \A a, b, c, d : a.do # "return" /\ b.do # "return" /\ c.do # "return"
                       /\ d.do # "return" => Plain(<<a, b, c, d>>)
    /\ \A p, q : Plain(p) /\ Plain(q) => Plain(p \o q)
    /\ \A p, q : Plain(p) /\ Plain(q) /\ (Halts(p) \/ Halts(q)) => Halts(p \o q)
<1>1. \A a : a.do # "return" => Plain(<<a>>)
  BY TupleFacts DEF Plain
<1>2. \A a, b : a.do # "return" /\ b.do # "return" => Plain(<<a, b>>)
  BY TupleFacts DEF Plain
<1>3. \A a, b, c : a.do # "return" /\ b.do # "return" /\ c.do # "return" =>
         Plain(<<a, b, c>>)
  BY TupleFacts DEF Plain
<1>4. \A a, b, c, d : a.do # "return" /\ b.do # "return" /\ c.do # "return"
                      /\ d.do # "return" => Plain(<<a, b, c, d>>)
  BY TupleFacts DEF Plain
<1>5. ASSUME NEW p, NEW q, Plain(p), Plain(q)
      PROVE  Plain(p \o q) /\ (Halts(p) \/ Halts(q) => Halts(p \o q))
  <2> DEFINE r == p \o q
  <2>1. /\ Len(p) \in Nat /\ Len(q) \in Nat /\ Len(r) = Len(p) + Len(q)
        /\ DOMAIN p = 1 .. Len(p) /\ DOMAIN q = 1 .. Len(q) /\ DOMAIN r = 1 .. Len(r)
        /\ \A k \in 1 .. Len(p) : r[k] = p[k]
        /\ \A k \in 1 .. Len(q) : r[Len(p) + k] = q[k]
        /\ IsSeq(r)
    BY <1>5, SeqFacts, ConcatFacts DEF Plain
  <2> HIDE DEF r
  <2>2. ASSUME NEW k \in DOMAIN r PROVE r[k].do # "return"
    <3>1. CASE k <= Len(p)
      BY <1>5, <2>1, <3>1 DEF Plain
    <3>2. CASE k > Len(p)
      <4>1. k - Len(p) \in 1 .. Len(q) /\ r[k] = r[Len(p) + (k - Len(p))]
        BY <2>1, <3>2
      <4>2. r[k] = q[k - Len(p)]
        BY <2>1, <4>1
      <4> QED BY <1>5, <2>1, <4>1, <4>2 DEF Plain
    <3> QED BY <2>1, <3>1, <3>2
  <2>3. ASSUME Halts(p) PROVE Halts(r)
    <3>1. PICK k \in 1 .. Len(p) : p[k].do = "end"
      BY <2>1, <2>3 DEF Halts
    <3>2. k \in DOMAIN r /\ r[k].do = "end"
      BY <2>1, <3>1
    <3> QED BY <3>2 DEF Halts
  <2>4. ASSUME Halts(q) PROVE Halts(r)
    <3>1. PICK k \in 1 .. Len(q) : q[k].do = "end"
      BY <2>1, <2>4 DEF Halts
    <3>2. Len(p) + k \in DOMAIN r /\ r[Len(p) + k].do = "end"
      BY <2>1, <3>1
    <3> QED BY <3>2 DEF Halts
  <2>5. Plain(r)
    BY <2>1, <2>2 DEF Plain
  <2> QED BY <2>3, <2>4, <2>5 DEF r
<1>6. Plain(<<>>)
  BY TupleFacts DEF Plain
<1> QED BY <1>1, <1>2, <1>3, <1>4, <1>5, <1>6

\* The steps from which programs are written are no returns; Ends stops a program.
LEMMA PlainSteps ==
    /\ \A endings : Might(endings).do # "return"
    /\ \A ending : Plain(Ends(ending)) /\ Halts(Ends(ending))
    /\ ReturnIfError.do # "return"
    /\ FetchTask.do # "return"
    /\ \A what, by, heed : Request(what, by, heed).do # "return"
    /\ \A what : Write(what).do # "return" /\ WriteUnheeded(what).do # "return"
    /\ \A what : Plain(WriteAndWatch(what))
    /\ \A replies, steps : After(replies, steps).do # "return"
    /\ \A steps : Maybe(steps).do # "return"
    /\ \A steps, heed : Run(steps, heed).do # "return"
    /\ \A m, steps : By(m, steps).do # "return"
    /\ \A heed : Reboot(heed).do # "return"
<1> USE DEF Step
<1>1. \A endings : Might(endings).do # "return"
  BY DEF Might
<1>2. ASSUME NEW ending PROVE Plain(Ends(ending)) /\ Halts(Ends(ending))
  <2> DEFINE s == Step("end", Nothing, {ending}, <<>>, Nothing)
  <2>1. s.do = "end" /\ Ends(ending) = <<s>>
    BY DEF Ends
  <2> HIDE DEF s
  <2>2. Halts(<<s>>)
    BY <2>1 DEF Halts
  <2> QED BY <2>1, <2>2, PlainParts
<1>3. ReturnIfError.do # "return" /\ FetchTask.do # "return"
  BY DEF ReturnIfError, FetchTask
<1>4. \A what, by, heed : Request(what, by, heed).do # "return"
  BY DEF Request
<1>5. \A what : Write(what).do # "return" /\ WriteUnheeded(what).do # "return"
  BY <1>4 DEF Write, WriteUnheeded
<1>6. \A what : Plain(WriteAndWatch(what))
  BY <1>3, <1>5, PlainParts DEF WriteAndWatch
<1>7. \A replies, steps : After(replies, steps).do # "return"
  BY DEF After
<1>8. \A steps : Maybe(steps).do # "return"
  BY DEF Maybe
<1>9. \A steps, heed : Run(steps, heed).do # "return"
  BY DEF Run
<1>10. \A m, steps : By(m, steps).do # "return"
  BY DEF By
<1>11. \A heed : Reboot(heed).do # "return"
  BY SMTT(30) DEF Reboot
<1> QED BY <1>1, <1>2, <1>3, <1>4, <1>5, <1>6, <1>7, <1>8, <1>9, <1>10, <1>11

-----------------------------------------------------------------------------
(* The machine sends nothing but what its program contains. *)

\* What was sent and what is left to send are requests of T.
SendsOnly(T) == Sent \subseteq T /\ Confined(T, todo)

\* A set of places has a first one.
LEMMA LeastElement ==
    ASSUME NEW S, S \subseteq Nat, S # {}
    PROVE  \E i \in S : \A j \in S : i <= j
<1> DEFINE R == OpToRel(<, Nat)
<1>1. IsWellFoundedOn(R, Nat)
  BY Zenon, NatLessThanWellFounded
<1>2. \A i, j \in Nat : <<i, j>> \in R <=> i < j
  BY DEF OpToRel
<1> HIDE DEF R
<1>3. PICK i \in S : \A j \in S : ~ (<<j, i>> \in R)
  BY Zenon, <1>1, WFMin
<1>4. ASSUME NEW j \in S PROVE i <= j
  <2>1. i \in Nat /\ j \in Nat
    OBVIOUS
  <2>2. ~ (j < i)
    BY Zenon, <1>2, <1>3, <2>1
  <2> QED BY <2>1, <2>2
<1> QED BY <1>4

\* The end of a command drops all that is left, or cuts the program to the
\* return of a call that is in its front.
LEMMA EndInFront ==
    ASSUME NEW a, NEW k, IsSeq(a), Plain(k), todo = a \o k, NEW ending, End(ending)
    PROVE  \/ todo' = <<>>
           \/ \E i \in 1 .. Len(a) : a[i].do = "return" /\ todo' = SubSeq(a, i, Len(a)) \o k
<1>f. PICK frames \in Landings(ending) :
         /\ frames # {} => todo' = SubSeq(todo, Innermost(frames), Len(todo))
         /\ frames = {} => todo' = <<>>
  BY Zenon DEF End
<1> DEFINE i == Innermost(frames)
<1>0. /\ IsSeq(k) /\ \A n \in DOMAIN k : k[n].do # "return"
  BY DEF Plain
<1>1. /\ Len(a) \in Nat /\ DOMAIN a = 1 .. Len(a)
      /\ Len(k) \in Nat /\ DOMAIN k = 1 .. Len(k)
      /\ IsSeq(todo) /\ Len(todo) = Len(a) + Len(k) /\ DOMAIN todo = 1 .. Len(a) + Len(k)
      /\ \A n \in 1 .. Len(a) : todo[n] = a[n]
      /\ \A n \in 1 .. Len(k) : todo[Len(a) + n] = k[n]
  BY <1>0, SeqFacts, ConcatFacts
<1>2. CASE frames = {}
  BY Zenon, <1>f, <1>2
<1>3. CASE frames # {}
  <2>1. todo' = SubSeq(todo, i, Len(todo))
    BY Zenon, <1>f, <1>3
  <2>2. frames \subseteq 1 .. Len(a) + Len(k) /\ \A n \in frames : todo[n].do = "return"
    BY <1>1, <1>f DEF Landings, Frames
  <2>3. i \in frames
    <3>0. frames \subseteq Nat
      BY <1>1, <2>2
    <3>1. \E n \in frames : \A j \in frames : n <= j
      BY Zenon, <1>3, <3>0, LeastElement
    <3> QED BY <3>1 DEF Innermost
  <2> HIDE DEF i
  <2>4. i \in 1 .. Len(a)
    <3>1. i \in 1 .. Len(a) + Len(k) /\ todo[i].do = "return"
      BY <2>2, <2>3
    <3>2. ASSUME i > Len(a) PROVE FALSE
      <4>1. i - Len(a) \in 1 .. Len(k) /\ i = Len(a) + (i - Len(a))
        BY <1>1, <3>1, <3>2
      <4> QED BY <1>0, <1>1, <3>1, <4>1
    <3> QED BY <1>1, <3>1, <3>2
  <2>5. SubSeq(a \o k, i, Len(a) + Len(k)) = SubSeq(a, i, Len(a)) \o k
    <3>1. PICK A : a \in Seq(A)
      BY DEF IsSeq
    <3>2. PICK K : k \in Seq(K)
      BY <1>0 DEF IsSeq
    <3>3. a \in Seq(A \cup K) /\ k \in Seq(A \cup K)
      BY <3>1, <3>2
    <3> QED BY <1>1, <2>4, <3>3
  <2> QED BY Zenon, <1>1, <2>1, <2>2, <2>3, <2>4, <2>5
<1> QED BY Zenon, <1>2, <1>3

\* A step taken in a confined front leaves what is behind it as it is, or drops
\* everything: neither a branch, nor a called command, nor the way back from
\* one reaches further.
LEMMA FrontStep ==
    ASSUME NEW T, NEW a, NEW k, Confined(T, a), a # <<>>, Plain(k), todo = a \o k, DirectNext
    PROVE  /\ taken' \subseteq taken \cup T /\ refused' \subseteq refused \cup T
           /\ todo' = <<>> \/ \E b : Confined(T, b) /\ todo' = b \o k
<1> DEFINE Only == taken' \subseteq taken \cup T /\ refused' \subseteq refused \cup T
           Kept == todo' = <<>> \/ \E b : Confined(T, b) /\ todo' = b \o k
<1>0. /\ IsSeq(a) /\ IsSeq(k) /\ todo # <<>> /\ Head(todo) = Head(a)
      /\ Tail(todo) = Tail(a) \o k /\ IsSeq(Tail(a))
  BY FrontFacts DEF Confined, Plain
<1>h. Within(T, Head(todo))
  BY <1>0, LiveHead DEF Confined
<1>n. Confined(T, <<>>) /\ IsSeq(<<>>)
  BY ConfinedParts, TupleFacts
<1>u. ASSUME UNCHANGED <<taken, refused>> PROVE Only
  BY <1>u
<1>e. ASSUME NEW ending, End(ending) PROVE Kept
  <2>1. CASE todo' = <<>>
    BY <2>1
  <2>2. ASSUME NEW i \in 1 .. Len(a), a[i].do = "return", todo' = SubSeq(a, i, Len(a)) \o k
        PROVE  Kept
    <3>1. Confined(T, SubSeq(a, i, Len(a)))
      BY <1>0, <2>2, RestFacts, LiveRest DEF Confined
    <3> QED BY Zenon, <2>2, <3>1
  <2> QED BY Zenon, <1>0, <1>e, <2>1, <2>2, EndInFront
<1>t. ASSUME Head(todo).do # "end" PROVE Confined(T, Tail(a))
  BY <1>0, <1>t, TailFacts, LiveTail DEF Confined
<1>g. ASSUME NEW steps, Confined(T, steps), Head(todo).do # "end", GoOn(steps)
      PROVE  Kept
  <2>1. todo' = steps \o (Tail(a) \o k) /\ IsSeq(steps)
    BY <1>0, <1>g DEF GoOn, Confined
  <2>2. steps \o (Tail(a) \o k) = (steps \o Tail(a)) \o k
    <3> DEFINE t == Tail(a)
    <3>1. IsSeq(t) /\ IsSeq(k) /\ IsSeq(steps)
      BY <1>0, <2>1
    <3> HIDE DEF t
    <3>2. steps \o (t \o k) = (steps \o t) \o k
      BY <3>1, ConcatAssoc
    <3> QED BY <3>2 DEF t
  <2>3. Confined(T, steps \o Tail(a))
    BY Zenon, <1>g, <1>t, ConfinedParts
  <2> QED BY Zenon, <2>1, <2>2, <2>3
<1> HIDE DEF Kept, Only
<1> SUFFICES Only /\ Kept
  BY DEF Kept, Only
<1>1. CASE StopEarly \/ Return
  BY Zenon, <1>1, <1>e, <1>u DEF StopEarly, Return
<1>2. CASE PassCheck
  BY <1>2, <1>n, <1>g, <1>u DEF PassCheck, At
<1>3. CASE HandOnError
  BY <1>3, <1>n, <1>g, <1>e, <1>u DEF HandOnError, At
<1>4. CASE Send
  <2>1. Head(todo).do = "write"
    BY <1>4 DEF Send, At
  <2>2. Head(todo).what \in T
    BY <1>h, <2>1, WithinUnfolds
  <2>3. Only
    BY <1>4, <2>2 DEF Send, Only
  <2>4. End("raised") \/ todo' = Tail(a) \o k
    BY Zenon, <1>0, <1>4 DEF Send
  <2>5. Kept
    BY Zenon, <1>e, <1>t, <2>1, <2>4 DEF Kept
  <2> QED BY <2>3, <2>5 DEF Kept
<1>5. CASE FollowTask
  BY <1>5, <1>n, <1>g, <1>e, <1>u DEF FollowTask, At
<1>6. CASE Branch \/ TakeOrSkip
  <2>1. Head(todo).do # "end" /\ UNCHANGED <<taken, refused>>
    BY <1>6 DEF Branch, TakeOrSkip, At
  <2>2. Confined(T, Head(todo).steps)
    BY <1>h, WithinUnfolds
  <2>3. GoOn(Head(todo).steps) \/ GoOn(<<>>)
    BY <1>6 DEF Branch, TakeOrSkip
  <2> QED BY <1>n, <1>g, <1>u, <2>1, <2>2, <2>3
<1>7. CASE EnterCall
  <2> DEFINE step == Head(todo)
             steps == IF step.do = "call" THEN step.steps ELSE reboot(manager)
             back == [Step("return", Nothing, {}, <<>>, step.heed) EXCEPT !.fault = fault]
             c == steps \o <<back>>
  <2>1. step.do \in {"call", "reboot"} /\ step.do # "end" /\ UNCHANGED <<taken, refused>>
    BY Zenon, <1>7 DEF EnterCall, At
  <2>2. Confined(T, steps)
    BY <1>h, <2>1, WithinUnfolds, ConfinedReboot
  <2>3. back.do = "return" /\ back.steps = <<>>
    BY DEF Step
  <2>4. Within(T, back)
    <3> HIDE DEF back
    <3> QED BY SMTT(30), <1>n, <2>3, WithinFolds
  <2>5. todo' = c \o (Tail(a) \o k)
    BY Zenon, <1>0, <1>7 DEF EnterCall
  <2> HIDE DEF steps, back
  <2>6. Confined(T, c) /\ Confined(T, Tail(a))
    BY Zenon, <1>t, <2>1, <2>2, <2>4, ConfinedParts
  <2> HIDE DEF c
  <2>7. c \o (Tail(a) \o k) = (c \o Tail(a)) \o k
    <3> DEFINE t == Tail(a)
    <3>1. IsSeq(t) /\ IsSeq(k) /\ IsSeq(c)
      BY <1>0, <2>6 DEF Confined
    <3> HIDE DEF t
    <3>2. c \o (t \o k) = (c \o t) \o k
      BY <3>1, ConcatAssoc
    <3> QED BY <3>2 DEF t
  <2>8. Confined(T, c \o Tail(a))
    BY Zenon, <2>6, ConfinedParts
  <2> QED BY Zenon, <1>u, <2>1, <2>5, <2>7, <2>8 DEF Kept
<1>8. CASE LeaveCall
  <2>1. Head(todo).do # "end" /\ todo' = Tail(a) \o k /\ UNCHANGED <<taken, refused>>
    BY <1>0, <1>8 DEF LeaveCall, At
  <2> QED BY Zenon, <1>t, <1>u, <2>1 DEF Kept
<1>9. ~ LeaveCommand
  BY <1>0 DEF LeaveCommand
<1> QED BY <1>1, <1>2, <1>3, <1>4, <1>5, <1>6, <1>7, <1>8, <1>9 DEF DirectNext

\* Without a call in progress, the end of a command drops all that is left.
LEMMA EndPlain ==
    ASSUME NEW ending, Plain(todo), End(ending)
    PROVE  todo' = <<>>
<1>1. PICK k : k = todo
  OBVIOUS
<1>2. Plain(k) /\ todo = <<>> \o k /\ IsSeq(<<>>) /\ Len(<<>>) = 0
  BY <1>1, ConcatNone, TupleFacts DEF Plain
<1>3. \/ todo' = <<>>
      \/ \E i \in 1 .. Len(<<>>) : <<>>[i].do = "return" /\ todo' = SubSeq(<<>>, i, Len(<<>>)) \o k
  BY Zenon, <1>2, EndInFront
<1> QED BY <1>2, <1>3

\* No step of the machine sends a request outside of T if the program is
\* confined to it, and it stays so.
LEMMA ConfinedStays ==
    ASSUME NEW T, Confined(T, todo), DirectNext
    PROVE  /\ taken' \subseteq taken \cup T /\ refused' \subseteq refused \cup T
           /\ Confined(T, todo')
<1>0. PICK p : p = todo
  OBVIOUS
<1>1. CASE p = <<>>
  <2>1. LeaveCommand
    BY <1>0, <1>1
       DEF DirectNext, StopEarly, PassCheck, Return, HandOnError, Send, FollowTask,
       Branch, TakeOrSkip, EnterCall, LeaveCall, At
  <2>2. UNCHANGED <<taken, refused>> /\ End("ended")
    BY <2>1 DEF LeaveCommand
  <2>3. todo' = <<>>
    BY <1>0, <1>1, <2>2, PlainParts, EndPlain
  <2> QED BY <2>2, <2>3, ConfinedParts
<1>2. CASE p # <<>>
  <2>1. IsSeq(p) /\ p = p \o <<>> /\ Plain(<<>>)
    BY <1>0, ConcatNone, PlainParts DEF Confined
  <2>2. /\ taken' \subseteq taken \cup T /\ refused' \subseteq refused \cup T
        /\ todo' = <<>> \/ \E b : Confined(T, b) /\ todo' = b \o <<>>
    BY Zenon, <1>0, <1>2, <2>1, FrontStep
  <2>3. Confined(T, todo')
    BY Zenon, <2>2, ConfinedParts, ConcatNone DEF Confined
  <2> QED BY <2>2, <2>3
<1> QED BY <1>1, <1>2

\* So what was sent and what is left to send stay requests of T.
LEMMA NextSendsOnly ==
    ASSUME NEW T, SendsOnly(T), DirectNext
    PROVE  SendsOnly(T)'
BY ConfinedStays DEF SendsOnly, Sent

-----------------------------------------------------------------------------
(* Refusals. *)

\* The steps of a program, reached or not.
StepsOf(p) == {p[i] : i \in DOMAIN p}

\* Steps that never end their command without an error before its last step:
\* not as "shown" and not as "preview".
SoberSet(S) ==
    \A s \in S :
       /\ s.do \in {"might", "end"} => s.when \subseteq {"raised", "failed", "ended"}
       /\ s.do \in {"after", "by", "maybe"} => IsSeq(s.steps) /\ StepsOf(s.steps) \subseteq S

\* A step, and a program, of that kind.
Sober(s) == \E S : SoberSet(S) /\ s \in S

SoberProgram(p) == IsSeq(p) /\ \A s \in StepsOf(p) : Sober(s)

\* A sober step has no silent ending, and its own steps are sober.
LEMMA SoberUnfolds ==
    ASSUME NEW s, Sober(s)
    PROVE  /\ s.do \in {"might", "end"} => s.when \subseteq {"raised", "failed", "ended"}
           /\ s.do \in {"after", "by", "maybe"} => SoberProgram(s.steps)
<1>1. PICK S : SoberSet(S) /\ s \in S
  BY DEF Sober
<1> QED BY <1>1 DEF SoberSet, Sober, SoberProgram

\* A step is sober if it has no silent ending and its own steps are sober.
LEMMA SoberFolds ==
    ASSUME NEW s,
           s.do \in {"might", "end"} => s.when \subseteq {"raised", "failed", "ended"},
           s.do \in {"after", "by", "maybe"} => SoberProgram(s.steps)
    PROVE  Sober(s)
<1> DEFINE Own(t) == CHOOSE S : SoberSet(S) /\ t \in S
           Inner == IF s.do \in {"after", "by", "maybe"} THEN StepsOf(s.steps) ELSE {}
           All == {s} \cup UNION {Own(t) : t \in Inner}
<1>1. ASSUME NEW t \in Inner PROVE SoberSet(Own(t)) /\ t \in Own(t)
  <2>1. Sober(t)
    BY DEF SoberProgram
  <2> QED BY <2>1 DEF Sober
<1>2. Inner \subseteq All
  BY <1>1
<1>3. \A t \in Inner : Own(t) \subseteq All
  BY Zenon
<1>4. ASSUME NEW u \in All
      PROVE  /\ u.do \in {"might", "end"} => u.when \subseteq {"raised", "failed", "ended"}
             /\ u.do \in {"after", "by", "maybe"} => IsSeq(u.steps) /\ StepsOf(u.steps) \subseteq All
  <2>1. CASE u = s
    BY <1>2, <2>1 DEF SoberProgram
  <2>2. CASE u # s
    <3>1. PICK t \in Inner : u \in Own(t)
      BY <2>2
    <3>2. SoberSet(Own(t)) /\ Own(t) \subseteq All
      BY <1>1, <1>3
    <3> HIDE DEF Own, All
    <3> QED BY <3>1, <3>2 DEF SoberSet
  <2> QED BY <2>1, <2>2
<1>5. SoberSet(All) /\ s \in All
  <2> HIDE DEF Own
  <2> QED BY Zenon, <1>4 DEF SoberSet
<1> QED BY <1>5 DEF Sober

-----------------------------------------------------------------------------
(* The order of the steps of a command. *)

\* The step at k is the return of a called command.
Ret(p, k) == p[k].do = "return"

\* What follows place c, up to the next return, is sober.
Sobers(p, c) ==
    \A n \in c + 1 .. Len(p) : (\A k \in c + 1 .. n : ~ Ret(p, k)) => Sober(p[n])

\* Once a request of a command may be refused that matters, the command does not
\* end as if nothing had happened.
Orderly(T, p) ==
    \A i \in DOMAIN p : ~ Ret(p, i) /\ ~ Dead(p, i) /\ ~ Within(T, p[i]) => Sobers(p, i)

\* The readers of answers that notice every refusal, what a caller may make of a
\* command that failed, and the ways to end.
Readers == {"manager", "read_api_respond", "_subscription_mutation", "_current_attributes"}
Heeds == {"report", "ignore", "catch"}
Endings == {"raised", "failed", "shown", "preview", "ended"}

\* A step that does not lose the refusal of a request outside of T.
Careful(T, s) ==
    /\ s.do # "return"
    /\ s.do \in {"might", "end"} => s.when \subseteq Endings
    /\ s.do = "write" => s.what \in T \/ (s.heed = "report" /\ s.when \subseteq Readers)
    /\ s.do \in {"call", "reboot"} => s.heed \in Heeds
    /\ s.do = "call" /\ s.heed = "ignore" => Confined(T, s.steps)
    /\ s.do = "reboot" /\ s.heed = "ignore" => "reboot" \in T

\* Steps that are careful, and contain only such steps, in order.
GoodSet(T, G) ==
    \A s \in G :
       /\ Careful(T, s)
       /\ Plain(s.steps) /\ Orderly(T, s.steps) /\ StepsOf(s.steps) \subseteq G

Good(T, s) == \E G : GoodSet(T, G) /\ s \in G

GoodProgram(T, p) == Plain(p) /\ Orderly(T, p) /\ \A s \in StepsOf(p) : Good(T, s)

\* A good step is careful, and so are its own steps, in order.
LEMMA GoodUnfolds ==
    ASSUME NEW T, NEW s, Good(T, s)
    PROVE  Careful(T, s) /\ GoodProgram(T, s.steps)
<1>1. PICK G : GoodSet(T, G) /\ s \in G
  BY DEF Good
<1> QED BY <1>1 DEF GoodSet, Good, GoodProgram

\* A step is good if it is careful and its own steps are a good program.
LEMMA GoodFolds ==
    ASSUME NEW T, NEW s, Careful(T, s), GoodProgram(T, s.steps)
    PROVE  Good(T, s)
<1> DEFINE Own(t) == CHOOSE G : GoodSet(T, G) /\ t \in G
           All == {s} \cup UNION {Own(t) : t \in StepsOf(s.steps)}
<1>1. ASSUME NEW t \in StepsOf(s.steps) PROVE GoodSet(T, Own(t)) /\ t \in Own(t)
  BY DEF GoodProgram, Good
<1>2. StepsOf(s.steps) \subseteq All
  BY <1>1
<1>3. \A t \in StepsOf(s.steps) : Own(t) \subseteq All
  BY Zenon
<1>4. ASSUME NEW u \in All
      PROVE  /\ Careful(T, u)
             /\ Plain(u.steps) /\ Orderly(T, u.steps) /\ StepsOf(u.steps) \subseteq All
  <2>1. CASE u = s
    BY <1>2, <2>1 DEF GoodProgram
  <2>2. CASE u # s
    <3>1. PICK t \in StepsOf(s.steps) : u \in Own(t)
      BY <2>2
    <3>2. GoodSet(T, Own(t)) /\ Own(t) \subseteq All
      BY <1>1, <1>3
    <3> HIDE DEF Own, All
    <3> QED BY <3>1, <3>2 DEF GoodSet
  <2> QED BY <2>1, <2>2
<1>5. GoodSet(T, All) /\ s \in All
  <2> HIDE DEF Own
  <2> QED BY Zenon, <1>4 DEF GoodSet
<1> QED BY <1>5 DEF Good

-----------------------------------------------------------------------------
(* Two sequences of steps with a common end: m and n steps come before it. *)

Share(p, m, q, n) ==
    /\ IsSeq(p) /\ IsSeq(q) /\ m \in Nat /\ n \in Nat
    /\ m <= Len(p) /\ Len(q) = Len(p) - m + n
    /\ \A i \in 1 .. Len(p) - m : p[m + i] = q[n + i]

\* A common end is one of both sequences.
LEMMA ShareSymmetric ==
    ASSUME NEW p, NEW m, NEW q, NEW n, Share(p, m, q, n)
    PROVE  Share(q, n, p, m)
<1>1. Len(p) \in Nat /\ Len(q) \in Nat /\ m \in Nat /\ n \in Nat /\ m <= Len(p)
      /\ Len(q) = Len(p) - m + n
  BY SeqFacts DEF Share
<1>2. Len(p) = Len(q) - n + m /\ n <= Len(q) /\ Len(q) - n = Len(p) - m
  BY <1>1
<1> QED BY <1>1, <1>2 DEF Share

\* What is sober up to the next return depends on the common end only.
LEMMA ShareSobers ==
    ASSUME NEW p, NEW m, NEW q, NEW n, Share(p, m, q, n),
           NEW c \in 0 .. Len(p) - m, Sobers(p, m + c)
    PROVE  Sobers(q, n + c)
<1>0. /\ Len(p) \in Nat /\ Len(q) \in Nat /\ m \in Nat /\ n \in Nat
      /\ m <= Len(p) /\ Len(q) = Len(p) - m + n
      /\ \A i \in 1 .. Len(p) - m : p[m + i] = q[n + i]
  BY SeqFacts DEF Share
<1> SUFFICES ASSUME NEW x \in n + c + 1 .. Len(q),
                    \A k \in n + c + 1 .. x : ~ Ret(q, k)
             PROVE  Sober(q[x])
  BY DEF Sobers
<1> DEFINE y == x - n + m
<1>1. y \in m + c + 1 .. Len(p) /\ x - n \in 1 .. Len(p) - m
  BY <1>0
<1>2. p[y] = q[x]
  <2>1. p[m + (x - n)] = q[n + (x - n)]
    BY <1>0, <1>1
  <2> QED BY <1>0, <2>1
<1>3. ASSUME NEW k \in m + c + 1 .. y PROVE ~ Ret(p, k)
  <2>1. k - m \in 1 .. Len(p) - m /\ n + (k - m) \in n + c + 1 .. x
    BY <1>0, <1>1
  <2>2. p[m + (k - m)] = q[n + (k - m)]
    BY Zenon, <1>0, <2>1
  <2>3. p[k] = q[n + (k - m)]
    BY <1>0, <2>2
  <2> QED BY <2>1, <2>3 DEF Ret
<1> HIDE DEF y
<1>4. Sober(p[y])
  BY <1>1, <1>3 DEF Sobers
<1> QED BY <1>2, <1>4

\* The call that returns at k loses its error, or the refusals of the called
\* command might be forgotten after it.
Leaky(p, k) == Ret(p, k) /\ (p[k].heed = "ignore" \/ ~ Sobers(p, k))

\* Whether a return is leaky depends on the common end only.
LEMMA ShareLeaky ==
    ASSUME NEW p, NEW m, NEW q, NEW n, Share(p, m, q, n),
           NEW c \in 1 .. Len(p) - m, Leaky(p, m + c)
    PROVE  Leaky(q, n + c)
<1>1. p[m + c] = q[n + c]
  BY DEF Share
<1>2. Len(p) \in Nat /\ m \in Nat /\ n \in Nat /\ m <= Len(p) /\ Len(q) = Len(p) - m + n
  BY SeqFacts DEF Share
<1>3. c \in 0 .. Len(p) - m /\ c \in 0 .. Len(q) - n
  BY <1>2
<1>4. Sobers(q, n + c) => Sobers(p, m + c)
  BY <1>3, ShareSobers, ShareSymmetric
<1> QED BY <1>1, <1>4 DEF Leaky, Ret

\* A place of the common end that is cut off within it is cut off in both.
LEMMA ShareDead ==
    ASSUME NEW p, NEW m, NEW q, NEW n, Share(p, m, q, n), NEW c \in 1 .. Len(p) - m,
           NEW j \in m + 1 .. (m + c) - 1, p[j].do = "end",
           \A k \in j .. m + c : p[k].do # "return"
    PROVE  Dead(q, n + c)
<1>0. /\ Len(p) \in Nat /\ Len(q) \in Nat /\ m \in Nat /\ n \in Nat
      /\ m <= Len(p) /\ Len(q) = Len(p) - m + n
      /\ \A i \in 1 .. Len(p) - m : p[m + i] = q[n + i]
  BY SeqFacts DEF Share
<1>1. j - m \in 1 .. Len(p) - m /\ n + (j - m) \in 1 .. n + c - 1
  BY <1>0
<1>2. q[n + (j - m)] = p[j]
  <2>1. p[m + (j - m)] = q[n + (j - m)]
    BY Zenon, <1>0, <1>1
  <2> QED BY <1>0, <2>1
<1>3. ASSUME NEW k \in n + (j - m) .. n + c PROVE q[k].do # "return"
  <2>1. k - n \in 1 .. Len(p) - m /\ m + (k - n) \in j .. m + c
    BY <1>0, <1>1
  <2>2. p[m + (k - n)] = q[n + (k - n)]
    BY Zenon, <1>0, <2>1
  <2>3. q[k] = p[m + (k - n)]
    BY <1>0, <2>2
  <2> QED BY <2>1, <2>3
<1>4. n + (j - m) \in 1 .. (n + c) - 1 /\ q[n + (j - m)].do = "end"
  BY <1>0, <1>1, <1>2
<1> QED BY <1>3, <1>4 DEF Dead

-----------------------------------------------------------------------------
(* What remains to be done, with the calls in progress. *)

\* Before a leaky return, nothing outside of T is sent.
Sheltered(T, p) ==
    \A k \in DOMAIN p : Leaky(p, k) =>
       \A i \in 1 .. k - 1 : Ret(p, i) \/ Dead(p, i) \/ Within(T, p[i])

\* What is left to do loses no refusal of a request outside of T.
Sound(T, p) ==
    /\ IsSeq(p)
    /\ \A i \in DOMAIN p : IF Ret(p, i) THEN p[i].heed \in Heeds ELSE Good(T, p[i])
    /\ Orderly(T, p)
    /\ Sheltered(T, p)

\* A refusal that is remembered in the fault of the running command (c = 0) or
\* of a caller (the return at c), and will not be forgotten.
Covered(p, f, c) ==
    /\ IF c = 0 THEN f ELSE Ret(p, c) /\ p[c].fault
    /\ Sobers(p, c)
    /\ \A k \in c + 1 .. Len(p) : ~ Leaky(p, k)

\* Some command in progress keeps the refusal.
Remembered(p, f) == \E c \in 0 .. Len(p) : Covered(p, f, c)

\* A fault kept in a return of the common end is kept in both.
LEMMA ShareCovered ==
    ASSUME NEW p, NEW m, NEW q, NEW n, Share(p, m, q, n), NEW c \in 1 .. Len(p) - m,
           NEW f, NEW g, Covered(p, f, m + c)
    PROVE  Remembered(q, g)
<1>0. /\ Len(p) \in Nat /\ Len(q) \in Nat /\ m \in Nat /\ n \in Nat
      /\ m <= Len(p) /\ Len(q) = Len(p) - m + n
      /\ \A i \in 1 .. Len(p) - m : p[m + i] = q[n + i]
  BY SeqFacts DEF Share
<1>1. m + c # 0 /\ n + c # 0 /\ n + c \in 0 .. Len(q)
  BY <1>0
<1>2. Ret(q, n + c) /\ q[n + c].fault
  BY <1>0, <1>1 DEF Covered, Ret
<1>3. Sobers(q, n + c)
  <2>1. c \in 0 .. Len(p) - m /\ Sobers(p, m + c)
    BY <1>0 DEF Covered
  <2> QED BY <2>1, ShareSobers
<1>4. ASSUME NEW k \in n + c + 1 .. Len(q), Leaky(q, k) PROVE FALSE
  <2> DEFINE d == k - n
  <2>1. k = n + d /\ d \in 1 .. Len(q) - n /\ m + d \in m + c + 1 .. Len(p)
    BY <1>0
  <2> HIDE DEF d
  <2>2. Leaky(p, m + d)
    BY <1>4, <2>1, ShareSymmetric, ShareLeaky
  <2> QED BY <2>1, <2>2 DEF Covered
<1>5. Covered(q, g, n + c)
  BY <1>1, <1>2, <1>3, <1>4 DEF Covered
<1> QED BY <1>1, <1>5 DEF Remembered

-----------------------------------------------------------------------------
(* The machine replaces its next step by the steps in it. *)

\* A program keeps its end when its first step is replaced.
LEMMA ReplaceHead ==
    ASSUME NEW p, IsSeq(p), p # <<>>, NEW q, IsSeq(q)
    PROVE  /\ Share(p, 1, q \o Tail(p), Len(q))
           /\ \A i \in 1 .. Len(q) : (q \o Tail(p))[i] = q[i]
<1>1. /\ Len(p) \in Nat /\ Len(p) # 0 /\ Len(q) \in Nat
      /\ IsSeq(Tail(p)) /\ Len(Tail(p)) = Len(p) - 1
      /\ \A i \in 1 .. Len(p) - 1 : Tail(p)[i] = p[i + 1]
  BY SeqFacts, TailFacts
<1> DEFINE r == q \o Tail(p)
<1>2. /\ IsSeq(r) /\ Len(r) = Len(q) + (Len(p) - 1)
      /\ \A i \in 1 .. Len(q) : r[i] = q[i]
      /\ \A i \in 1 .. Len(p) - 1 : r[Len(q) + i] = Tail(p)[i]
  BY <1>1, ConcatFacts
<1> HIDE DEF r
<1>3. \A i \in 1 .. Len(p) - 1 : p[1 + i] = r[Len(q) + i]
  BY <1>1, <1>2
<1>4. Len(r) = Len(p) - 1 + Len(q) /\ 1 <= Len(p)
  BY <1>1, <1>2
<1>5. Share(p, 1, r, Len(q))
  BY <1>1, <1>2, <1>3, <1>4 DEF Share
<1> QED BY <1>2, <1>5 DEF r

\* What is reached after the head is replaced was reached before.
LEMMA StillDead ==
    ASSUME NEW p, NEW r, NEW m, Share(p, 1, r, m), p[1].do # "end",
           NEW c \in 1 .. Len(p) - 1, Dead(p, 1 + c)
    PROVE  Dead(r, m + c)
<1>1. PICK j \in 1 .. (1 + c) - 1 : p[j].do = "end" /\ \A k \in j .. 1 + c : p[k].do # "return"
  BY DEF Dead
<1>2. Len(p) \in Nat
  BY SeqFacts DEF Share
<1>3. j # 1
  BY <1>1
<1>4. j \in 1 + 1 .. (1 + c) - 1
  BY <1>2, <1>3
<1> QED BY Zenon, <1>1, <1>4, ShareDead

\* The steps after the head are as sound as before.
LEMMA RestIsSound ==
    ASSUME NEW T, NEW p, NEW r, NEW m, Sound(T, p), Share(p, 1, r, m), p[1].do # "end"
    PROVE  /\ \A i \in m + 1 .. Len(r) :
                 IF Ret(r, i) THEN r[i].heed \in Heeds ELSE Good(T, r[i])
           /\ \A i \in m + 1 .. Len(r) :
                 ~ Ret(r, i) /\ ~ Dead(r, i) /\ ~ Within(T, r[i]) => Sobers(r, i)
           /\ \A k \in m + 1 .. Len(r) : Leaky(r, k) =>
                 /\ \A i \in m + 1 .. k - 1 : Ret(r, i) \/ Dead(r, i) \/ Within(T, r[i])
                 /\ Ret(p, 1) \/ Within(T, p[1])
<1>0. /\ Len(p) \in Nat /\ Len(r) \in Nat /\ m \in Nat /\ 1 <= Len(p)
      /\ Len(r) = Len(p) - 1 + m
      /\ \A i \in 1 .. Len(p) - 1 : p[1 + i] = r[m + i]
      /\ DOMAIN p = 1 .. Len(p)
  BY SeqFacts DEF Share
<1>1. ASSUME NEW i \in m + 1 .. Len(r)
      PROVE  /\ i - m \in 1 .. Len(p) - 1 /\ 1 + (i - m) \in DOMAIN p
             /\ i = m + (i - m) /\ r[i] = p[1 + (i - m)]
             /\ Dead(p, 1 + (i - m)) => Dead(r, i)
  <2> DEFINE c == i - m
  <2>1. c \in 1 .. Len(p) - 1 /\ 1 + c \in DOMAIN p /\ i = m + c
    BY <1>0
  <2> HIDE DEF c
  <2>2. r[i] = p[1 + c]
    BY <1>0, <2>1
  <2>3. Dead(p, 1 + c) => Dead(r, i)
    BY <2>1, StillDead
  <2> QED BY <2>1, <2>2, <2>3 DEF c
<1>2. ASSUME NEW i \in m + 1 .. Len(r)
      PROVE  IF Ret(r, i) THEN r[i].heed \in Heeds ELSE Good(T, r[i])
  BY <1>1 DEF Sound, Ret
<1>3. ASSUME NEW i \in m + 1 .. Len(r), ~ Ret(r, i), ~ Dead(r, i), ~ Within(T, r[i])
      PROVE  Sobers(r, i)
  <2> DEFINE c == i - m
  <2>1. /\ c \in 0 .. Len(p) - 1 /\ 1 + c \in DOMAIN p /\ i = m + c
        /\ r[i] = p[1 + c] /\ ~ Dead(p, 1 + c)
    BY <1>0, <1>1, <1>3
  <2> HIDE DEF c
  <2>2. Sobers(p, 1 + c)
    BY <1>3, <2>1 DEF Sound, Orderly, Ret
  <2> QED BY <2>1, <2>2, ShareSobers
<1>4. ASSUME NEW k \in m + 1 .. Len(r), Leaky(r, k)
      PROVE  /\ \A i \in m + 1 .. k - 1 : Ret(r, i) \/ Dead(r, i) \/ Within(T, r[i])
             /\ Ret(p, 1) \/ Within(T, p[1])
  <2> DEFINE c == k - m
  <2>1. /\ c \in 1 .. Len(p) - 1 /\ 1 + c \in DOMAIN p /\ k = m + c
        /\ c \in 1 .. Len(r) - m /\ c >= 1
    BY <1>0, <1>1
  <2> HIDE DEF c
  <2>2. Leaky(p, 1 + c)
    BY <1>4, <2>1, ShareSymmetric, ShareLeaky
  <2>3. \A i \in 1 .. c : Ret(p, i) \/ Dead(p, i) \/ Within(T, p[i])
    <3>1. \A i \in 1 .. (1 + c) - 1 : Ret(p, i) \/ Dead(p, i) \/ Within(T, p[i])
      BY <2>1, <2>2 DEF Sound, Sheltered
    <3>2. (1 + c) - 1 = c
      BY <1>0, <2>1
    <3> QED BY <3>1, <3>2
  <2>4. ~ Dead(p, 1) /\ 1 \in 1 .. c
    BY <2>1 DEF Dead
  <2>5. ASSUME NEW i \in m + 1 .. k - 1 PROVE Ret(r, i) \/ Dead(r, i) \/ Within(T, r[i])
    <3>1. i \in m + 1 .. Len(r) /\ 1 + (i - m) \in 1 .. c
      BY <1>0, <2>1
    <3> QED BY <1>1, <2>3, <3>1 DEF Ret
  <2> QED BY <2>3, <2>4, <2>5
<1> QED BY <1>2, <1>3, <1>4

\* The steps put in its place are sober up to the next return, and so on.
LEMMA FrontIsSober ==
    ASSUME NEW q, IsSeq(q), NEW r, IsSeq(r), Len(q) <= Len(r),
           \A i \in 1 .. Len(q) : r[i] = q[i],
           NEW c \in 0 .. Len(q), Sobers(q, c), Sobers(r, Len(q))
    PROVE  Sobers(r, c)
<1>0. Len(q) \in Nat /\ Len(r) \in Nat
  BY SeqFacts
<1> SUFFICES ASSUME NEW n \in c + 1 .. Len(r), \A k \in c + 1 .. n : ~ Ret(r, k)
             PROVE  Sober(r[n])
  BY DEF Sobers
<1>1. CASE n <= Len(q)
  <2>1. n \in c + 1 .. Len(q) /\ \A k \in c + 1 .. n : ~ Ret(q, k)
    BY <1>0, <1>1 DEF Ret
  <2> QED BY <1>0, <1>1, <2>1 DEF Sobers
<1>2. CASE n > Len(q)
  BY <1>0, <1>2 DEF Sobers
<1> QED BY <1>0, <1>1, <1>2

\* A place of a program that is not reached is not reached with more steps after it.
LEMMA FrontIsDead ==
    ASSUME NEW q, IsSeq(q), NEW r, \A i \in 1 .. Len(q) : r[i] = q[i],
           NEW i \in 1 .. Len(q), Dead(q, i)
    PROVE  Dead(r, i)
BY SeqFacts DEF Dead

\* Every step of a confined program that is reached is confined.
LEMMA ConfinedSteps ==
    ASSUME NEW T, NEW q, Confined(T, q), NEW i \in DOMAIN q, ~ Dead(q, i)
    PROVE  Within(T, q[i])
BY LiveStep DEF Confined

\* A branch that is taken leaves the machine sound.
LEMMA SpliceSound ==
    ASSUME NEW T, NEW p, Sound(T, p), p # <<>>, p[1].do # "end", ~ Ret(p, 1),
           NEW q, GoodProgram(T, q), Within(T, p[1]) => Confined(T, q)
    PROVE  Sound(T, q \o Tail(p))
<1> DEFINE r == q \o Tail(p)
           m == Len(q)
<1>0. Share(p, 1, r, m) /\ \A i \in 1 .. m : r[i] = q[i]
  BY ReplaceHead DEF Sound, GoodProgram, Plain
<1>1. /\ IsSeq(p) /\ IsSeq(q) /\ IsSeq(r) /\ m \in Nat /\ Len(r) \in Nat /\ Len(p) \in Nat
      /\ 1 <= Len(p) /\ Len(r) = Len(p) - 1 + m /\ m <= Len(r)
      /\ DOMAIN q = 1 .. m /\ DOMAIN r = 1 .. Len(r) /\ 1 \in DOMAIN p
  BY <1>0, SeqFacts DEF Share, GoodProgram, Plain
<1> HIDE DEF r
<1>2. /\ \A i \in m + 1 .. Len(r) :
            IF Ret(r, i) THEN r[i].heed \in Heeds ELSE Good(T, r[i])
      /\ \A i \in m + 1 .. Len(r) :
            ~ Ret(r, i) /\ ~ Dead(r, i) /\ ~ Within(T, r[i]) => Sobers(r, i)
      /\ \A k \in m + 1 .. Len(r) : Leaky(r, k) =>
            /\ \A i \in m + 1 .. k - 1 : Ret(r, i) \/ Dead(r, i) \/ Within(T, r[i])
            /\ Within(T, p[1])
  BY <1>0, RestIsSound
<1>3. \A i \in 1 .. m : ~ Ret(r, i) /\ Good(T, r[i])
  BY <1>0, <1>1 DEF GoodProgram, Plain, Ret, StepsOf
<1>4. \A i \in 1 .. m : ~ Dead(r, i) => ~ Dead(q, i)
  BY <1>0, <1>1, FrontIsDead
<1>5. ASSUME NEW i \in 1 .. m, ~ Dead(r, i), ~ Within(T, r[i]) PROVE Sobers(r, i)
  <2>1. ~ Within(T, p[1])
    BY <1>0, <1>1, <1>4, <1>5, ConfinedSteps
  <2>2. Sobers(p, 1)
    <3>1. ~ Dead(p, 1)
      BY DEF Dead
    <3> QED BY <1>1, <2>1, <3>1 DEF Sound, Orderly
  <2>3. Sobers(r, m)
    <3>1. 0 \in 0 .. Len(p) - 1 /\ 1 + 0 = 1 /\ m + 0 = m
      BY <1>1
    <3>2. Sobers(r, m + 0)
      BY <1>0, <2>2, <3>1, ShareSobers
    <3> QED BY <3>1, <3>2
  <2>4. Sobers(q, i)
    BY <1>0, <1>1, <1>3, <1>4, <1>5 DEF GoodProgram, Orderly, Ret
  <2>5. i \in 0 .. Len(q)
    BY <1>1
  <2> QED BY <1>0, <1>1, <2>3, <2>4, <2>5, FrontIsSober
<1>6. Orderly(T, r)
  <2> SUFFICES ASSUME NEW i \in DOMAIN r, ~ Ret(r, i), ~ Dead(r, i), ~ Within(T, r[i])
               PROVE  Sobers(r, i)
    BY DEF Orderly
  <2>1. i \in 1 .. m \/ i \in m + 1 .. Len(r)
    BY <1>1
  <2> QED BY <1>2, <1>5, <2>1
<1>7. Sheltered(T, r)
  <2> SUFFICES ASSUME NEW k \in DOMAIN r, Leaky(r, k), NEW i \in 1 .. k - 1
               PROVE  Ret(r, i) \/ Dead(r, i) \/ Within(T, r[i])
    BY DEF Sheltered
  <2>1. k \in m + 1 .. Len(r)
    BY <1>1, <1>3 DEF Leaky
  <2>2. CASE i \in 1 .. m
    BY <1>0, <1>1, <1>2, <1>4, <2>1, <2>2, ConfinedSteps
  <2>3. i \in 1 .. m \/ i \in m + 1 .. k - 1
    BY <1>1, <2>1
  <2> QED BY <1>2, <2>1, <2>2, <2>3
<1>8. \A i \in DOMAIN r : IF Ret(r, i) THEN r[i].heed \in Heeds ELSE Good(T, r[i])
  <2> SUFFICES ASSUME NEW i \in DOMAIN r
               PROVE  IF Ret(r, i) THEN r[i].heed \in Heeds ELSE Good(T, r[i])
    OBVIOUS
  <2>1. i \in 1 .. m \/ i \in m + 1 .. Len(r)
    BY <1>1
  <2> QED BY <1>2, <1>3, <2>1
<1> QED BY <1>1, <1>6, <1>7, <1>8 DEF Sound, r

\* A sober step that comes first leaves what follows sober.
LEMMA SoberHead ==
    ASSUME NEW p, IsSeq(p), p # <<>>, ~ Ret(p, 1), Sobers(p, 0)
    PROVE  Sober(p[1]) /\ Sobers(p, 1)
<1>0. Len(p) \in Nat /\ Len(p) # 0
  BY SeqFacts
<1>1. Sober(p[1])
  <2>1. 1 \in 0 + 1 .. Len(p) /\ \A k \in 0 + 1 .. 1 : ~ Ret(p, k)
    BY <1>0
  <2> QED BY <2>1 DEF Sobers
<1>2. ASSUME NEW n \in 1 + 1 .. Len(p), \A k \in 1 + 1 .. n : ~ Ret(p, k)
      PROVE  Sober(p[n])
  <2>1. n \in 0 + 1 .. Len(p) /\ \A k \in 0 + 1 .. n : ~ Ret(p, k)
    <3>1. n \in 0 + 1 .. Len(p)
      BY <1>0
    <3>2. ASSUME NEW k \in 0 + 1 .. n PROVE ~ Ret(p, k)
      <4>1. k = 1 \/ k \in 1 + 1 .. n
        BY <1>0
      <4> QED BY <1>2, <4>1
    <3> QED BY <3>1, <3>2
  <2> QED BY <2>1 DEF Sobers
<1> QED BY <1>1, <1>2 DEF Sobers

\* A branch that is taken does not lose a fault.
LEMMA SpliceRemembers ==
    ASSUME NEW p, IsSeq(p), p # <<>>, ~ Ret(p, 1), NEW q, Plain(q),
           Sober(p[1]) => SoberProgram(q),
           NEW f, NEW g, f => g, Remembered(p, f)
    PROVE  Remembered(q \o Tail(p), g)
<1> DEFINE r == q \o Tail(p)
           m == Len(q)
<1>0. Share(p, 1, r, m) /\ \A i \in 1 .. m : r[i] = q[i]
  BY ReplaceHead DEF Plain
<1>1. /\ IsSeq(q) /\ IsSeq(r) /\ m \in Nat /\ Len(r) \in Nat /\ Len(p) \in Nat
      /\ 1 <= Len(p) /\ Len(r) = Len(p) - 1 + m /\ m <= Len(r)
      /\ DOMAIN q = 1 .. m /\ DOMAIN r = 1 .. Len(r)
  BY <1>0, SeqFacts DEF Share, Plain
<1> HIDE DEF r
<1>2. PICK c \in 0 .. Len(p) : Covered(p, f, c)
  BY DEF Remembered
<1>3. CASE c = 0
  <2>1. f /\ Sobers(p, 0) /\ \A k \in 0 + 1 .. Len(p) : ~ Leaky(p, k)
    BY <1>2, <1>3 DEF Covered
  <2>2. Sober(p[1]) /\ Sobers(p, 1)
    BY <2>1, SoberHead
  <2>3. Sobers(r, m)
    <3>1. 0 \in 0 .. Len(p) - 1 /\ 1 + 0 = 1 /\ m + 0 = m
      BY <1>1
    <3>2. Sobers(r, m + 0)
      BY <1>0, <2>2, <3>1, ShareSobers
    <3> QED BY <3>1, <3>2
  <2>4. Sobers(q, 0)
    BY <1>1, <2>2 DEF Sobers, SoberProgram, StepsOf
  <2>5. Sobers(r, 0)
    <3>1. 0 \in 0 .. Len(q)
      BY <1>1
    <3> QED BY <1>0, <1>1, <2>3, <2>4, <3>1, FrontIsSober
  <2>6. ASSUME NEW k \in 0 + 1 .. Len(r), Leaky(r, k) PROVE FALSE
    <3> DEFINE d == k - m
    <3>0. \A i \in 1 .. m : ~ Leaky(r, i)
      BY <1>0, <1>1 DEF Leaky, Ret, Plain
    <3>1. k > m
      BY <1>1, <2>6, <3>0
    <3>2. k = m + d /\ d \in 1 .. Len(r) - m /\ 1 + d \in 0 + 1 .. Len(p)
      BY <1>1, <3>1
    <3> HIDE DEF d
    <3>3. Leaky(p, 1 + d)
      BY Zenon, <1>0, <2>6, <3>2, ShareSymmetric, ShareLeaky
    <3> QED BY <2>1, <3>2, <3>3
  <2>7. Covered(r, g, 0)
    BY <2>1, <2>5, <2>6 DEF Covered
  <2>8. 0 \in 0 .. Len(r)
    BY <1>1
  <2> QED BY <2>7, <2>8 DEF Remembered, r
<1>4. CASE c # 0
  <2> DEFINE d == c - 1
  <2>1. c # 1
    BY <1>2, <1>4 DEF Covered
  <2>2. c = 1 + d /\ d \in 1 .. Len(p) - 1
    BY <1>1, <1>4, <2>1
  <2> HIDE DEF d
  <2> QED BY Zenon, <1>0, <1>2, <2>2, ShareCovered DEF r
<1> QED BY <1>3, <1>4

-----------------------------------------------------------------------------
(* Another command is called, and returns. *)

\* sync_invoke leaves the machine sound.
LEMMA CallIsSound ==
    ASSUME NEW T, NEW p, Sound(T, p), p # <<>>, p[1].do # "end", ~ Ret(p, 1),
           NEW q, GoodProgram(T, q), Within(T, p[1]) => Confined(T, q),
           NEW back, back.do = "return", back.heed \in Heeds,
           back.heed = "ignore" => Confined(T, q)
    PROVE  Sound(T, q \o <<back>> \o Tail(p))
<1> DEFINE s == q \o <<back>>
           r == s \o Tail(p)
           n == Len(q)
           m == Len(s)
<1>0. IsSeq(p) /\ IsSeq(q) /\ IsSeq(<<back>>) /\ n \in Nat /\ DOMAIN q = 1 .. n
  BY SeqFacts, TupleFacts DEF Sound, GoodProgram, Plain
<1>1. /\ IsSeq(s) /\ m = n + 1 /\ s[n + 1] = back
      /\ \A i \in 1 .. n : s[i] = q[i]
  <2>1. Len(<<back>>) = 1 /\ <<back>>[1] = back /\ 1 \in 1 .. 1
    OBVIOUS
  <2> HIDE DEF s
  <2>2. /\ IsSeq(s) /\ Len(s) = Len(q) + Len(<<back>>)
        /\ \A i \in 1 .. Len(q) : s[i] = q[i]
        /\ \A i \in 1 .. Len(<<back>>) : s[Len(q) + i] = <<back>>[i]
    BY <1>0, ConcatFacts DEF s
  <2> QED BY <2>1, <2>2
<1> HIDE DEF s
<1>2. Share(p, 1, r, m) /\ \A i \in 1 .. m : r[i] = s[i]
  BY <1>0, <1>1, ReplaceHead
<1>3. /\ IsSeq(r) /\ m \in Nat /\ Len(r) \in Nat /\ Len(p) \in Nat
      /\ 1 <= Len(p) /\ Len(r) = Len(p) - 1 + m /\ m <= Len(r)
      /\ DOMAIN r = 1 .. Len(r) /\ 1 \in DOMAIN p
  BY <1>0, <1>1, <1>2, SeqFacts DEF Share
<1> HIDE DEF r
<1>4. r[m] = back /\ \A i \in 1 .. n : r[i] = q[i]
  BY <1>0, <1>1, <1>2
<1>5. /\ \A i \in m + 1 .. Len(r) :
            IF Ret(r, i) THEN r[i].heed \in Heeds ELSE Good(T, r[i])
      /\ \A i \in m + 1 .. Len(r) :
            ~ Ret(r, i) /\ ~ Dead(r, i) /\ ~ Within(T, r[i]) => Sobers(r, i)
      /\ \A k \in m + 1 .. Len(r) : Leaky(r, k) =>
            /\ \A i \in m + 1 .. k - 1 : Ret(r, i) \/ Dead(r, i) \/ Within(T, r[i])
            /\ Within(T, p[1])
  BY <1>2, RestIsSound
<1>6. \A i \in 1 .. n : ~ Ret(r, i) /\ Good(T, r[i])
  BY <1>0, <1>4 DEF GoodProgram, Plain, Ret, StepsOf
<1>7. Ret(r, m)
  BY <1>4 DEF Ret
<1>8. \A i \in 1 .. n : ~ Dead(r, i) => ~ Dead(q, i)
  BY <1>0, <1>4, FrontIsDead
<1>9. \A i \in DOMAIN r : i \in 1 .. n \/ i = m \/ i \in m + 1 .. Len(r)
  BY <1>0, <1>1, <1>3
<1>10. ASSUME NEW i \in 1 .. n, ~ Dead(r, i), ~ Within(T, r[i]) PROVE Sobers(r, i)
  <2>1. Sobers(q, i)
    BY <1>0, <1>4, <1>6, <1>8, <1>10 DEF GoodProgram, Orderly, Ret
  <2> SUFFICES ASSUME NEW x \in i + 1 .. Len(r), \A k \in i + 1 .. x : ~ Ret(r, k)
               PROVE  Sober(r[x])
    BY DEF Sobers
  <2>2. x <= n
    <3>1. m \in i + 1 .. x \/ x <= n
      BY <1>0, <1>1, <1>3
    <3> QED BY <1>7, <3>1
  <2>3. x \in i + 1 .. n /\ \A k \in i + 1 .. x : ~ Ret(q, k)
    BY <1>0, <1>4, <2>2 DEF Ret
  <2> QED BY <1>0, <1>4, <2>1, <2>3 DEF Sobers
<1>11. Orderly(T, r)
  BY <1>5, <1>7, <1>9, <1>10 DEF Orderly
<1>12. ASSUME NEW k \in DOMAIN r, Leaky(r, k) PROVE Confined(T, q)
  <2>1. CASE k \in m + 1 .. Len(r)
    BY <1>5, <1>12, <2>1
  <2>2. CASE k = m
    <3>1. CASE back.heed = "ignore"
      BY <3>1
    <3>2. CASE ~ Sobers(r, m)
      <4>1. 0 \in 0 .. Len(p) - 1 /\ 1 + 0 = 1 /\ m + 0 = m
        BY <1>3
      <4>2. ~ Sobers(p, 1 + 0)
        BY <1>2, <3>2, <4>1, ShareSobers
      <4>3. ~ Dead(p, 1)
        BY DEF Dead
      <4> QED BY <1>3, <4>1, <4>2, <4>3 DEF Sound, Orderly
    <3> QED BY <1>4, <1>12, <2>2, <3>1, <3>2 DEF Leaky
  <2> QED BY <1>6, <1>9, <1>12, <2>1, <2>2 DEF Leaky
<1>13. Sheltered(T, r)
  <2> SUFFICES ASSUME NEW k \in DOMAIN r, Leaky(r, k), NEW i \in 1 .. k - 1
               PROVE  Ret(r, i) \/ Dead(r, i) \/ Within(T, r[i])
    BY DEF Sheltered
  <2>1. CASE i \in 1 .. n
    BY <1>0, <1>4, <1>8, <1>12, <2>1, ConfinedSteps
  <2>2. i \in 1 .. n \/ i = m \/ (i \in m + 1 .. k - 1 /\ k \in m + 1 .. Len(r))
    BY <1>0, <1>1, <1>3
  <2> QED BY <1>5, <1>7, <2>1, <2>2
<1>14. \A i \in DOMAIN r : IF Ret(r, i) THEN r[i].heed \in Heeds ELSE Good(T, r[i])
  BY <1>4, <1>5, <1>6, <1>7, <1>9
<1>15. Sound(T, r)
  BY <1>3, <1>11, <1>13, <1>14 DEF Sound
<1> QED BY <1>15 DEF r, s

\* sync_invoke keeps the fault of the caller in the return.
LEMMA CallRemembers ==
    ASSUME NEW p, IsSeq(p), p # <<>>, ~ Ret(p, 1), NEW q, Plain(q),
           NEW f, NEW g, NEW back, back.do = "return", back.fault = f, Remembered(p, f)
    PROVE  Remembered(q \o <<back>> \o Tail(p), g)
<1> DEFINE s == q \o <<back>>
           r == s \o Tail(p)
           n == Len(q)
           m == Len(s)
<1>0. IsSeq(q) /\ IsSeq(<<back>>) /\ n \in Nat
  BY SeqFacts, TupleFacts DEF Plain
<1>1. IsSeq(s) /\ m = n + 1 /\ s[n + 1] = back
  <2>1. Len(<<back>>) = 1 /\ <<back>>[1] = back /\ 1 \in 1 .. 1
    OBVIOUS
  <2> HIDE DEF s
  <2>2. /\ IsSeq(s) /\ Len(s) = Len(q) + Len(<<back>>)
        /\ \A i \in 1 .. Len(<<back>>) : s[Len(q) + i] = <<back>>[i]
    BY <1>0, ConcatFacts DEF s
  <2> QED BY <2>1, <2>2
<1> HIDE DEF s
<1>2. Share(p, 1, r, m) /\ \A i \in 1 .. m : r[i] = s[i]
  BY <1>0, <1>1, ReplaceHead
<1>3. /\ IsSeq(r) /\ m \in Nat /\ Len(r) \in Nat /\ Len(p) \in Nat
      /\ 1 <= Len(p) /\ Len(r) = Len(p) - 1 + m /\ m <= Len(r)
  BY <1>0, <1>1, <1>2, SeqFacts DEF Share
<1> HIDE DEF r
<1>4. r[m] = back
  BY <1>0, <1>1, <1>2
<1>5. PICK c \in 0 .. Len(p) : Covered(p, f, c)
  BY DEF Remembered
<1>6. CASE c = 0
  <2>1. f /\ Sobers(p, 0) /\ \A k \in 0 + 1 .. Len(p) : ~ Leaky(p, k)
    BY <1>5, <1>6 DEF Covered
  <2>2. Sobers(r, m)
    <3>0. Sobers(p, 1)
      BY <2>1, SoberHead
    <3>1. 0 \in 0 .. Len(p) - 1 /\ 1 + 0 = 1 /\ m + 0 = m
      BY <1>3
    <3>2. Sobers(r, m + 0)
      BY <1>2, <3>0, <3>1, ShareSobers
    <3> QED BY <3>1, <3>2
  <2>3. ASSUME NEW k \in m + 1 .. Len(r), Leaky(r, k) PROVE FALSE
    <3> DEFINE d == k - m
    <3>1. k = m + d /\ d \in 1 .. Len(r) - m /\ 1 + d \in 0 + 1 .. Len(p)
      BY <1>3
    <3> HIDE DEF d
    <3>2. Leaky(p, 1 + d)
      BY Zenon, <1>2, <2>3, <3>1, ShareSymmetric, ShareLeaky
    <3> QED BY <2>1, <3>1, <3>2
  <2>4. Ret(r, m) /\ r[m].fault /\ m # 0 /\ m \in 0 .. Len(r)
    <3>1. Ret(r, m)
      BY <1>4 DEF Ret
    <3>2. r[m].fault
      BY <1>4, <2>1, Zenon
    <3> QED BY <1>0, <1>1, <1>3, <3>1, <3>2
  <2>5. Covered(r, g, m)
    BY <2>2, <2>3, <2>4 DEF Covered
  <2> HIDE DEF m
  <2>6. Remembered(r, g)
    BY <2>4, <2>5 DEF Remembered
  <2> QED BY <2>6 DEF r, s
<1>7. CASE c # 0
  <2> DEFINE d == c - 1
  <2>1. c # 1
    BY <1>5, <1>7 DEF Covered
  <2>2. c = 1 + d /\ d \in 1 .. Len(p) - 1
    BY <1>3, <1>7, <2>1
  <2> HIDE DEF d
  <2>3. Remembered(r, g)
    BY Zenon, <1>2, <1>5, <2>2, ShareCovered
  <2> QED BY <2>3 DEF r, s
<1> QED BY <1>6, <1>7

\* A step that is done leaves the machine sound.
LEMMA ReturnIsSound ==
    ASSUME NEW T, NEW p, Sound(T, p), p # <<>>, p[1].do # "end"
    PROVE  Sound(T, Tail(p))
<1>0. IsSeq(p) /\ Len(p) \in Nat /\ Len(p) # 0
  BY SeqFacts DEF Sound
<1> DEFINE r == Tail(p)
<1>1. /\ IsSeq(r) /\ Len(r) = Len(p) - 1
      /\ \A i \in 1 .. Len(p) - 1 : r[i] = p[i + 1]
  BY <1>0, TailFacts
<1> HIDE DEF r
<1>2. DOMAIN r = 1 .. Len(r)
  BY <1>1, SeqFacts
<1>3. Share(p, 1, r, 0)
  <2>1. \A i \in 1 .. Len(p) - 1 : p[1 + i] = r[0 + i]
    BY <1>0, <1>1
  <2>2. Len(r) = Len(p) - 1 + 0 /\ 1 <= Len(p)
    BY <1>0, <1>1
  <2> QED BY <1>0, <1>1, <2>1, <2>2 DEF Share
<1>4. /\ \A i \in 0 + 1 .. Len(r) :
            IF Ret(r, i) THEN r[i].heed \in Heeds ELSE Good(T, r[i])
      /\ \A i \in 0 + 1 .. Len(r) :
            ~ Ret(r, i) /\ ~ Dead(r, i) /\ ~ Within(T, r[i]) => Sobers(r, i)
      /\ \A k \in 0 + 1 .. Len(r) : Leaky(r, k) =>
            \A i \in 0 + 1 .. k - 1 : Ret(r, i) \/ Dead(r, i) \/ Within(T, r[i])
  BY <1>3, RestIsSound
<1>5. 0 + 1 = 1
  OBVIOUS
<1>6. Sound(T, r)
  BY <1>1, <1>2, <1>4, <1>5 DEF Sound, Orderly, Sheltered
<1> QED BY <1>6 DEF r

\* The return of a called command hands its fault on.
LEMMA ReturnRemembers ==
    ASSUME NEW p, IsSeq(p), p # <<>>, Ret(p, 1), NEW f, NEW g,
           p[1].fault \/ (f /\ p[1].heed # "ignore") => g, Remembered(p, f)
    PROVE  Remembered(Tail(p), g)
<1>0. Len(p) \in Nat /\ Len(p) # 0
  BY SeqFacts
<1> DEFINE r == Tail(p)
<1>1. /\ IsSeq(r) /\ Len(r) = Len(p) - 1
      /\ \A i \in 1 .. Len(p) - 1 : r[i] = p[i + 1]
  BY <1>0, TailFacts
<1> HIDE DEF r
<1>3. Share(p, 1, r, 0)
  <2>1. \A i \in 1 .. Len(p) - 1 : p[1 + i] = r[0 + i]
    BY <1>0, <1>1
  <2>2. Len(r) = Len(p) - 1 + 0 /\ 1 <= Len(p)
    BY <1>0, <1>1
  <2> QED BY <1>0, <1>1, <2>1, <2>2 DEF Share
<1>4. PICK c \in 0 .. Len(p) : Covered(p, f, c)
  BY DEF Remembered
<1>5. CASE c \in {0, 1}
  <2>1. \A k \in 1 + 1 .. Len(p) : ~ Leaky(p, k)
    BY <1>0, <1>4, <1>5 DEF Covered
  <2>2. g /\ Sobers(p, 1)
    <3>1. CASE c = 0
      <4>1. ~ Leaky(p, 1) /\ f
        BY <1>0, <1>4, <3>1 DEF Covered
      <4> QED BY <4>1 DEF Leaky
    <3>2. CASE c = 1
      BY <1>4, <3>2 DEF Covered
    <3> QED BY <1>5, <3>1, <3>2
  <2>3. Sobers(r, 0)
    <3>1. 0 \in 0 .. Len(p) - 1 /\ 1 + 0 = 1 /\ 0 + 0 = 0
      BY <1>0
    <3>2. Sobers(r, 0 + 0)
      BY <1>3, <2>2, <3>1, ShareSobers
    <3> QED BY <3>1, <3>2
  <2>4. ASSUME NEW k \in 0 + 1 .. Len(r), Leaky(r, k) PROVE FALSE
    <3>1. k = 0 + k /\ k \in 1 .. Len(r) - 0 /\ 1 + k \in 1 + 1 .. Len(p)
      BY <1>0, <1>1
    <3>2. Leaky(p, 1 + k)
      BY <1>3, <2>4, <3>1, ShareSymmetric, ShareLeaky
    <3> QED BY <2>1, <3>1, <3>2
  <2>5. Covered(r, g, 0)
    BY <2>2, <2>3, <2>4 DEF Covered
  <2>6. 0 \in 0 .. Len(r)
    BY <1>0, <1>1
  <2> QED BY <2>5, <2>6 DEF Remembered, r
<1>6. CASE c \notin {0, 1}
  <2> DEFINE d == c - 1
  <2>1. c = 1 + d /\ d \in 1 .. Len(p) - 1
    BY <1>0, <1>6
  <2> HIDE DEF d
  <2>2. Remembered(r, g)
    BY Zenon, <1>3, <1>4, <2>1, ShareCovered
  <2> QED BY <2>2 DEF r
<1> QED BY <1>5, <1>6

-----------------------------------------------------------------------------
(* A command ends, up to the return of a call. *)

\* What End leaves of a program is its end.
LEMMA CutShares ==
    ASSUME NEW p, IsSeq(p), NEW k \in 1 .. Len(p)
    PROVE  LET r == SubSeq(p, k, Len(p)) IN
           /\ Share(p, k - 1, r, 0)
           /\ IsSeq(r) /\ Len(r) = Len(p) - (k - 1) /\ DOMAIN r = 1 .. Len(r)
           /\ \A i \in 1 .. Len(r) : r[i] = p[(k - 1) + i]
<1> DEFINE r == SubSeq(p, k, Len(p))
<1>0. Len(p) \in Nat
  BY SeqFacts
<1>1. /\ IsSeq(r) /\ Len(r) = Len(p) - k + 1
      /\ \A i \in 1 .. Len(p) - k + 1 : r[i] = p[k + i - 1]
  BY RestFacts
<1> HIDE DEF r
<1>2. Len(r) = Len(p) - (k - 1) /\ DOMAIN r = 1 .. Len(r) /\ Len(r) = Len(p) - (k - 1) + 0
  BY <1>0, <1>1, SeqFacts
<1>3. ASSUME NEW i \in 1 .. Len(p) - (k - 1) PROVE r[i] = p[(k - 1) + i] /\ 0 + i = i
  <2>1. i \in 1 .. Len(p) - k + 1 /\ k + i - 1 = (k - 1) + i
    BY <1>0
  <2> QED BY <1>1, <2>1
<1>4. k - 1 \in Nat /\ k - 1 <= Len(p)
  BY <1>0
<1>5. Share(p, k - 1, r, 0)
  BY <1>1, <1>2, <1>3, <1>4 DEF Share
<1> QED BY <1>1, <1>2, <1>3, <1>5 DEF r

\* The end of a called command leaves the machine sound.
LEMMA CutIsSound ==
    ASSUME NEW T, NEW p, Sound(T, p), NEW k \in 1 .. Len(p), Ret(p, k)
    PROVE  Sound(T, SubSeq(p, k, Len(p)))
<1> DEFINE r == SubSeq(p, k, Len(p))
           m == k - 1
<1>0. IsSeq(p) /\ Len(p) \in Nat /\ DOMAIN p = 1 .. Len(p)
  BY SeqFacts DEF Sound
<1>1. /\ Share(p, m, r, 0)
      /\ IsSeq(r) /\ Len(r) = Len(p) - m /\ DOMAIN r = 1 .. Len(r)
      /\ \A i \in 1 .. Len(r) : r[i] = p[m + i]
  BY <1>0, CutShares
<1>2. m \in Nat /\ k = m + 1 /\ m + 1 <= Len(p)
  BY <1>0
<1> HIDE DEF r, m
<1>3. ASSUME NEW i \in 1 .. Len(r), Dead(p, m + i) PROVE Dead(r, i)
  <2>1. PICK j \in 1 .. (m + i) - 1 :
          p[j].do = "end" /\ \A x \in j .. m + i : p[x].do # "return"
    BY <1>3 DEF Dead
  <2>2. j > m + 1
    <3>1. m + 1 \in j .. m + i \/ j > m + 1
      BY <1>0, <1>1, <1>2
    <3> QED BY <1>2, <2>1, <3>1 DEF Ret
  <2>3. j \in m + 1 .. (m + i) - 1 /\ i \in 1 .. Len(p) - m /\ 0 + i = i
    BY <1>0, <1>1, <1>2, <2>2
  <2>4. Dead(r, 0 + i)
    BY <1>1, <2>1, <2>3, ShareDead
  <2> QED BY <2>3, <2>4
<1>4. ASSUME NEW i \in 1 .. Len(r)
      PROVE  m + i \in DOMAIN p /\ i \in 0 .. Len(p) - m /\ i \in 1 .. Len(p) - m /\ 0 + i = i
             /\ i \in 1 .. Len(r) - 0
  BY <1>0, <1>1, <1>2
<1>5. ASSUME NEW i \in 1 .. Len(r)
      PROVE  IF Ret(r, i) THEN r[i].heed \in Heeds ELSE Good(T, r[i])
  BY <1>1, <1>4 DEF Sound, Ret
<1>6. ASSUME NEW i \in 1 .. Len(r), ~ Ret(r, i), ~ Dead(r, i), ~ Within(T, r[i])
      PROVE  Sobers(r, i)
  <2>1. Sobers(p, m + i)
    BY <1>1, <1>3, <1>4, <1>6 DEF Sound, Orderly, Ret
  <2>2. Sobers(r, 0 + i)
    BY <1>1, <1>4, <2>1, ShareSobers
  <2> QED BY <1>4, <2>2
<1>7. ASSUME NEW x \in 1 .. Len(r), Leaky(r, x), NEW i \in 1 .. x - 1
      PROVE  Ret(r, i) \/ Dead(r, i) \/ Within(T, r[i])
  <2>1. Leaky(p, m + x)
    BY <1>1, <1>4, <1>7, ShareSymmetric, ShareLeaky
  <2>2. i \in 1 .. Len(r) /\ m + i \in 1 .. (m + x) - 1
    BY <1>0, <1>1, <1>2
  <2>3. Ret(p, m + i) \/ Dead(p, m + i) \/ Within(T, p[m + i])
    <3>1. \A y \in 1 .. (m + x) - 1 : Ret(p, y) \/ Dead(p, y) \/ Within(T, p[y])
      BY <1>4, <2>1 DEF Sound, Sheltered
    <3> QED BY <2>2, <3>1
  <2> QED BY <1>1, <1>3, <2>2, <2>3 DEF Ret
<1>8. Sound(T, r)
  BY <1>1, <1>5, <1>6, <1>7 DEF Sound, Orderly, Sheltered
<1> QED BY <1>8 DEF r

\* The end of a called command keeps a fault of its callers, and its own one if it
\* ends with an error.
LEMMA CutRemembers ==
    ASSUME NEW p, IsSeq(p), NEW k \in 1 .. Len(p), Ret(p, k), NEW f, NEW b,
           \/ \E c \in k .. Len(p) : Covered(p, f, c)
           \/ b /\ \A x \in k .. Len(p) : ~ Leaky(p, x)
    PROVE  Remembered(SubSeq(p, k, Len(p)), b)
<1> DEFINE r == SubSeq(p, k, Len(p))
           m == k - 1
<1>0. Len(p) \in Nat /\ DOMAIN p = 1 .. Len(p)
  BY SeqFacts
<1>1. /\ Share(p, m, r, 0)
      /\ IsSeq(r) /\ Len(r) = Len(p) - m /\ DOMAIN r = 1 .. Len(r)
      /\ \A i \in 1 .. Len(r) : r[i] = p[m + i]
  BY <1>0, CutShares
<1>2. m \in Nat /\ k = m + 1 /\ m + 1 <= Len(p)
  BY <1>0
<1> HIDE DEF r, m
<1>3. CASE \E c \in k .. Len(p) : Covered(p, f, c)
  <2>1. PICK c \in k .. Len(p) : Covered(p, f, c)
    BY <1>3
  <2> DEFINE d == c - m
  <2>2. c = m + d /\ d \in 1 .. Len(p) - m
    BY <1>0, <1>2
  <2> HIDE DEF d
  <2> QED BY <1>1, <2>1, <2>2, ShareCovered DEF r
<1>4. CASE b /\ \A x \in k .. Len(p) : ~ Leaky(p, x)
  <2>1. Ret(r, 1)
    <3>1. 1 \in 1 .. Len(r)
      BY <1>0, <1>1, <1>2
    <3> QED BY <1>1, <1>2, <3>1 DEF Ret
  <2>2. Sobers(r, 0)
    <3> SUFFICES ASSUME NEW n \in 0 + 1 .. Len(r), \A x \in 0 + 1 .. n : ~ Ret(r, x)
                 PROVE  FALSE
      BY DEF Sobers
    <3>1. 1 \in 0 + 1 .. n
      BY <1>0, <1>1, <1>2
    <3> QED BY <2>1, <3>1
  <2>3. ASSUME NEW x \in 0 + 1 .. Len(r), Leaky(r, x) PROVE FALSE
    <3>1. 0 + x = x /\ x \in 1 .. Len(r) - 0 /\ m + x \in k .. Len(p)
      BY <1>0, <1>1, <1>2
    <3>2. Leaky(p, m + x)
      BY <1>1, <2>3, <3>1, ShareSymmetric, ShareLeaky
    <3> QED BY <1>4, <3>1, <3>2
  <2>4. Covered(r, b, 0)
    BY <1>4, <2>2, <2>3 DEF Covered
  <2>5. 0 \in 0 .. Len(r)
    BY <1>0, <1>1, <1>2
  <2> QED BY <2>4, <2>5 DEF Remembered, r
<1> QED BY <1>3, <1>4

-----------------------------------------------------------------------------
(* The machine remembers a refusal outside of T until the command has ended *)
(* with an error. *)

\* Whoever reads the answer to a request that was refused notices it.
LEMMA RefusalIsNoticed ==
    ASSUME NEW r \in Replies, ~ Success(r.status), NEW by \in Readers,
           NEW m \in {"RedfishManager", "IDracManager"}
    PROVE  Answer(by, m, r) \in {"error", "raised"}
<1>1. r.status \in Statuses /\ (r.location => r.status \in {201, 202})
  BY DEF Replies
<1>2. r.status \in {0, 400, 401, 403, 404, 405, 409, 500, 503} /\ ~ r.location
  BY <1>1 DEF Statuses, Success
<1>3. default_error_handler(r.status) = "raised"
  BY <1>2 DEF default_error_handler
<1>4. RedfishManager_respond(r) \in {"error", "raised"}
  BY <1>3 DEF RedfishManager_respond
<1>5. read_api_respond(r) \in {"error", "raised"}
  BY <1>2 DEF read_api_respond
<1>6. IDracManager_respond(r) \in {"error", "raised"}
  BY <1>5 DEF IDracManager_respond
<1>7. _subscription_mutation(r) = "error" /\ _current_attributes(r) = "error"
  BY DEF _subscription_mutation, _current_attributes
<1> QED BY <1>4, <1>5, <1>6, <1>7 DEF Answer, base_request_respond, Readers

\* The machine keeps in mind that a request outside of T was refused until it ends,
\* and does not end as if nothing had happened.
Remembers(T) ==
    /\ Sound(T, todo)
    /\ outcome = Nothing => refused \subseteq T \/ Remembered(todo, fault)
    /\ outcome = "ended" => refused \subseteq T

\* The end of a command, or of a called one, loses no refusal: either it comes to
\* an error, or a caller has the fault.
LEMMA EndRemembers ==
    ASSUME NEW T, Sound(T, todo), outcome = Nothing, NEW e \in Endings, End(e), NEW R,
           \/ R \subseteq T
           \/ Remembered(todo, fault)
           \/ e = "raised" /\ \A x \in DOMAIN todo : ~ Leaky(todo, x),
           e \in {"shown", "preview"} =>
              todo # <<>> /\ ~ Ret(todo, 1) /\ ~ Sober(todo[1])
    PROVE  /\ Sound(T, todo')
           /\ outcome' = Nothing => R \subseteq T \/ Remembered(todo', fault')
           /\ outcome' = "ended" => R \subseteq T
<1> DEFINE bad == e \in {"raised", "failed"} \/ (e = "ended" /\ fault)
<1>0. IsSeq(todo) /\ Len(todo) \in Nat /\ DOMAIN todo = 1 .. Len(todo)
  BY SeqFacts DEF Sound
<1>1. PICK frames \in Landings(e) :
         /\ frames # {} => /\ todo' = SubSeq(todo, Innermost(frames), Len(todo))
                           /\ fault' = bad /\ outcome' = outcome
         /\ frames = {} => /\ todo' = <<>>
                           /\ outcome' = IF bad /\ e # "raised" THEN "failed" ELSE e
  BY DEF End
<1>2. /\ frames \subseteq 1 .. Len(todo) /\ \A i \in frames : Ret(todo, i)
      /\ e # "raised" => \A i \in 1 .. Len(todo) : Ret(todo, i) => i \in frames
  BY <1>0 DEF Landings, Frames, Ret, Sound, Heeds
<1>3. ASSUME NEW c \in 0 .. Len(todo), Covered(todo, fault, c), c \notin frames,
             \A i \in frames : i < c => FALSE
      PROVE  bad
  <2>1. CASE e \in {"raised", "failed"}
    BY <2>1
  <2>2. CASE e \notin {"raised", "failed"}
    <3>1. c = 0
      <4>1. c # 0 => c \in 1 .. Len(todo) /\ Ret(todo, c)
        BY <1>0, <1>3 DEF Covered
      <4> QED BY <1>2, <1>3, <2>2, <4>1
    <3>2. fault /\ Sobers(todo, 0)
      BY <1>3, <3>1 DEF Covered
    <3>3. e \notin {"shown", "preview"}
      BY <1>0, <3>2, SoberHead
    <3> QED BY <2>2, <3>2, <3>3 DEF Endings
  <2> QED BY <2>1, <2>2
<1> HIDE DEF bad
<1>4. CASE frames = {}
  <2>1. Sound(T, <<>>)
    <3>1. IsSeq(<<>>) /\ DOMAIN <<>> = {}
      BY TupleFacts
    <3> QED BY Zenon, <3>1 DEF Sound, Orderly, Sheltered
  <2>2. outcome' # Nothing
    BY <1>1, <1>4 DEF Endings, Nothing
  <2>3. ASSUME outcome' = "ended" PROVE R \subseteq T
    <3>1. e = "ended" /\ ~ bad
      BY <1>1, <1>4, <2>3
    <3>2. ~ Remembered(todo, fault)
      BY <1>3, <1>4, <3>1 DEF Remembered
    <3> QED BY <3>1, <3>2
  <2> QED BY <1>1, <1>4, <2>1, <2>2, <2>3
<1>5. CASE frames # {}
  <2> DEFINE k == Innermost(frames)
  <2>1. k \in frames /\ \A j \in frames : k <= j
    <3>0. frames \subseteq Nat
      BY <1>0, <1>2
    <3>1. \E i \in frames : \A j \in frames : i <= j
      BY Zenon, <1>5, <3>0, LeastElement
    <3> QED BY <3>1 DEF Innermost
  <2> HIDE DEF k
  <2>2. k \in 1 .. Len(todo) /\ Ret(todo, k)
    BY <1>2, <2>1
  <2>3. todo' = SubSeq(todo, k, Len(todo)) /\ fault' = bad /\ outcome' = Nothing
    BY <1>1, <1>5 DEF k
  <2>4. Sound(T, todo')
    BY <2>2, <2>3, CutIsSound
  <2>5. ASSUME Remembered(todo, fault) PROVE Remembered(todo', bad)
    <3>1. PICK c \in 0 .. Len(todo) : Covered(todo, fault, c)
      BY <2>5 DEF Remembered
    <3>2. CASE c >= k
      <4>1. c \in k .. Len(todo)
        BY <1>0, <2>2, <3>2
      <4> QED BY <1>0, <2>2, <2>3, <3>1, <4>1, CutRemembers
    <3>3. CASE c < k
      <4>1. c \notin frames /\ \A i \in frames : ~ (i < c)
        BY <1>0, <1>2, <2>1, <2>2, <3>3
      <4>2. bad
        BY <1>3, <3>1, <4>1
      <4>3. \A x \in k .. Len(todo) : ~ Leaky(todo, x)
        BY <1>0, <2>2, <3>1, <3>3 DEF Covered
      <4> QED BY Zenon, <1>0, <2>2, <2>3, <4>2, <4>3, CutRemembers
    <3> QED BY <1>0, <2>2, <3>2, <3>3
  <2>6. ASSUME e = "raised", \A x \in DOMAIN todo : ~ Leaky(todo, x)
        PROVE  Remembered(todo', bad)
    <3>1. bad
      BY <2>6 DEF bad
    <3>2. \A x \in k .. Len(todo) : ~ Leaky(todo, x)
      BY <1>0, <2>2, <2>6
    <3> QED BY Zenon, <1>0, <2>2, <2>3, <3>1, <3>2, CutRemembers
  <2>7. R \subseteq T \/ Remembered(todo', fault')
    BY <2>3, <2>5, <2>6
  <2> QED BY <2>3, <2>4, <2>7 DEF Nothing
<1> QED BY <1>4, <1>5

\* A program without steps loses nothing.
LEMMA EmptyIsGood ==
    ASSUME NEW T
    PROVE  GoodProgram(T, <<>>) /\ Confined(T, <<>>) /\ SoberProgram(<<>>)
<1>1. Plain(<<>>) /\ DOMAIN <<>> = {} /\ IsSeq(<<>>)
  BY TupleFacts, PlainParts
<1> QED BY <1>1, ConfinedParts DEF GoodProgram, Orderly, SoberProgram, StepsOf

\* A branch taken or not.
LEMMA SpliceKeeps ==
    ASSUME NEW T, Remembers(T), outcome = Nothing, todo # <<>>, ~ Ret(todo, 1),
           todo[1].do # "end",
           NEW q, q = <<>> \/ (q = todo[1].steps /\ todo[1].do \in {"after", "by", "maybe"}),
           GoOn(q), refused' = refused
    PROVE  Remembers(T)'
<1>1. IsSeq(todo) /\ 1 \in DOMAIN todo /\ Good(T, todo[1])
  BY SeqFacts DEF Remembers, Sound
<1>2. GoodProgram(T, q)
  BY <1>1, EmptyIsGood, GoodUnfolds
<1>3. Within(T, todo[1]) => Confined(T, q)
  BY EmptyIsGood, WithinUnfolds
<1>4. Sober(todo[1]) => SoberProgram(q)
  BY EmptyIsGood, SoberUnfolds
<1>5. todo' = q \o Tail(todo) /\ fault' = fault /\ outcome' = outcome
  BY DEF GoOn
<1>6. Sound(T, todo')
  BY <1>2, <1>3, <1>5, SpliceSound DEF Remembers
<1>7. Remembered(todo, fault) => Remembered(todo', fault)
  BY <1>1, <1>2, <1>4, <1>5, SpliceRemembers DEF GoodProgram
<1> QED BY <1>5, <1>6, <1>7 DEF Remembers

\* A command ends.
LEMMA EndKeepsMemory ==
    ASSUME NEW T, Remembers(T), outcome = Nothing, NEW e \in Endings, End(e),
           refused' = refused,
           e \in {"shown", "preview"} =>
              todo # <<>> /\ ~ Ret(todo, 1) /\ ~ Sober(todo[1])
    PROVE  Remembers(T)'
<1>1. Sound(T, todo) /\ (refused \subseteq T \/ Remembered(todo, fault))
  BY DEF Remembers
<1>2. /\ Sound(T, todo')
      /\ outcome' = Nothing => refused \subseteq T \/ Remembered(todo', fault')
      /\ outcome' = "ended" => refused \subseteq T
  BY <1>1, EndRemembers
<1> QED BY <1>2 DEF Remembers

\* A request that is not taken, and whose refusal matters.
LEMMA FreshRefusal ==
    ASSUME NEW T, Sound(T, todo), todo # <<>>, todo[1].do = "write", todo[1].what \notin T
    PROVE  /\ todo[1].heed = "report" /\ todo[1].when \subseteq Readers
           /\ \A x \in DOMAIN todo : ~ Leaky(todo, x)
           /\ Remembered(todo, TRUE)
<1>0. IsSeq(todo) /\ Len(todo) \in Nat /\ DOMAIN todo = 1 .. Len(todo) /\ 1 \in DOMAIN todo
  BY SeqFacts DEF Sound
<1>1. ~ Ret(todo, 1) /\ ~ Dead(todo, 1) /\ ~ Within(T, todo[1])
  BY WithinUnfolds DEF Ret, Dead
<1>2. Good(T, todo[1]) /\ Sobers(todo, 1)
  BY <1>0, <1>1 DEF Sound, Orderly
<1>3. todo[1].heed = "report" /\ todo[1].when \subseteq Readers
  BY <1>2, GoodUnfolds DEF Careful
<1>4. ASSUME NEW x \in DOMAIN todo, Leaky(todo, x) PROVE FALSE
  <2>1. x # 1
    BY <1>1, <1>4 DEF Leaky
  <2>2. 1 \in 1 .. x - 1
    BY <1>0, <2>1
  <2> QED BY <1>1, <1>4, <2>2 DEF Sound, Sheltered
<1>5. Sober(todo[1])
  BY SoberFolds
<1>6. Sobers(todo, 0)
  <2> SUFFICES ASSUME NEW n \in 0 + 1 .. Len(todo), \A k \in 0 + 1 .. n : ~ Ret(todo, k)
               PROVE  Sober(todo[n])
    BY DEF Sobers
  <2>1. CASE n = 1
    BY <1>5, <2>1
  <2>2. CASE n # 1
    <3>1. n \in 1 + 1 .. Len(todo) /\ \A k \in 1 + 1 .. n : ~ Ret(todo, k)
      BY <1>0, <2>2
    <3> QED BY <1>2, <3>1 DEF Sobers
  <2> QED BY <2>1, <2>2
<1>7. Covered(todo, TRUE, 0)
  BY <1>0, <1>4, <1>6 DEF Covered
<1>8. 0 \in 0 .. Len(todo)
  BY <1>0
<1>9. Remembered(todo, TRUE)
  BY <1>7, <1>8, Zenon DEF Remembered
<1> QED BY Zenon, <1>3, <1>4, <1>9

\* A request that is refused leaves a fault or throws.
LEMMA SendKeepsMemory ==
    ASSUME NEW T, Remembers(T), manager \in Managers, Send
    PROVE  Remembers(T)'
<1>0. outcome = Nothing /\ todo # <<>> /\ todo[1].do = "write" /\ Head(todo) = todo[1]
  BY DEF Send, At
<1>1. Sound(T, todo) /\ IsSeq(todo) /\ (refused \subseteq T \/ Remembered(todo, fault))
  BY <1>0 DEF Remembers, Sound
<1>2. PICK reply \in Replies, by \in todo[1].when :
         /\ refused' = IF Success(reply.status) THEN refused ELSE refused \cup {todo[1].what}
         /\ IF Answer(by, manager, reply) = "raised" THEN End("raised")
            ELSE /\ todo' = Tail(todo)
                 /\ fault' = (fault \/ (Answer(by, manager, reply) = "error"
                                          /\ todo[1].heed = "report"))
                 /\ UNCHANGED outcome
  <2> HIDE DEF Answer, Replies, Success
  <2> QED BY <1>0 DEF Send
<1> DEFINE came == Answer(by, manager, reply)
<1>3. \/ refused' \subseteq T \/ Remembered(todo, fault)
      \/ /\ todo[1].what \notin T /\ came \in {"error", "raised"}
         /\ todo[1].heed = "report" /\ Remembered(todo, TRUE)
         /\ \A x \in DOMAIN todo : ~ Leaky(todo, x)
  <2>1. CASE Success(reply.status) \/ todo[1].what \in T
    BY Zenon, <1>1, <1>2, <2>1
  <2>2. CASE ~ Success(reply.status) /\ todo[1].what \notin T
    <3>1. /\ todo[1].heed = "report" /\ todo[1].when \subseteq Readers
          /\ \A x \in DOMAIN todo : ~ Leaky(todo, x)
          /\ Remembered(todo, TRUE)
      BY Zenon, <1>0, <1>1, <2>2, FreshRefusal
    <3>2. came \in {"error", "raised"}
      BY <2>2, <3>1, RefusalIsNoticed DEF Managers
    <3> QED BY Zenon, <2>2, <3>1, <3>2
  <2> QED BY Zenon, <2>1, <2>2
<1> HIDE DEF came
<1>4. CASE came = "raised"
  <2>1. End("raised")
    BY <1>2, <1>4 DEF came
  <2>2. /\ Sound(T, todo')
        /\ outcome' = Nothing => refused' \subseteq T \/ Remembered(todo', fault')
        /\ outcome' = "ended" => refused' \subseteq T
    BY Zenon, <1>0, <1>1, <1>3, <2>1, EndRemembers DEF Endings
  <2> QED BY <2>2 DEF Remembers
<1>5. CASE came # "raised"
  <2>1. /\ todo' = Tail(todo) /\ outcome' = outcome
        /\ fault' = (fault \/ (came = "error" /\ todo[1].heed = "report"))
    BY <1>2, <1>5 DEF came
  <2>2. ~ Ret(todo, 1) /\ todo[1].do # "end"
    BY <1>0 DEF Ret
  <2>3. Sound(T, todo')
    BY <1>0, <1>1, <2>1, <2>2, ReturnIsSound
  <2>4. Tail(todo) = <<>> \o Tail(todo)
    BY <1>0, <1>1, TailFacts, ConcatNone
  <2>5. IsSeq(todo) /\ todo # <<>> /\ Plain(<<>>) /\ SoberProgram(<<>>)
    BY <1>0, <1>1, EmptyIsGood DEF GoodProgram
  <2>6. refused' \subseteq T \/ Remembered(todo', fault')
    <3>1. CASE Remembered(todo, fault)
      <4> DEFINE g == came = "error" /\ todo[1].heed = "report"
      <4>1. fault' = (fault \/ g)
        BY <2>1
      <4> HIDE DEF g
      <4>2. Remembered(<<>> \o Tail(todo), fault \/ g)
        <5>1. fault => fault \/ g
          OBVIOUS
        <5> QED BY Zenon, <2>2, <2>5, <3>1, <5>1, SpliceRemembers
      <4> QED BY <2>1, <2>4, <4>1, <4>2
    <3>2. CASE came = "error" /\ todo[1].heed = "report" /\ Remembered(todo, TRUE)
      <4>1. fault' = TRUE
        BY Zenon, <2>1, <3>2
      <4>2. Remembered(<<>> \o Tail(todo), TRUE)
        BY Zenon, <2>2, <2>5, <3>2, SpliceRemembers
      <4> QED BY Zenon, <2>1, <2>4, <4>1, <4>2
    <3> QED BY Zenon, <1>3, <1>5, <3>1, <3>2
  <2>7. outcome' = Nothing /\ outcome' # "ended"
    BY <1>0, <2>1 DEF Nothing
  <2> QED BY <2>3, <2>6, <2>7 DEF Remembers
<1> QED BY <1>4, <1>5

\* reboot() of either manager reports the refusal of the restart.
LEMMA RebootIsGood ==
    ASSUME NEW T, NEW m
    PROVE  /\ GoodProgram(T, reboot(m))
           /\ "reboot" \in T => Confined(T, reboot(m))
<1> DEFINE a == Might({"raised", "failed", "shown"})
           b == Write("reboot")
<1>1. a.do = "might" /\ a.when = {"raised", "failed", "shown"} /\ a.steps = <<>>
  BY DEF Might, Step
<1>2. b.do = "write" /\ b.when = {"manager"} /\ b.steps = <<>> /\ b.heed = "report"
  BY DEF Write, Request, Step
<1> HIDE DEF a, b
<1>3. Good(T, a)
  <2>1. Careful(T, a)
    BY <1>1 DEF Careful, Endings
  <2> QED BY <1>1, <2>1, EmptyIsGood, GoodFolds
<1>4. Good(T, b)
  <2>1. Careful(T, b)
    BY <1>2 DEF Careful, Readers
  <2> QED BY <1>2, <2>1, EmptyIsGood, GoodFolds
<1>5. Within(T, a) /\ Sober(b)
  <2>1. Within(T, a)
    BY <1>1, EmptyIsGood, WithinFolds
  <2> QED BY <1>2, <2>1, SoberFolds
<1>6. reboot(m) = <<a, b>> \/ reboot(m) = <<b>>
  BY DEF reboot, IDracManager_reboot, RedfishManager_reboot, a, b
<1>7. GoodProgram(T, <<a, b>>)
  <2> DEFINE p == <<a, b>>
  <2>1. Plain(p) /\ DOMAIN p = 1 .. 2 /\ Len(p) = 2 /\ p[1] = a /\ p[2] = b
    BY <1>1, <1>2, PlainParts
  <2> HIDE DEF p
  <2>2. Sobers(p, 1)
    BY <1>5, <2>1 DEF Sobers
  <2>3. Sobers(p, 2)
    BY <2>1 DEF Sobers
  <2>4. Orderly(T, p)
    BY <2>1, <2>2, <2>3 DEF Orderly
  <2>5. \A s \in StepsOf(p) : Good(T, s)
    BY <1>3, <1>4, <2>1 DEF StepsOf
  <2>6. GoodProgram(T, p)
    BY <2>1, <2>4, <2>5 DEF GoodProgram
  <2> QED BY <2>6 DEF p
<1>8. GoodProgram(T, <<b>>)
  <2> DEFINE p == <<b>>
  <2>1. Plain(p) /\ DOMAIN p = 1 .. 1 /\ Len(p) = 1 /\ p[1] = b
    BY <1>2, PlainParts
  <2> HIDE DEF p
  <2>3. Sobers(p, 1)
    BY <2>1 DEF Sobers
  <2>4. Orderly(T, p)
    BY <2>1, <2>3 DEF Orderly
  <2>5. \A s \in StepsOf(p) : Good(T, s)
    BY <1>4, <2>1 DEF StepsOf
  <2>6. GoodProgram(T, p)
    BY <2>1, <2>4, <2>5 DEF GoodProgram
  <2> QED BY <2>6 DEF p
<1> QED BY <1>6, <1>7, <1>8, ConfinedReboot

\* sync_invoke and reboot() lose no refusal.
LEMMA EnterKeepsMemory ==
    ASSUME NEW T, Remembers(T), EnterCall
    PROVE  Remembers(T)'
<1> DEFINE step == Head(todo)
           steps == IF step.do = "call" THEN step.steps ELSE reboot(manager)
           back == [Step("return", Nothing, {}, <<>>, step.heed) EXCEPT !.fault = fault]
<1>0. /\ outcome = Nothing /\ todo # <<>> /\ step = todo[1]
      /\ todo[1].do \in {"call", "reboot"}
  BY DEF EnterCall, At
<1>1. /\ Sound(T, todo) /\ IsSeq(todo) /\ (refused \subseteq T \/ Remembered(todo, fault))
      /\ ~ Ret(todo, 1) /\ todo[1].do # "end"
  BY <1>0 DEF Remembers, Sound, Ret
<1>2. Good(T, todo[1])
  BY <1>0, <1>1, SeqFacts DEF Sound
<1>3. Careful(T, todo[1]) /\ GoodProgram(T, steps)
  BY <1>0, <1>2, GoodUnfolds, RebootIsGood
<1>4. back.do = "return" /\ back.heed = todo[1].heed /\ back.fault = fault
  <2>1. Step("return", Nothing, {}, <<>>, step.heed) \in
           [do : {"return"}, what : {Nothing}, when : {{}}, steps : {<<>>},
            heed : {step.heed}, fault : {FALSE}]
    BY DEF Step
  <2> QED BY <1>0, <2>1
<1>5. /\ todo' = steps \o <<back>> \o Tail(todo) /\ fault' = FALSE
      /\ outcome' = outcome /\ refused' = refused
  BY DEF EnterCall
<1>6. Within(T, todo[1]) => Confined(T, steps)
  BY <1>0, WithinUnfolds, RebootIsGood
<1>7. back.heed \in Heeds /\ (back.heed = "ignore" => Confined(T, steps))
  BY <1>0, <1>3, <1>4, RebootIsGood DEF Careful
<1> HIDE DEF step, steps, back
<1>8. Sound(T, todo')
  BY <1>0, <1>1, <1>3, <1>4, <1>5, <1>6, <1>7, CallIsSound
<1>9. Remembered(todo, fault) => Remembered(todo', FALSE)
  BY Zenon, <1>0, <1>1, <1>3, <1>4, <1>5, CallRemembers DEF GoodProgram
<1> QED BY Zenon, <1>0, <1>1, <1>5, <1>8, <1>9 DEF Remembers, Nothing

\* The return of a called command loses no refusal.
LEMMA LeaveKeepsMemory ==
    ASSUME NEW T, Remembers(T), LeaveCall
    PROVE  Remembers(T)'
<1>0. outcome = Nothing /\ todo # <<>> /\ Head(todo) = todo[1] /\ todo[1].do = "return"
  BY DEF LeaveCall, At
<1>1. /\ Sound(T, todo) /\ IsSeq(todo) /\ (refused \subseteq T \/ Remembered(todo, fault))
      /\ Ret(todo, 1) /\ todo[1].do # "end"
  BY <1>0 DEF Remembers, Sound, Ret
<1> DEFINE g == todo[1].fault \/ (fault /\ todo[1].heed # "ignore")
<1>2. todo' = Tail(todo) /\ outcome' = outcome /\ refused' = refused /\ fault' = g
  BY <1>0 DEF LeaveCall
<1>3. todo[1].fault \/ (fault /\ todo[1].heed # "ignore") => g
  OBVIOUS
<1> HIDE DEF g
<1>4. Sound(T, todo')
  BY <1>0, <1>1, <1>2, ReturnIsSound
<1>5. Remembered(todo, fault) => Remembered(Tail(todo), g)
  BY <1>0, <1>1, <1>3, ReturnRemembers
<1> QED BY <1>0, <1>1, <1>2, <1>4, <1>5 DEF Remembers, Nothing

\* No step of the machine loses a refusal.
LEMMA NextRemembers ==
    ASSUME NEW T, Remembers(T), manager \in Managers, DirectNext
    PROVE  Remembers(T)'
<1>h. ASSUME outcome = Nothing, todo # <<>>, ~ Ret(todo, 1)
      PROVE  Good(T, todo[1]) /\ Careful(T, todo[1])
  <2>1. Good(T, todo[1])
    BY <1>h, SeqFacts DEF Remembers, Sound
  <2> QED BY <2>1, GoodUnfolds
<1>1. CASE StopEarly \/ Return
  <2>1. /\ outcome = Nothing /\ todo # <<>> /\ todo[1].do \in {"might", "end"}
        /\ refused' = refused
    BY <1>1 DEF StopEarly, Return, At
  <2>2. PICK e \in todo[1].when : End(e)
    <3> HIDE DEF End
    <3> QED BY <1>1 DEF StopEarly, Return
  <2>3. e \in Endings /\ ~ Ret(todo, 1)
    BY <1>h, <2>1 DEF Careful, Ret
  <2>4. e \in {"shown", "preview"} => ~ Sober(todo[1])
    BY <2>1, SoberUnfolds
  <2> QED BY <2>1, <2>2, <2>3, <2>4, EndKeepsMemory
<1>2. CASE PassCheck
  <2>1. /\ outcome = Nothing /\ todo # <<>> /\ todo[1].do = "might"
        /\ refused' = refused /\ GoOn(<<>>)
    BY <1>2 DEF PassCheck, At
  <2> QED BY <2>1, SpliceKeeps DEF Ret
<1>3. CASE HandOnError
  <2>1. /\ outcome = Nothing /\ todo # <<>> /\ todo[1].do = "return_if_error"
        /\ refused' = refused /\ (GoOn(<<>>) \/ End("failed"))
    BY <1>3 DEF HandOnError, At
  <2> QED BY <2>1, SpliceKeeps, EndKeepsMemory DEF Ret, Endings
<1>4. CASE FollowTask
  <2>1. /\ outcome = Nothing /\ todo # <<>> /\ todo[1].do = "task"
        /\ refused' = refused /\ (GoOn(<<>>) \/ End("raised"))
    BY <1>4 DEF FollowTask, At
  <2> QED BY <2>1, SpliceKeeps, EndKeepsMemory DEF Ret, Endings
<1>5. CASE Branch \/ TakeOrSkip
  <2>1. /\ outcome = Nothing /\ todo # <<>> /\ todo[1].do \in {"after", "by", "maybe"}
        /\ refused' = refused /\ (GoOn(<<>>) \/ GoOn(todo[1].steps))
    BY <1>5 DEF Branch, TakeOrSkip, At
  <2> QED BY <2>1, SpliceKeeps DEF Ret
<1>6. CASE LeaveCommand
  <2>1. outcome = Nothing /\ End("ended") /\ refused' = refused
    BY <1>6 DEF LeaveCommand
  <2> QED BY <2>1, EndKeepsMemory DEF Endings
<1> QED BY <1>1, <1>2, <1>3, <1>4, <1>5, <1>6, SendKeepsMemory, EnterKeepsMemory,
           LeaveKeepsMemory DEF DirectNext

-----------------------------------------------------------------------------
(* Programs that do not lose the refusal of a request outside of T. *)

\* Steps and programs that send nothing outside of T.
QuietStep(T, s) == Good(T, s) /\ Within(T, s)
Quiet(T, p) == GoodProgram(T, p) /\ Confined(T, p)

\* Steps and programs that do not end as if nothing had happened.
FirmStep(T, s) == Good(T, s) /\ Sober(s)
Firm(T, p) == GoodProgram(T, p) /\ SoberProgram(p)

\* Two good programs are a good one if the first sends nothing outside of T or the
\* second does not end silently.
LEMMA GoodConcat ==
    ASSUME NEW T, NEW p, NEW q, GoodProgram(T, p), GoodProgram(T, q),
           Confined(T, p) \/ SoberProgram(q)
    PROVE  GoodProgram(T, p \o q)
<1> DEFINE r == p \o q
           m == Len(p)
<1>1. /\ m \in Nat /\ Len(q) \in Nat /\ Len(r) = m + Len(q)
      /\ DOMAIN p = 1 .. m /\ DOMAIN q = 1 .. Len(q) /\ DOMAIN r = 1 .. m + Len(q)
      /\ \A k \in 1 .. m : r[k] = p[k]
      /\ \A k \in 1 .. Len(q) : r[m + k] = q[k]
      /\ IsSeq(r) /\ IsSeq(p) /\ IsSeq(q)
  BY SeqFacts, ConcatFacts DEF GoodProgram, Plain
<1>2. Plain(r)
  BY PlainParts DEF GoodProgram
<1> HIDE DEF r
<1>3. Share(q, 0, r, m)
  <2>1. Len(r) = Len(q) - 0 + m /\ 0 <= Len(q)
    BY <1>1
  <2>2. \A i \in 1 .. Len(q) - 0 : q[0 + i] = r[m + i]
    BY <1>1
  <2> QED BY <1>1, <2>1, <2>2 DEF Share
<1>4. ASSUME SoberProgram(q) PROVE Sobers(r, m)
  <2> SUFFICES ASSUME NEW n \in m + 1 .. Len(r) PROVE Sober(r[n])
    BY DEF Sobers
  <2>1. n - m \in 1 .. Len(q) /\ r[m + (n - m)] = q[n - m] /\ m + (n - m) = n
    BY <1>1
  <2> QED BY <1>1, <1>4, <2>1 DEF SoberProgram, StepsOf
<1>5. ASSUME NEW i \in 1 .. m, ~ Dead(r, i), ~ Within(T, r[i]) PROVE Sobers(r, i)
  <2>1. ~ Dead(p, i) /\ r[i] = p[i]
    BY <1>1, <1>5, FrontIsDead
  <2>2. ~ Confined(T, p)
    BY SMTT(30), <1>1, <1>5, <2>1, ConfinedSteps
  <2>3. Sobers(p, i)
    BY Zenon, <1>1, <1>5, <2>1 DEF GoodProgram, Orderly, Plain, Ret
  <2>4. m <= Len(r) /\ i \in 0 .. m
    BY <1>1
  <2> QED BY <1>1, <1>4, <2>2, <2>3, <2>4, FrontIsSober
<1>6. ASSUME NEW c \in 1 .. Len(q), ~ Dead(r, m + c), ~ Within(T, r[m + c])
      PROVE  Sobers(r, m + c)
  <2>1. ~ Dead(q, c)
    <3> SUFFICES ASSUME Dead(q, c) PROVE FALSE
      OBVIOUS
    <3>1. PICK j \in 1 .. c - 1 : q[j].do = "end" /\ \A k \in j .. c : q[k].do # "return"
      BY DEF Dead
    <3>2. c \in 1 .. Len(q) - 0 /\ j \in 0 + 1 .. (0 + c) - 1 /\ 0 + c = c
      BY SMTT(30), <1>1
    <3> QED BY Zenon, <1>3, <1>6, <3>1, <3>2, ShareDead
  <2>2. Sobers(q, c)
    BY Zenon, <1>1, <1>6, <2>1 DEF GoodProgram, Orderly, Plain, Ret
  <2>3. c \in 0 .. Len(q) - 0 /\ 0 + c = c
    BY <1>1
  <2> QED BY <1>3, <2>2, <2>3, ShareSobers
<1>7. ASSUME NEW i \in DOMAIN r PROVE i \in 1 .. m \/ \E c \in 1 .. Len(q) : i = m + c
  <2>1. i \in 1 .. m \/ (i - m \in 1 .. Len(q) /\ i = m + (i - m))
    BY <1>1
  <2> QED BY <2>1
<1>8. Orderly(T, r)
  BY <1>5, <1>6, <1>7 DEF Orderly
<1>9. ASSUME NEW i \in DOMAIN r PROVE Good(T, r[i])
  <2>1. CASE i \in 1 .. m
    BY <1>1, <2>1 DEF GoodProgram, StepsOf
  <2>2. ASSUME NEW c \in 1 .. Len(q), i = m + c PROVE Good(T, r[i])
    BY <1>1, <2>2 DEF GoodProgram, StepsOf
  <2> QED BY <1>7, <2>1, <2>2
<1>10. GoodProgram(T, r)
  BY <1>2, <1>8, <1>9 DEF GoodProgram, StepsOf
<1> QED BY <1>10 DEF r

\* Two sober programs are a sober one.
LEMMA SoberConcat ==
    ASSUME NEW p, NEW q, SoberProgram(p), SoberProgram(q)
    PROVE  SoberProgram(p \o q)
<1> DEFINE r == p \o q
           m == Len(p)
<1>1. /\ m \in Nat /\ Len(q) \in Nat
      /\ DOMAIN p = 1 .. m /\ DOMAIN q = 1 .. Len(q) /\ DOMAIN r = 1 .. m + Len(q)
      /\ \A k \in 1 .. m : r[k] = p[k]
      /\ \A k \in 1 .. Len(q) : r[m + k] = q[k]
      /\ IsSeq(r)
  BY SeqFacts, ConcatFacts DEF SoberProgram
<1> HIDE DEF r
<1>2. ASSUME NEW i \in DOMAIN r PROVE Sober(r[i])
  <2>1. i \in 1 .. m \/ (i - m \in 1 .. Len(q) /\ i = m + (i - m))
    BY <1>1
  <2>2. CASE i \in 1 .. m
    BY <1>1, <2>2 DEF SoberProgram, StepsOf
  <2>3. CASE i - m \in 1 .. Len(q) /\ i = m + (i - m)
    <3>1. r[i] = q[i - m]
      BY <1>1, <2>3
    <3> QED BY <1>1, <2>3, <3>1 DEF SoberProgram, StepsOf
  <2> QED BY <2>1, <2>2, <2>3
<1>3. SoberProgram(r)
  BY <1>1, <1>2 DEF SoberProgram, StepsOf
<1> QED BY <1>3 DEF r

\* A step is a program.
LEMMA SingleStep ==
    ASSUME NEW T, NEW a, Good(T, a)
    PROVE  /\ GoodProgram(T, <<a>>)
           /\ Within(T, a) => Confined(T, <<a>>)
           /\ Sober(a) => SoberProgram(<<a>>)
<1>1. a.do # "return"
  BY GoodUnfolds DEF Careful
<1> DEFINE p == <<a>>
<1>2. Plain(p) /\ DOMAIN p = 1 .. 1 /\ Len(p) = 1 /\ p[1] = a /\ IsSeq(p)
  BY <1>1, PlainParts, TupleFacts
<1>3. Within(T, a) => Confined(T, p)
  BY Zenon, ConfinedParts
<1> HIDE DEF p
<1>4. Sobers(p, 1)
  BY <1>2 DEF Sobers
<1>5. Orderly(T, p)
  BY <1>2, <1>4 DEF Orderly
<1>6. StepsOf(p) = {a}
  BY <1>2 DEF StepsOf
<1>7. GoodProgram(T, p) /\ (Sober(a) => SoberProgram(p))
  BY <1>2, <1>5, <1>6 DEF GoodProgram, SoberProgram
<1> QED BY <1>3, <1>7 DEF p

\* Programs, put together.
LEMMA QuietAndFirmParts ==
    ASSUME NEW T
    PROVE  /\ Quiet(T, <<>>) /\ Firm(T, <<>>)
           /\ \A a : Good(T, a) => GoodProgram(T, <<a>>)
           /\ \A a : QuietStep(T, a) => Quiet(T, <<a>>)
           /\ \A a : FirmStep(T, a) => Firm(T, <<a>>)
           /\ \A p, q : Quiet(T, p) /\ GoodProgram(T, q) => GoodProgram(T, p \o q)
           /\ \A p, q : GoodProgram(T, p) /\ Firm(T, q) => GoodProgram(T, p \o q)
           /\ \A p, q : Quiet(T, p) /\ Quiet(T, q) => Quiet(T, p \o q)
           /\ \A p, q : Firm(T, p) /\ Firm(T, q) => Firm(T, p \o q)
<1>1. Quiet(T, <<>>) /\ Firm(T, <<>>)
  BY EmptyIsGood DEF Quiet, Firm
<1>2. \A a : /\ Good(T, a) => GoodProgram(T, <<a>>)
             /\ QuietStep(T, a) => Quiet(T, <<a>>)
             /\ FirmStep(T, a) => Firm(T, <<a>>)
  BY Zenon, SingleStep DEF Quiet, Firm, QuietStep, FirmStep
<1>3. ASSUME NEW p, NEW q
      PROVE  /\ Quiet(T, p) /\ GoodProgram(T, q) => GoodProgram(T, p \o q)
             /\ GoodProgram(T, p) /\ Firm(T, q) => GoodProgram(T, p \o q)
  BY GoodConcat DEF Quiet, Firm
<1>4. ASSUME NEW p, NEW q
      PROVE  /\ Quiet(T, p) /\ Quiet(T, q) => Quiet(T, p \o q)
             /\ Firm(T, p) /\ Firm(T, q) => Firm(T, p \o q)
  BY Zenon, GoodConcat, SoberConcat, ConfinedParts DEF Quiet, Firm
<1> QED BY <1>1, <1>2, <1>3, <1>4

\* Programs written as tuples.
LEMMA QuietAndFirmTuples ==
    ASSUME NEW T
    PROVE  /\ \A a, b : QuietStep(T, a) /\ QuietStep(T, b) => Quiet(T, <<a, b>>)
           /\ \A a, b : FirmStep(T, a) /\ FirmStep(T, b) => Firm(T, <<a, b>>)
           /\ \A a, b, c : QuietStep(T, a) /\ QuietStep(T, b) /\ QuietStep(T, c)
                           => Quiet(T, <<a, b, c>>)
           /\ \A a, b, c : FirmStep(T, a) /\ FirmStep(T, b) /\ FirmStep(T, c)
                           => Firm(T, <<a, b, c>>)
           /\ \A a, b, c, d : FirmStep(T, a) /\ FirmStep(T, b) /\ FirmStep(T, c)
                              /\ FirmStep(T, d) => Firm(T, <<a, b, c, d>>)
<1>1. ASSUME NEW a, NEW b PROVE <<a, b>> = <<a>> \o <<b>>
  <2> DEFINE p == <<a>>
             q == <<b>>
             r == <<a, b>>
             S == {a, b}
  <2>1. p \in Seq(S) /\ Len(p) = 1 /\ p[1] = a
    OBVIOUS
  <2>2. q \in Seq(S) /\ Len(q) = 1 /\ q[1] = b
    OBVIOUS
  <2>3. r \in Seq(S) /\ Len(r) = 2 /\ r[1] = a /\ r[2] = b
    OBVIOUS
  <2> HIDE DEF p, q, r
  <2>4. p \o q \in Seq(S) /\ Len(p \o q) = 2 /\ (p \o q)[1] = a /\ (p \o q)[2] = b
    <3>1. IsSeq(p) /\ IsSeq(q) /\ p \o q \in Seq(S)
      BY <2>1, <2>2 DEF IsSeq
    <3>2. (p \o q)[1] = p[1] /\ (p \o q)[1 + 1] = q[1] /\ Len(p \o q) = 1 + 1
      <4>1. /\ Len(p \o q) = Len(p) + Len(q)
            /\ \A i \in 1 .. Len(p) : (p \o q)[i] = p[i]
            /\ \A i \in 1 .. Len(q) : (p \o q)[Len(p) + i] = q[i]
        BY <3>1, ConcatFacts
      <4>2. 1 \in 1 .. 1 /\ Len(p) = 1 /\ Len(q) = 1
        BY <2>1, <2>2
      <4> QED BY <4>1, <4>2
    <3> QED BY <2>1, <2>2, <3>1, <3>2
  <2>5. \A i \in 1 .. 2 : (p \o q)[i] = r[i]
    BY <2>3, <2>4
  <2>6. p \o q = r
    BY <2>3, <2>4, <2>5
  <2> QED BY Zenon, <2>6 DEF p, q, r
<1>2. \A a, b, c : <<a, b, c>> = <<a, b>> \o <<c>>
  OBVIOUS
<1>3. \A a, b, c, d : <<a, b, c, d>> = <<a, b, c>> \o <<d>>
  OBVIOUS
<1>4. \A a, b : /\ QuietStep(T, a) /\ QuietStep(T, b) => Quiet(T, <<a, b>>)
                /\ FirmStep(T, a) /\ FirmStep(T, b) => Firm(T, <<a, b>>)
  BY Zenon, <1>1, QuietAndFirmParts
<1>5. \A a, b, c : /\ QuietStep(T, a) /\ QuietStep(T, b) /\ QuietStep(T, c)
                         => Quiet(T, <<a, b, c>>)
                   /\ FirmStep(T, a) /\ FirmStep(T, b) /\ FirmStep(T, c)
                         => Firm(T, <<a, b, c>>)
  BY Zenon, <1>2, <1>4, QuietAndFirmParts
<1>6. \A a, b, c, d : FirmStep(T, a) /\ FirmStep(T, b) /\ FirmStep(T, c) /\ FirmStep(T, d)
                         => Firm(T, <<a, b, c, d>>)
  BY Zenon, <1>3, <1>5, QuietAndFirmParts
<1> QED BY <1>4, <1>5, <1>6

\* The steps from which programs are written: what they may send and how they
\* may end.
LEMMA QuietAndFirmSteps ==
    ASSUME NEW T
    PROVE  /\ \A endings \in SUBSET Endings : QuietStep(T, Might(endings))
           /\ \A endings \in SUBSET {"raised", "failed"} : FirmStep(T, Might(endings))
           /\ \A ending \in Endings : Quiet(T, Ends(ending))
           /\ \A ending \in {"raised", "failed"} : Firm(T, Ends(ending))
           /\ QuietStep(T, ReturnIfError) /\ FirmStep(T, ReturnIfError)
           /\ QuietStep(T, FetchTask) /\ FirmStep(T, FetchTask)
           /\ \A what \in T : \A by, heed : QuietStep(T, Request(what, by, heed))
                                        /\ FirmStep(T, Request(what, by, heed))
           /\ \A what : \A by \in Readers : FirmStep(T, Request(what, by, "report"))
           /\ \A replies, p : /\ Quiet(T, p) => QuietStep(T, After(replies, p))
                              /\ Firm(T, p) => FirmStep(T, After(replies, p))
           /\ \A p : /\ Quiet(T, p) => QuietStep(T, Maybe(p))
                     /\ Firm(T, p) => FirmStep(T, Maybe(p))
           /\ \A m, p : /\ Quiet(T, p) => QuietStep(T, By(m, p))
                        /\ Firm(T, p) => FirmStep(T, By(m, p))
           /\ \A p : \A heed \in {"report", "catch"} :
                 GoodProgram(T, p) => FirmStep(T, Run(p, heed))
           /\ \A p : \A heed \in Heeds :
                 Quiet(T, p) => QuietStep(T, Run(p, heed)) /\ FirmStep(T, Run(p, heed))
           /\ FirmStep(T, Reboot("catch"))
           /\ "reboot" \in T =>
                 \A heed \in Heeds : QuietStep(T, Reboot(heed)) /\ FirmStep(T, Reboot(heed))
<1> USE DEF Step
<1>e. GoodProgram(T, <<>>) /\ Confined(T, <<>>) /\ SoberProgram(<<>>)
  BY EmptyIsGood
<1>1. ASSUME NEW s, s.steps = <<>>, Careful(T, s)
      PROVE  Good(T, s)
  BY <1>1, <1>e, GoodFolds
<1>2. ASSUME NEW s, s.do \notin {"write", "reboot"}, Confined(T, s.steps)
      PROVE  Within(T, s)
  BY <1>2, WithinFolds
<1>3. ASSUME NEW s, s.do \notin {"might", "end", "after", "by", "maybe"} PROVE Sober(s)
  BY <1>3, SoberFolds
<1>4. ASSUME NEW endings \in SUBSET Endings
      PROVE  /\ QuietStep(T, Might(endings))
             /\ endings \subseteq {"raised", "failed"} => FirmStep(T, Might(endings))
  <2> DEFINE s == Might(endings)
  <2>1. s.do = "might" /\ s.when = endings /\ s.steps = <<>>
    BY DEF Might
  <2> HIDE DEF s
  <2>2. Careful(T, s)
    BY <2>1 DEF Careful
  <2>3. endings \subseteq {"raised", "failed"} => Sober(s)
    BY <2>1, SoberFolds
  <2>4. QuietStep(T, s) /\ (endings \subseteq {"raised", "failed"} => FirmStep(T, s))
    BY <1>1, <1>2, <1>e, <2>1, <2>2, <2>3 DEF QuietStep, FirmStep
  <2> QED BY <2>4 DEF s
<1>5. ASSUME NEW ending \in Endings
      PROVE  /\ Quiet(T, Ends(ending))
             /\ ending \in {"raised", "failed"} => Firm(T, Ends(ending))
  <2> DEFINE s == Step("end", Nothing, {ending}, <<>>, Nothing)
  <2>1. s.do = "end" /\ s.when = {ending} /\ s.steps = <<>> /\ Ends(ending) = <<s>>
    BY DEF Ends
  <2> HIDE DEF s
  <2>2. Careful(T, s)
    BY <2>1 DEF Careful
  <2>3. ending \in {"raised", "failed"} => Sober(s)
    BY <2>1, SoberFolds
  <2>4. QuietStep(T, s) /\ (ending \in {"raised", "failed"} => FirmStep(T, s))
    BY <1>1, <1>2, <1>e, <2>1, <2>2, <2>3 DEF QuietStep, FirmStep
  <2> QED BY Zenon, <2>1, <2>4, QuietAndFirmParts
<1>6. /\ QuietStep(T, ReturnIfError) /\ FirmStep(T, ReturnIfError)
      /\ QuietStep(T, FetchTask) /\ FirmStep(T, FetchTask)
  <2>1. ASSUME NEW s \in {ReturnIfError, FetchTask}
        PROVE  QuietStep(T, s) /\ FirmStep(T, s)
    <3>1. s.do \in {"return_if_error", "task"} /\ s.steps = <<>>
      BY <2>1 DEF ReturnIfError, FetchTask
    <3>2. Careful(T, s)
      BY <3>1 DEF Careful
    <3> QED BY <1>1, <1>2, <1>3, <1>e, <3>1, <3>2 DEF QuietStep, FirmStep
  <2> QED BY <2>1
<1>7. ASSUME NEW what, NEW by, NEW heed
      PROVE  /\ what \in T => /\ QuietStep(T, Request(what, by, heed))
                              /\ FirmStep(T, Request(what, by, heed))
             /\ by \in Readers /\ heed = "report" => FirmStep(T, Request(what, by, heed))
  <2> DEFINE s == Request(what, by, heed)
  <2>1. s.do = "write" /\ s.when = {by} /\ s.steps = <<>> /\ s.what = what /\ s.heed = heed
    BY DEF Request
  <2> HIDE DEF s
  <2>2. what \in T \/ (by \in Readers /\ heed = "report") => Careful(T, s)
    BY <2>1 DEF Careful
  <2>3. what \in T => Within(T, s)
    BY <1>e, <2>1, WithinFolds
  <2>4. /\ what \in T => QuietStep(T, s) /\ FirmStep(T, s)
        /\ by \in Readers /\ heed = "report" => FirmStep(T, s)
    BY <1>1, <1>3, <2>1, <2>2, <2>3 DEF QuietStep, FirmStep
  <2> QED BY <2>4 DEF s
<1>8. ASSUME NEW p, NEW s, s.do \in {"after", "by", "maybe"}, s.steps = p
      PROVE  /\ Quiet(T, p) => QuietStep(T, s)
             /\ Firm(T, p) => FirmStep(T, s)
  <2>1. Careful(T, s)
    BY <1>8 DEF Careful
  <2>2. GoodProgram(T, p) => Good(T, s)
    BY <1>8, <2>1, GoodFolds
  <2>3. SoberProgram(p) => Sober(s)
    BY <1>8, SoberFolds
  <2> QED BY <1>2, <1>8, <2>2, <2>3 DEF Quiet, Firm, QuietStep, FirmStep
<1>9. ASSUME NEW p
      PROVE  /\ \A replies : After(replies, p).do = "after" /\ After(replies, p).steps = p
             /\ Maybe(p).do = "maybe" /\ Maybe(p).steps = p
             /\ \A m : By(m, p).do = "by" /\ By(m, p).steps = p
  BY DEF After, Maybe, By
<1>10. ASSUME NEW p, NEW heed \in Heeds
       PROVE  /\ heed # "ignore" /\ GoodProgram(T, p) => FirmStep(T, Run(p, heed))
              /\ Quiet(T, p) => QuietStep(T, Run(p, heed)) /\ FirmStep(T, Run(p, heed))
  <2> DEFINE s == Run(p, heed)
  <2>1. s.do = "call" /\ s.steps = p /\ s.heed = heed
    BY DEF Run
  <2> HIDE DEF s
  <2>2. heed # "ignore" \/ Confined(T, p) => Careful(T, s)
    BY <2>1 DEF Careful
  <2>3. /\ heed # "ignore" /\ GoodProgram(T, p) => FirmStep(T, s)
        /\ Quiet(T, p) => QuietStep(T, s) /\ FirmStep(T, s)
    BY <1>2, <1>3, <2>1, <2>2, GoodFolds DEF Quiet, QuietStep, FirmStep
  <2> QED BY <2>3 DEF s
<1>11. ASSUME NEW heed \in Heeds
       PROVE  /\ heed # "ignore" => FirmStep(T, Reboot(heed))
              /\ "reboot" \in T => QuietStep(T, Reboot(heed)) /\ FirmStep(T, Reboot(heed))
  <2> DEFINE s == Reboot(heed)
  <2>1. s.do = "reboot" /\ s.steps = <<>> /\ s.heed = heed
    BY DEF Reboot
  <2> HIDE DEF s
  <2>2. heed # "ignore" \/ "reboot" \in T => Careful(T, s)
    BY <2>1 DEF Careful
  <2>3. "reboot" \in T => Within(T, s)
    BY <1>e, <2>1, WithinFolds
  <2>4. /\ heed # "ignore" => FirmStep(T, s)
        /\ "reboot" \in T => QuietStep(T, s) /\ FirmStep(T, s)
    BY <1>1, <1>3, <2>1, <2>2, <2>3 DEF QuietStep, FirmStep
  <2> QED BY <2>4 DEF s
<1>12. {"raised", "failed"} \subseteq Endings /\ {"report", "catch"} \subseteq Heeds
       /\ "ignore" \notin {"report", "catch"}
  BY DEF Endings, Heeds
<1>13. /\ \A endings \in SUBSET Endings : QuietStep(T, Might(endings))
       /\ \A endings \in SUBSET {"raised", "failed"} : FirmStep(T, Might(endings))
       /\ \A ending \in Endings : Quiet(T, Ends(ending))
       /\ \A ending \in {"raised", "failed"} : Firm(T, Ends(ending))
  BY Zenon, <1>4, <1>5, <1>12
<1>14. /\ \A what \in T : \A by, heed : QuietStep(T, Request(what, by, heed))
                                    /\ FirmStep(T, Request(what, by, heed))
       /\ \A what : \A by \in Readers : FirmStep(T, Request(what, by, "report"))
  BY <1>7
<1>15. /\ \A replies, p : /\ Quiet(T, p) => QuietStep(T, After(replies, p))
                          /\ Firm(T, p) => FirmStep(T, After(replies, p))
       /\ \A p : /\ Quiet(T, p) => QuietStep(T, Maybe(p))
                 /\ Firm(T, p) => FirmStep(T, Maybe(p))
       /\ \A m, p : /\ Quiet(T, p) => QuietStep(T, By(m, p))
                    /\ Firm(T, p) => FirmStep(T, By(m, p))
  BY <1>8, <1>9
<1>16. /\ \A p : \A heed \in {"report", "catch"} :
             GoodProgram(T, p) => FirmStep(T, Run(p, heed))
       /\ \A p : \A heed \in Heeds :
             Quiet(T, p) => QuietStep(T, Run(p, heed)) /\ FirmStep(T, Run(p, heed))
  BY <1>10, <1>12
<1>17. /\ FirmStep(T, Reboot("catch"))
       /\ "reboot" \in T =>
             \A heed \in Heeds : QuietStep(T, Reboot(heed)) /\ FirmStep(T, Reboot(heed))
  BY <1>11 DEF Heeds
<1> QED BY Zenon, <1>6, <1>13, <1>14, <1>15, <1>16, <1>17

\* A program that is confined to T is confined to more than T.
LEMMA ConfinedGrows ==
    ASSUME NEW T, NEW U, T \subseteq U, NEW p, Confined(T, p)
    PROVE  Confined(U, p)
<1>1. ASSUME NEW s, Within(T, s) PROVE Within(U, s)
  <2>1. PICK C : Closed(T, C) /\ s \in C
    BY <1>1 DEF Within
  <2>2. Closed(U, C)
    BY <2>1 DEF Closed
  <2> QED BY <2>1, <2>2 DEF Within
<1> QED BY <1>1 DEF Confined

-----------------------------------------------------------------------------
(* A request that waits for an earlier one. *)

\* A step, and the steps behind it.
Then(s, p) == <<s>> \o p

\* The first step of such a program, and its place in a longer one.
LEMMA ThenFacts ==
    ASSUME NEW s, NEW p, IsSeq(p)
    PROVE  /\ IsSeq(Then(s, p)) /\ Then(s, p) # <<>>
           /\ Head(Then(s, p)) = s /\ Tail(Then(s, p)) = p
           /\ s.do # "return" /\ Plain(p) => Plain(Then(s, p))
<1>1. IsSeq(<<s>>) /\ <<s>> # <<>> /\ Head(<<s>>) = s /\ Tail(<<s>>) = <<>>
  BY TupleFacts
<1>2. /\ IsSeq(<<s>> \o p) /\ <<s>> \o p # <<>>
      /\ Head(<<s>> \o p) = s /\ Tail(<<s>> \o p) = <<>> \o p
  BY Zenon, <1>1, FrontFacts, ConcatFacts
<1>3. <<>> \o p = p
  BY ConcatNone
<1>4. s.do # "return" /\ Plain(p) => Plain(<<s>> \o p)
  BY Zenon, PlainParts
<1> QED BY <1>2, <1>3, <1>4 DEF Then

\* In a called command it goes back to the caller, or drops all that is left.
LEMMA EndInCall ==
    ASSUME NEW c, NEW back, NEW k, NEW ending, Plain(c), Plain(k), back.do = "return",
           todo = c \o Then(back, k), End(ending)
    PROVE  \/ todo' = <<>>
           \/ /\ todo' = Then(back, k)
              /\ fault' = (ending \in {"raised", "failed"} \/ (ending = "ended" /\ fault))
<1> DEFINE a == c \o <<back>>
<1>0. IsSeq(c) /\ IsSeq(k) /\ IsSeq(<<back>>) /\ Len(<<back>>) = 1
      /\ \A i \in 1 .. Len(c) : c[i].do # "return"
  BY TupleFacts, SeqFacts DEF Plain
<1>1. c \o (<<back>> \o k) = a \o k
  BY <1>0, ConcatAssoc
<1>2. IsSeq(a) /\ todo = a \o k
  BY <1>0, <1>1, ConcatFacts DEF Then
<1>3. Len(c) \in Nat /\ Len(a) = Len(c) + 1 /\ \A i \in 1 .. Len(c) : a[i] = c[i]
  BY <1>0, ConcatFacts, SeqFacts
<1>4. SubSeq(a, Len(a), Len(a)) = <<back>>
  <2>1. a[Len(a)] = back
    BY <1>0, <1>3, ConcatFacts
  <2> DEFINE n == Len(a)
             r == SubSeq(a, n, Len(a))
  <2> HIDE DEF a
  <2>n. n \in 1 .. Len(a) /\ n = Len(a) /\ n \in Nat
    BY <1>3
  <2> HIDE DEF n
  <2>r. /\ IsSeq(r) /\ Len(r) = Len(a) - n + 1
        /\ \A i \in 1 .. Len(a) - n + 1 : r[i] = a[n + i - 1]
    BY <1>2, <2>n, RestFacts
  <2> HIDE DEF r
  <2>2. IsSeq(r) /\ Len(r) = 1 /\ r[1] = back
    BY <2>1, <2>n, <2>r
  <2>3. r = <<r[1]>>
    BY <2>2 DEF IsSeq
  <2> QED BY <2>n, <2>2, <2>3 DEF r
<1>5. ASSUME NEW i \in 1 .. Len(a), a[i].do = "return", todo' = SubSeq(a, i, Len(a)) \o k
      PROVE  todo' = <<back>> \o k
  <2>1. i = Len(a)
    BY <1>0, <1>3, <1>5
  <2> QED BY <1>4, <1>5, <2>1
<1> HIDE DEF a
<1>6. todo' = <<>> \/ todo' = Then(back, k)
  BY Zenon, <1>2, <1>5, EndInFront DEF Then
<1>7. Then(back, k) # <<>>
  BY <1>0, ThenFacts
<1>8. CASE todo' = Then(back, k)
  BY <1>7, <1>8, Zenon DEF End
<1> QED BY <1>6, <1>8

\* Steps that never make the request x.
Without(x, p) == \E T : x \notin T /\ Confined(T, p)

\* What is left of a called command that makes the request x and follows it.
Called(x, c) ==
    \/ \E endings : c = <<Might(endings)>> \o WriteAndWatch(x)
    \/ c = WriteAndWatch(x)

\* The places where a program waits for x: it makes the request, or calls a
\* command that does, or may do so, and hands an error on before anything else.
Gate(x, k) ==
    \E b : /\ Plain(b) /\ Without(x, b)
           /\ \/ k = Then(Write(x), Then(ReturnIfError, b))
              \/ \E endings : \E heed \in {"report", "catch"} :
                    LET run == Run(<<Might(endings)>> \o WriteAndWatch(x), heed) IN
                    \/ k = Then(run, Then(ReturnIfError, b))
                    \/ k = Then(Maybe(<<run, ReturnIfError>>), b)

\* The call behind which a program waits is in progress: there is its return,
\* and the error that it comes to is handed on.
Waiting(x, k) ==
    \E back, b : /\ back.do = "return" /\ back.heed \in {"report", "catch"}
                 /\ Plain(b) /\ Without(x, b)
                 /\ k = Then(back, Then(ReturnIfError, b))

\* The request y waits for x.  Either x was not refused and is not made again;
\* or y was not made, and
\*   nothing is left to do,
\*   x was not made either, and the program is in front of the gate,
\*   or in the call that makes it,
\*   or behind that, and it knows of a refusal.
Heeded(x, y) ==
    \/ x \notin refused /\ Without(x, todo)
    \/ /\ y \notin Sent
       /\ \/ todo = <<>>
          \/ x \notin Sent /\ \E a, k : Confined({}, a) /\ Gate(x, k) /\ todo = a \o k
          \/ x \notin Sent /\ \E c, k : Called(x, c) /\ Waiting(x, k) /\ todo = c \o k
          \/ (x \in refused => fault) /\ \E k : Waiting(x, k) /\ todo = Then(FetchTask, k)
          \/ (x \in refused => fault) /\ Waiting(x, todo)
          \/ /\ x \in refused => answer = "error"
             /\ \E b : Plain(b) /\ Without(x, b) /\ todo = Then(ReturnIfError, b)

\* The steps at the gate, and what a program of them looks like.
LEMMA GateFacts ==
    /\ ReturnIfError.do = "return_if_error" /\ FetchTask.do = "task"
    /\ \A endings : Might(endings).do = "might"
    /\ \A x : /\ Write(x).do = "write" /\ Write(x).what = x /\ Write(x).heed = "report"
              /\ Write(x).when = {"manager"}
    /\ \A p, heed : /\ Run(p, heed).do = "call" /\ Run(p, heed).steps = p
                    /\ Run(p, heed).heed = heed
    /\ \A p : Maybe(p).do = "maybe" /\ Maybe(p).steps = p
    /\ \A m, p : After(m, p).do = "after" /\ After(m, p).steps = p /\ After(m, p).when = m
BY DEF ReturnIfError, FetchTask, Might, Write, Request, Run, Maybe, After, Step

\* The kinds of steps exclude each other: what is next decides what is done.
LEMMA NextByHead ==
    ASSUME DirectNext, todo # <<>>
    PROVE  /\ Head(todo).do = "might" => StopEarly \/ PassCheck
           /\ Head(todo).do = "return_if_error" => HandOnError
           /\ Head(todo).do = "write" => Send
           /\ Head(todo).do = "task" => FollowTask
           /\ Head(todo).do = "after" => Branch
           /\ Head(todo).do = "maybe" => TakeOrSkip
           /\ Head(todo).do = "call" => EnterCall
           /\ Head(todo).do = "return" => LeaveCall
BY Zenon
   DEF DirectNext, StopEarly, PassCheck, Return, HandOnError, Send, FollowTask, Branch,
   TakeOrSkip, EnterCall, LeaveCall, LeaveCommand, At

\* The same for the steps at the gate.
LEMMA NextByStep ==
    ASSUME DirectNext, todo # <<>>
    PROVE  /\ \A endings : Head(todo) = Might(endings) => StopEarly \/ PassCheck
           /\ Head(todo) = ReturnIfError => HandOnError
           /\ \A x : Head(todo) = Write(x) => Send
           /\ Head(todo) = FetchTask => FollowTask
           /\ \A p : Head(todo) = Maybe(p) => TakeOrSkip /\ Head(todo).steps = p
           /\ \A m, p : Head(todo) = After(m, p) =>
                 Branch /\ Head(todo).do = "after" /\ Head(todo).when = m
BY SMTT(30), NextByHead, GateFacts

\* What goes behind a gate, or a call, is a sequence.
LEMMA GateShapes ==
    /\ \A x, k : Gate(x, k) => Plain(k) /\ k # <<>>
    /\ \A x, k : Waiting(x, k) => IsSeq(k)
    /\ \A x, c : Called(x, c) => Plain(c) /\ c # <<>>
<1>1. ASSUME NEW x, NEW k, Gate(x, k) PROVE Plain(k) /\ k # <<>>
  <2>1. PICK b : /\ Plain(b)
                 /\ \/ \E s : s.do # "return" /\ k = Then(s, Then(ReturnIfError, b))
                    \/ \E s : s.do # "return" /\ k = Then(s, b)
    BY Zenon, <1>1, PlainSteps DEF Gate
  <2>2. IsSeq(b) /\ ReturnIfError.do # "return"
    BY SMTT(30), <2>1, PlainSteps DEF Plain
  <2>3. Plain(Then(ReturnIfError, b)) /\ IsSeq(Then(ReturnIfError, b))
    BY <2>1, <2>2, ThenFacts
  <2> QED BY <2>1, <2>2, <2>3, ThenFacts
<1>2. ASSUME NEW x, NEW k, Waiting(x, k) PROVE IsSeq(k)
  BY <1>2, ThenFacts DEF Waiting, Plain
<1>3. ASSUME NEW x, NEW c, Called(x, c) PROVE Plain(c) /\ c # <<>>
  <2>1. Plain(WriteAndWatch(x)) /\ WriteAndWatch(x) # <<>>
    BY PlainSteps DEF WriteAndWatch
  <2>2. ASSUME NEW s, s.do # "return"
        PROVE  Plain(<<s>> \o WriteAndWatch(x)) /\ <<s>> \o WriteAndWatch(x) # <<>>
    BY <2>1, <2>2, ThenFacts DEF Then, Plain
  <2>3. \A endings : Might(endings).do # "return"
    BY PlainSteps
  <2> QED BY Zenon, <1>3, <2>1, <2>2, <2>3 DEF Called
<1> QED BY <1>1, <1>2, <1>3

\* A request whose answer is reported: a refusal is an error or an exception,
\* and a plain "ok" means that the BMC took it.
LEMMA SendOne ==
    ASSUME NEW x, todo # <<>>, Head(todo) = Write(x), Send, manager \in Managers
    PROVE  /\ taken \subseteq taken' /\ taken' \subseteq taken \cup {x}
           /\ refused' \subseteq refused \cup {x}
           /\ answer' = "ok" => x \in taken'
           /\ \/ End("raised")
              \/ /\ todo' = Tail(todo)
                 /\ x \in refused' => x \in refused \/ (answer' = "error" /\ fault')
<1>1. Head(todo).what = x /\ Head(todo).heed = "report" /\ Head(todo).when = {"manager"}
  BY GateFacts
<1>2. PICK reply \in Replies : \E came :
         /\ came = Answer("manager", manager, reply)
         /\ IF Success(reply.status)
            THEN taken' = taken \cup {x} /\ refused' = refused
            ELSE refused' = refused \cup {x} /\ taken' = taken
         /\ answer' = came
         /\ IF came = "raised" THEN End("raised")
            ELSE todo' = Tail(todo) /\ fault' = (fault \/ came = "error")
  BY Zenon, <1>1 DEF Send
<1>3. PICK came :
         /\ came = Answer("manager", manager, reply)
         /\ IF Success(reply.status)
            THEN taken' = taken \cup {x} /\ refused' = refused
            ELSE refused' = refused \cup {x} /\ taken' = taken
         /\ answer' = came
         /\ IF came = "raised" THEN End("raised")
            ELSE todo' = Tail(todo) /\ fault' = (fault \/ came = "error")
  BY <1>2
<1>4. ~ Success(reply.status) => came \in {"error", "raised"}
  BY <1>3, RefusalIsNoticed DEF Managers, Readers
<1>5. /\ taken \subseteq taken' /\ taken' \subseteq taken \cup {x}
      /\ refused' \subseteq refused \cup {x}
      /\ came = "ok" => x \in taken'
      /\ x \in refused' => x \in refused \/ came \in {"error", "raised"}
  <2>1. CASE Success(reply.status)
    BY <1>3, <2>1
  <2>2. CASE ~ Success(reply.status)
    BY <1>3, <1>4, <2>2
  <2> QED BY <2>1, <2>2
<1>6. CASE came = "raised"
  BY <1>3, <1>5, <1>6
<1>7. CASE came # "raised"
  <2>1. todo' = Tail(todo) /\ fault' = (fault \/ came = "error") /\ answer' = came
    BY <1>3, <1>7
  <2>2. came = "error" => fault'
    BY Zenon, <2>1
  <2> QED BY <1>5, <1>7, <2>1, <2>2
<1> QED BY <1>6, <1>7

\* Two steps, one after the other.
LEMMA PairIsConcat == \A s, t : <<s>> \o <<t>> = <<s, t>>
<1> TAKE s, t
<1>1. <<s>> \in Seq({s, t}) /\ <<t>> \in Seq({s, t}) /\ <<s, t>> \in Seq({s, t})
  OBVIOUS
<1>2. Len(<<s>> \o <<t>>) = 2 /\ (<<s>> \o <<t>>)[1] = s /\ (<<s>> \o <<t>>)[2] = t
  BY <1>1
<1>3. \A p \in Seq({s, t}) : Len(p) = 2 => p = <<p[1], p[2]>>
  OBVIOUS
<1>4. PICK p : p = <<s>> \o <<t>>
  BY Zenon
<1>5. p \in Seq({s, t}) /\ Len(p) = 2 /\ p[1] = s /\ p[2] = t
  BY <1>1, <1>2, <1>4
<1>6. p = <<p[1], p[2]>>
  BY <1>3, <1>5
<1> QED BY Zenon, <1>4, <1>5, <1>6

\* In front of the gate.
LEMMA BeforeGate ==
    ASSUME NEW x, NEW y, x # y, NEW a, NEW k, Confined({}, a), Gate(x, k), todo = a \o k,
           x \notin Sent, y \notin Sent, manager \in Managers, DirectNext
    PROVE  Heeded(x, y)'
<1>0. Plain(k) /\ IsSeq(k) /\ k # <<>>
  BY GateShapes DEF Plain
<1>1. CASE a # <<>>
  <2>1. /\ taken' \subseteq taken \cup {} /\ refused' \subseteq refused \cup {}
        /\ todo' = <<>> \/ \E b : Confined({}, b) /\ todo' = b \o k
    BY Zenon, <1>0, <1>1, FrontStep
  <2>2. x \notin Sent' /\ y \notin Sent'
    BY <2>1 DEF Sent
  <2> QED BY Zenon, <2>1, <2>2 DEF Heeded
<1>2. CASE a = <<>>
  <2>0. todo = k
    BY <1>0, <1>2, ConcatNone
  <2>c. Confined({}, <<>>)
    BY ConfinedParts
  <2>1. PICK b : /\ Plain(b) /\ Without(x, b)
                 /\ \/ k = Then(Write(x), Then(ReturnIfError, b))
                    \/ \E endings : \E heed \in {"report", "catch"} :
                          LET run == Run(<<Might(endings)>> \o WriteAndWatch(x), heed) IN
                          \/ k = Then(run, Then(ReturnIfError, b))
                          \/ k = Then(Maybe(<<run, ReturnIfError>>), b)
    BY Zenon DEF Gate
  <2>2. IsSeq(b) /\ Plain(Then(ReturnIfError, b)) /\ IsSeq(Then(ReturnIfError, b))
    BY <2>1, ThenFacts, PlainSteps DEF Plain
  <2>3. CASE k = Then(Write(x), Then(ReturnIfError, b))
    <3>1. Head(todo) = Write(x) /\ todo # <<>> /\ Tail(todo) = Then(ReturnIfError, b)
      BY <2>0, <2>2, <2>3, ThenFacts
    <3>2. Send
      BY ZenonT(30), <3>1, NextByStep
    <3>3. y \notin Sent'
      BY <3>1, <3>2, SendOne DEF Sent
    <3>4. ASSUME End("raised") PROVE todo' = <<>>
      BY <1>0, <2>0, <3>4, EndPlain
    <3>5. todo' = <<>> \/ (todo' = Then(ReturnIfError, b) /\ (x \in refused' => answer' = "error"))
      BY Zenon, <3>1, <3>2, <3>4, SendOne DEF Sent
    <3> QED BY Zenon, <2>1, <3>3, <3>5 DEF Heeded
  <2>4. ASSUME NEW endings, NEW heed \in {"report", "catch"}, NEW run,
               run = Run(<<Might(endings)>> \o WriteAndWatch(x), heed),
               k = Then(run, Then(ReturnIfError, b))
        PROVE  Heeded(x, y)'
    <3> DEFINE c == <<Might(endings)>> \o WriteAndWatch(x)
               r == Then(ReturnIfError, b)
    <3>1. Head(todo) = run /\ todo # <<>> /\ Tail(todo) = r
      BY <2>0, <2>2, <2>4, ThenFacts
    <3>r. run = Run(c, heed)
      BY <2>4
    <3> HIDE DEF c
    <3>2. run.do = "call" /\ run.steps = c /\ run.heed = heed
      BY <3>r, GateFacts
    <3>3. EnterCall
      BY <3>1, <3>2, NextByHead
    <3>4. PICK back : back.do = "return" /\ back.heed = heed /\ todo' = (c \o <<back>>) \o r
      <4> DEFINE back == [Step("return", Nothing, {}, <<>>, run.heed) EXCEPT !.fault = fault]
      <4>1. back.do = "return" /\ back.heed = heed
        BY <3>2 DEF Step
      <4>2. todo' = (c \o <<back>>) \o r
        BY Zenon, <3>1, <3>2, <3>3 DEF EnterCall
      <4> HIDE DEF back
      <4> QED BY Zenon, <4>1, <4>2
    <3>5. Called(x, c) /\ IsSeq(c)
      BY Zenon, GateShapes DEF Called, c, Plain
    <3>6. c \o (<<back>> \o r) = (c \o <<back>>) \o r
      BY SMTT(30), <2>2, <3>5, ConcatAssoc, TupleFacts
    <3>7. Waiting(x, Then(back, r))
      BY Zenon, <2>1, <3>4, <2>4 DEF Waiting
    <3>8. x \notin Sent' /\ y \notin Sent'
      BY Zenon, <3>3 DEF EnterCall, Sent
    <3>9. todo' = c \o Then(back, r)
      BY <3>4, <3>6 DEF Then
    <3> QED BY Zenon, <3>5, <3>7, <3>8, <3>9 DEF Heeded
  <2>5. ASSUME NEW endings, NEW heed \in {"report", "catch"}, NEW run,
               run = Run(<<Might(endings)>> \o WriteAndWatch(x), heed),
               k = Then(Maybe(<<run, ReturnIfError>>), b)
        PROVE  Heeded(x, y)'
    <3> DEFINE steps == <<run, ReturnIfError>>
    <3>1. Head(todo) = Maybe(steps) /\ todo # <<>> /\ Tail(todo) = b
      BY Zenon, <2>0, <2>2, <2>5, ThenFacts
    <3>2. TakeOrSkip /\ Head(todo).steps = steps
      BY ZenonT(30), <3>1, NextByStep
    <3>3. UNCHANGED <<taken, refused>> /\ (todo' = steps \o b \/ todo' = <<>> \o b)
      BY Zenon, <3>1, <3>2 DEF TakeOrSkip, GoOn
    <3>4. x \notin Sent' /\ y \notin Sent' /\ x \notin refused'
      BY SMTT(30), <3>3 DEF Sent
    <3>5. CASE todo' = <<>> \o b
      BY Zenon, <2>1, <2>2, <3>4, <3>5, ConcatNone DEF Heeded
    <3>6. CASE todo' = steps \o b
      <4>1. <<run>> \o (<<ReturnIfError>> \o b) = (<<run>> \o <<ReturnIfError>>) \o b
        BY <2>2, ConcatAssoc, TupleFacts
      <4>2. <<run>> \o <<ReturnIfError>> = steps
        BY PairIsConcat
      <4>3. todo' = Then(run, Then(ReturnIfError, b))
        BY <3>6, <4>1, <4>2 DEF Then
      <4>4. Gate(x, Then(run, Then(ReturnIfError, b)))
        BY Zenon, <2>1, <2>5 DEF Gate
      <4>5. IsSeq(Then(run, Then(ReturnIfError, b)))
        BY <2>2, ThenFacts
      <4>6. \E q : Gate(x, q) /\ todo' = <<>> \o q
        BY <4>3, <4>4, <4>5, ConcatNone
      <4> QED BY Zenon, <2>c, <3>4, <4>6 DEF Heeded
    <3> QED BY SMTT(30), <3>3, <3>5, <3>6
  <2> QED BY Zenon, <2>1, <2>3, <2>4, <2>5
<1> QED BY <1>1, <1>2

\* In the call that makes the request.
LEMMA InGate ==
    ASSUME NEW x, NEW y, x # y, NEW c, NEW k, Called(x, c), Waiting(x, k), todo = c \o k,
           x \notin Sent, y \notin Sent, manager \in Managers, DirectNext
    PROVE  Heeded(x, y)'
<1>0. Plain(c) /\ IsSeq(c) /\ c # <<>> /\ IsSeq(k)
  BY GateShapes DEF Plain
<1>1. todo # <<>> /\ Head(todo) = Head(c) /\ Tail(todo) = Tail(c) \o k
  BY <1>0, FrontFacts
<1>2. PICK back, b : /\ back.do = "return" /\ back.heed \in {"report", "catch"}
                     /\ Plain(b) /\ Without(x, b)
                     /\ k = Then(back, Then(ReturnIfError, b))
  BY Zenon DEF Waiting
<1>3. Plain(Then(ReturnIfError, b))
  BY Zenon, <1>2, ThenFacts, PlainSteps DEF Plain
<1>e. ASSUME NEW ending, End(ending)
      PROVE  todo' = <<>> \/ (todo' = k /\ (ending = "raised" => fault'))
  <2>1. \/ todo' = <<>>
        \/ todo' = k /\ fault' = (ending \in {"raised", "failed"} \/ (ending = "ended" /\ fault))
    BY Zenon, <1>0, <1>2, <1>3, <1>e, EndInCall
  <2>2. ASSUME ending = "raised",
               fault' = (ending \in {"raised", "failed"} \/ (ending = "ended" /\ fault))
        PROVE  fault'
    BY Zenon, <2>2
  <2> QED BY Zenon, <2>1, <2>2
<1>4. ASSUME NEW endings, c = <<Might(endings)>> \o WriteAndWatch(x) PROVE Heeded(x, y)'
  <2>1. Head(c) = Might(endings) /\ Tail(c) = WriteAndWatch(x) /\ IsSeq(WriteAndWatch(x))
    BY Zenon, <1>4, ThenFacts, PlainSteps DEF Then, Plain
  <2>2. StopEarly \/ PassCheck
    BY ZenonT(30), <1>1, <2>1, NextByStep
  <2>3. UNCHANGED <<taken, refused>>
    BY Zenon, <2>2 DEF StopEarly, PassCheck
  <2>4. x \notin Sent' /\ y \notin Sent' /\ x \notin refused'
    BY <2>3 DEF Sent
  <2>5. CASE StopEarly
    <3>1. todo' = <<>> \/ todo' = k
      BY <1>e, <2>5 DEF StopEarly
    <3>2. todo' = k => Waiting(x, todo')
      OBVIOUS
    <3> QED BY Zenon, <2>4, <3>1, <3>2 DEF Heeded
  <2>6. CASE PassCheck
    <3>1. todo' = <<>> \o (WriteAndWatch(x) \o k)
      BY Zenon, <1>1, <2>1, <2>6 DEF PassCheck, GoOn
    <3>2. IsSeq(WriteAndWatch(x) \o k)
      BY <1>0, <2>1, ConcatFacts
    <3>3. todo' = WriteAndWatch(x) \o k
      BY <3>1, <3>2, ConcatNone
    <3>4. Called(x, WriteAndWatch(x))
      BY DEF Called
    <3> QED BY Zenon, <2>4, <3>3, <3>4 DEF Heeded
  <2> QED BY SMTT(30), <2>2, <2>5, <2>6
<1>5. CASE c = WriteAndWatch(x)
  <2>1. Head(c) = Write(x) /\ Tail(c) = <<FetchTask>>
    BY <1>5 DEF WriteAndWatch
  <2>2. Head(todo) = Write(x) /\ Tail(todo) = Then(FetchTask, k)
    BY Zenon, <1>1, <2>1 DEF Then
  <2>3. Send
    BY ZenonT(30), <1>1, <2>2, NextByStep
  <2>4. y \notin Sent'
    BY <1>1, <2>2, <2>3, SendOne DEF Sent
  <2>5. \/ End("raised")
        \/ todo' = Then(FetchTask, k) /\ (x \in refused' => fault')
    BY Zenon, <1>1, <2>2, <2>3, SendOne DEF Sent
  <2>6. CASE End("raised")
    <3>1. todo' = <<>> \/ (todo' = k /\ fault')
      BY Zenon, <1>e, <2>6
    <3>2. todo' = k => Waiting(x, todo')
      OBVIOUS
    <3> QED BY Zenon, <2>4, <3>1, <3>2 DEF Heeded
  <2>7. CASE todo' = Then(FetchTask, k) /\ (x \in refused' => fault')
    BY Zenon, <2>4, <2>7 DEF Heeded
  <2> QED BY <2>5, <2>6, <2>7
<1> QED BY Zenon, <1>4, <1>5 DEF Called

\* On the way back from the call.
LEMMA BehindGate ==
    ASSUME NEW x, NEW y, NEW k, Waiting(x, k), todo = Then(FetchTask, k) \/ todo = k,
           x \in refused => fault, y \notin Sent, DirectNext
    PROVE  Heeded(x, y)'
<1>1. PICK back, b : /\ back.do = "return" /\ back.heed \in {"report", "catch"}
                     /\ Plain(b) /\ Without(x, b)
                     /\ k = Then(back, Then(ReturnIfError, b))
  BY Zenon DEF Waiting
<1>2. Plain(Then(ReturnIfError, b)) /\ IsSeq(Then(ReturnIfError, b)) /\ IsSeq(k)
  BY Zenon, <1>1, ThenFacts, PlainSteps DEF Plain
<1>3. CASE todo = Then(FetchTask, k)
  <2>1. Head(todo) = FetchTask /\ todo # <<>> /\ Tail(todo) = k
    BY <1>2, <1>3, ThenFacts
  <2>2. FollowTask
    BY ZenonT(30), <2>1, NextByStep
  <2>3. UNCHANGED <<taken, refused>>
    BY <2>2 DEF FollowTask
  <2>4. y \notin Sent' /\ refused' = refused
    BY <2>3 DEF Sent
  <2>5. CASE End("raised")
    <3>1. Plain(<<FetchTask>>) /\ todo = <<FetchTask>> \o Then(back, Then(ReturnIfError, b))
      BY <1>1, <1>3, PlainParts, PlainSteps DEF Then
    <3>2. \/ todo' = <<>>
          \/ todo' = k /\ fault' = ("raised" \in {"raised", "failed"} \/ ("raised" = "ended" /\ fault))
      BY Zenon, <1>1, <1>2, <2>5, <3>1, EndInCall
    <3>3. todo' = <<>> \/ (todo' = k /\ fault')
      BY Zenon, <3>2
    <3>4. todo' = k => Waiting(x, todo')
      OBVIOUS
    <3> QED BY Zenon, <2>4, <3>3, <3>4 DEF Heeded
  <2>6. CASE GoOn(<<>>)
    <3>1. todo' = k /\ fault' = fault
      BY <1>2, <2>1, <2>6, ConcatNone DEF GoOn
    <3>2. Waiting(x, todo')
      BY <3>1
    <3> QED BY Zenon, <2>4, <3>1, <3>2 DEF Heeded
  <2> QED BY Zenon, <2>2, <2>5, <2>6 DEF FollowTask
<1>4. CASE todo = k
  <2>1. Head(todo) = back /\ todo # <<>> /\ Tail(todo) = Then(ReturnIfError, b)
    BY <1>1, <1>2, <1>4, ThenFacts
  <2>2. LeaveCall
    BY <1>1, <2>1, NextByHead
  <2>3. /\ UNCHANGED <<taken, refused>> /\ todo' = Then(ReturnIfError, b)
        /\ answer' = IF fault THEN "error" ELSE "ok"
    BY <2>1, <2>2 DEF LeaveCall
  <2>4. y \notin Sent' /\ refused' = refused
    BY <2>3 DEF Sent
  <2>5. x \in refused' => answer' = "error"
    BY Zenon, <2>3, <2>4
  <2> QED BY Zenon, <1>1, <2>3, <2>4, <2>5 DEF Heeded
<1> QED BY <1>3, <1>4

\* Where the error is handed on, and where the program has passed the gate.
LEMMA AtReturn ==
    ASSUME NEW x, NEW y, NEW b, Plain(b), Without(x, b), todo = Then(ReturnIfError, b),
           x \in refused => answer = "error", y \notin Sent, DirectNext
    PROVE  Heeded(x, y)'
<1>1. IsSeq(b) /\ Plain(todo)
  BY ThenFacts, PlainSteps DEF Plain
<1>2. Head(todo) = ReturnIfError /\ todo # <<>> /\ Tail(todo) = b
  BY <1>1, ThenFacts
<1>3. HandOnError
  BY ZenonT(30), <1>2, NextByStep
<1>4. UNCHANGED <<taken, refused>> /\ IF answer = "error" THEN End("failed") ELSE GoOn(<<>>)
  BY <1>3 DEF HandOnError
<1>5. y \notin Sent' /\ refused' = refused
  BY <1>4 DEF Sent
<1>6. CASE answer = "error"
  <2>1. todo' = <<>>
    BY <1>1, <1>4, <1>6, EndPlain
  <2> QED BY <1>5, <2>1 DEF Heeded
<1>7. CASE answer # "error"
  <2>1. todo' = b
    BY <1>1, <1>2, <1>4, <1>7, ConcatNone DEF GoOn
  <2> QED BY <1>5, <1>7, <2>1 DEF Heeded
<1> QED BY <1>6, <1>7

\* A request that waits for another one goes on doing so.
LEMMA NextHeeds ==
    ASSUME NEW x, NEW y, x # y, Heeded(x, y), manager \in Managers, DirectNext
    PROVE  Heeded(x, y)'
<1>1. CASE x \notin refused /\ Without(x, todo)
  <2>1. PICK T : x \notin T /\ Confined(T, todo)
    BY <1>1 DEF Without
  <2>2. refused' \subseteq refused \cup T /\ Confined(T, todo')
    BY <2>1, ConfinedStays
  <2>3. x \notin refused' /\ Without(x, todo')
    BY <1>1, <2>1, <2>2 DEF Without
  <2> QED BY <2>3 DEF Heeded
<1>2. CASE y \notin Sent /\ todo = <<>>
  <2>1. Confined({}, todo)
    BY <1>2, ConfinedParts
  <2>2. taken' \subseteq taken \cup {} /\ refused' \subseteq refused \cup {}
    BY Zenon, <2>1, ConfinedStays
  <2>3. todo' = <<>>
    <3>1. LeaveCommand
      BY Zenon, <1>2
         DEF DirectNext, StopEarly, PassCheck, Return, HandOnError, Send, FollowTask,
         Branch, TakeOrSkip, EnterCall, LeaveCall, At
    <3> QED BY SMTT(30), <1>2, <3>1, EndPlain, PlainParts DEF LeaveCommand
  <2>4. y \notin Sent'
    BY <1>2, <2>2 DEF Sent
  <2> QED BY <2>3, <2>4 DEF Heeded
<1>3. CASE /\ x \notin Sent /\ y \notin Sent
           /\ \E a, k : Confined({}, a) /\ Gate(x, k) /\ todo = a \o k
  BY Zenon, <1>3, BeforeGate
<1>4. CASE /\ x \notin Sent /\ y \notin Sent
           /\ \E c, k : Called(x, c) /\ Waiting(x, k) /\ todo = c \o k
  BY Zenon, <1>4, InGate
<1>5. CASE /\ y \notin Sent /\ (x \in refused => fault)
           /\ \E k : Waiting(x, k) /\ todo = Then(FetchTask, k)
  BY Zenon, <1>5, BehindGate
<1>6. CASE y \notin Sent /\ (x \in refused => fault) /\ Waiting(x, todo)
  <2>1. PICK k : k = todo
    OBVIOUS
  <2>2. Waiting(x, k)
    BY <1>6, <2>1
  <2> QED BY Zenon, <1>6, <2>1, <2>2, BehindGate
<1>7. CASE /\ y \notin Sent /\ (x \in refused => answer = "error")
           /\ \E b : Plain(b) /\ Without(x, b) /\ todo = Then(ReturnIfError, b)
  BY <1>7, AtReturn
<1> QED BY Zenon, <1>1, <1>2, <1>3, <1>4, <1>5, <1>6, <1>7 DEF Heeded

\* The request y is made only once x has been carried out at once.  Either x
\* was, or y was not made, and it is out of reach, or the program is in front of
\* x, or behind it, and goes to y only if the answer was "ok".
Earned(x, y) ==
    \/ x \in taken
    \/ y \notin Sent /\ Without(y, todo)
    \/ /\ y \notin Sent
       /\ \E steps, b :
             LET k == Then(After({"ok"}, steps), b) IN
             /\ Plain(b) /\ Without(y, b)
             /\ \/ \E a : Confined({}, a) /\ todo = a \o Then(Write(x), Then(FetchTask, k))
                \/ (answer = "ok" => x \in taken) /\ todo \in {Then(FetchTask, k), k}

\* A request that has to be earned stays so.
LEMMA NextEarns ==
    ASSUME NEW x, NEW y, x # y, Earned(x, y), manager \in Managers, DirectNext
    PROVE  Earned(x, y)'
<1>1. CASE x \in taken
  <2>1. taken \subseteq taken'
    BY Zenon
       DEF DirectNext, StopEarly, PassCheck, Return, HandOnError, Send, FollowTask,
       Branch, TakeOrSkip, EnterCall, LeaveCall, LeaveCommand
  <2> QED BY <1>1, <2>1 DEF Earned
<1>2. CASE y \notin Sent /\ Without(y, todo)
  <2>1. PICK T : y \notin T /\ Confined(T, todo)
    BY <1>2 DEF Without
  <2>2. /\ taken' \subseteq taken \cup T /\ refused' \subseteq refused \cup T
        /\ Confined(T, todo')
    BY <2>1, ConfinedStays
  <2>3. y \notin Sent' /\ Without(y, todo')
    BY <1>2, <2>1, <2>2 DEF Without, Sent
  <2> QED BY <2>3 DEF Earned
<1>n. Without(y, <<>>)
  BY ConfinedParts DEF Without
<1>3. ASSUME y \notin Sent, NEW steps, NEW b, NEW k, k = Then(After({"ok"}, steps), b),
             Plain(b), Without(y, b),
             \/ \E a : Confined({}, a) /\ todo = a \o Then(Write(x), Then(FetchTask, k))
             \/ (answer = "ok" => x \in taken) /\ todo \in {Then(FetchTask, k), k}
      PROVE  Earned(x, y)'
  <2> DEFINE w == Then(Write(x), Then(FetchTask, k))
  <2>0. /\ IsSeq(b) /\ IsSeq(k) /\ Plain(k) /\ Plain(Then(FetchTask, k))
        /\ IsSeq(Then(FetchTask, k)) /\ Plain(w) /\ IsSeq(w)
    BY Zenon, <1>3, ThenFacts, PlainSteps DEF Plain
  <2>1. ASSUME NEW a, Confined({}, a), a # <<>>, todo = a \o w PROVE Earned(x, y)'
    <3>1. /\ taken' \subseteq taken \cup {} /\ refused' \subseteq refused \cup {}
          /\ todo' = <<>> \/ \E p : Confined({}, p) /\ todo' = p \o w
      BY Zenon, <2>0, <2>1, FrontStep
    <3>2. y \notin Sent'
      BY <1>3, <3>1 DEF Sent
    <3>3. CASE todo' = <<>>
      BY <1>n, <3>2, <3>3 DEF Earned
    <3>4. CASE \E p : Confined({}, p) /\ todo' = p \o w
      BY Zenon, <1>3, <3>2, <3>4 DEF Earned
    <3> QED BY <3>1, <3>3, <3>4
  <2>2. CASE todo = w
    <3>1. Head(todo) = Write(x) /\ todo # <<>> /\ Tail(todo) = Then(FetchTask, k)
      BY <2>0, <2>2, ThenFacts
    <3>2. Send
      BY ZenonT(30), <3>1, NextByStep
    <3>3. y \notin Sent' /\ (answer' = "ok" => x \in taken')
      BY <1>3, <3>1, <3>2, SendOne DEF Sent
    <3>4. End("raised") \/ todo' = Then(FetchTask, k)
      BY <3>1, <3>2, SendOne
    <3>5. CASE End("raised")
      <4>1. todo' = <<>>
        BY <2>0, <2>2, <3>5, EndPlain
      <4> QED BY <1>n, <3>3, <4>1 DEF Earned
    <3>6. CASE todo' = Then(FetchTask, k)
      BY Zenon, <1>3, <3>3, <3>6 DEF Earned
    <3> QED BY SMTT(30), <3>4, <3>5, <3>6
  <2>3. CASE (answer = "ok" => x \in taken) /\ todo = Then(FetchTask, k)
    <3>1. Head(todo) = FetchTask /\ todo # <<>> /\ Tail(todo) = k
      BY <2>0, <2>3, ThenFacts
    <3>2. FollowTask
      BY ZenonT(30), <3>1, NextByStep
    <3>3. UNCHANGED <<answer, taken, refused>> /\ (End("raised") \/ GoOn(<<>>))
      BY <3>2 DEF FollowTask
    <3>4. y \notin Sent' /\ (answer' = "ok" => x \in taken')
      BY <1>3, <2>3, <3>3 DEF Sent
    <3>5. CASE End("raised")
      <4>1. todo' = <<>>
        BY <2>0, <2>3, <3>5, EndPlain
      <4> QED BY <1>n, <3>4, <4>1 DEF Earned
    <3>6. CASE GoOn(<<>>)
      <4>1. todo' = k
        BY <2>0, <3>1, <3>6, ConcatNone DEF GoOn
      <4> QED BY Zenon, <1>3, <3>4, <4>1 DEF Earned
    <3> QED BY <3>3, <3>5, <3>6
  <2>4. CASE (answer = "ok" => x \in taken) /\ todo = k
    <3>1. Head(todo) = After({"ok"}, steps) /\ todo # <<>> /\ Tail(todo) = b
      BY Zenon, <1>3, <2>0, <2>4, ThenFacts
    <3>2. Branch /\ Head(todo).do = "after" /\ Head(todo).when = {"ok"}
      BY ZenonT(30), <3>1, NextByStep
    <3>3. UNCHANGED <<taken, refused>> /\ (answer # "ok" => GoOn(<<>>))
      BY <3>2 DEF Branch
    <3>4. CASE answer = "ok"
      BY <2>4, <3>3, <3>4 DEF Earned
    <3>5. CASE answer # "ok"
      <4>1. todo' = b
        BY <2>0, <3>1, <3>3, <3>5, ConcatNone DEF GoOn
      <4>2. y \notin Sent'
        BY <1>3, <3>3 DEF Sent
      <4> QED BY <1>3, <4>1, <4>2 DEF Earned
    <3> QED BY SMTT(30), <3>4, <3>5
  <2>5. \A a : a = <<>> => a \o w = w
    BY <2>0, ConcatNone
  <2> QED BY Zenon, <1>3, <2>1, <2>2, <2>3, <2>4, <2>5
<1> QED BY Zenon, <1>1, <1>2, <1>3 DEF Earned

\* A tuple of steps in front of a program, step by step.
LEMMA TuplesThen ==
    ASSUME NEW w, IsSeq(w)
    PROVE  /\ \A s, t : <<s, t>> \o w = Then(s, Then(t, w))
           /\ \A s, t, u : <<s, t, u>> \o w = Then(s, Then(t, Then(u, w)))
<1>1. ASSUME NEW s, NEW t PROVE <<s, t>> \o w = Then(s, Then(t, w))
  <2>1. <<s>> \o (<<t>> \o w) = (<<s>> \o <<t>>) \o w
    BY ConcatAssoc, TupleFacts
  <2> QED BY Zenon, <2>1, PairIsConcat DEF Then
<1>2. ASSUME NEW s, NEW t, NEW u PROVE <<s, t, u>> \o w = Then(s, Then(t, Then(u, w)))
  <2>1. IsSeq(<<u>> \o w) /\ IsSeq(<<s, t>>) /\ IsSeq(<<u>>)
    BY ConcatFacts, TupleFacts
  <2>2. <<s>> \o (<<t>> \o (<<u>> \o w)) = (<<s>> \o <<t>>) \o (<<u>> \o w)
    BY SMTT(30), <2>1, ConcatAssoc, TupleFacts
  <2>3. <<s, t>> \o (<<u>> \o w) = (<<s, t>> \o <<u>>) \o w
    BY <2>1, ConcatAssoc
  <2>4. <<s, t>> \o <<u>> = <<s, t, u>>
    <3>1. <<s, t>> \in Seq({s, t, u}) /\ <<u>> \in Seq({s, t, u})
      OBVIOUS
    <3>2. PICK p : p = <<s, t>> \o <<u>>
      BY Zenon
    <3>3. p \in Seq({s, t, u}) /\ Len(p) = 3 /\ p[1] = s /\ p[2] = t /\ p[3] = u
      BY <3>1, <3>2
    <3>4. p = <<p[1], p[2], p[3]>>
      BY <3>3
    <3> QED BY <3>2, <3>3, <3>4
  <2> QED BY Zenon, <2>2, <2>3, <2>4, PairIsConcat DEF Then
<1> QED BY <1>1, <1>2
=============================================================================
