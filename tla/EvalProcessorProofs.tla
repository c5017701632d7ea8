-------------------------- MODULE EvalProcessorProofs --------------------------
(***************************************************************************)
(* Theorems about EvalProcessor, for every set of jobs, evaluations and    *)
(* scaling threads and every capacity of the done channel.                 *)
(*                                                                         *)
(* Two inductive invariants are built one on the other.  Books speaks of   *)
(* what a summary reads and writes: the chains, the evaluations and where  *)
(* the summary has got to.  Events speaks of where the scaling events are: *)
(* in the queue, with a thread, in the done channel.  They meet where the  *)
(* chain the API is asked about must have no event.                        *)
(***************************************************************************)
EXTENDS EvalProcessor, SequenceTheorems, FiniteSetTheorems,
        NaturalsInduction, TLAPS

\* The elements of a sequence are what it has at its positions.
LEMMA SeqFacts ==
  ASSUME NEW S, NEW s \in Seq(S)
  PROVE  /\ Len(s) \in Nat
         /\ (s = <<>>) <=> (Len(s) = 0)
         /\ \A i \in 1..Len(s) : s[i] \in S
         /\ \A x : x \in Range(s) <=> \E i \in 1..Len(s) : s[i] = x
         /\ Range(s) \subseteq S
         /\ DOMAIN s = 1..Len(s)
BY LenProperties, ElementOfSeq, EmptySeq DEF Range

\* Enqueue and the send on a channel: one new element, at the end.
LEMMA AppendFacts ==
  ASSUME NEW S, NEW s \in Seq(S), NEW x \in S
  PROVE  /\ Append(s, x) \in Seq(S)
         /\ Range(Append(s, x)) = Range(s) \cup {x}
         /\ IsInjective(s) /\ x \notin Range(s) => IsInjective(Append(s, x))
<1> DEFINE t == Append(s, x)
<1>1. /\ t \in Seq(S)
      /\ Len(t) = Len(s) + 1
      /\ \A i \in 1..Len(s) : t[i] = s[i]
      /\ t[Len(s) + 1] = x
  BY AppendProperties
<1> HIDE DEF t
<1>2. /\ Len(s) \in Nat
      /\ \A y : y \in Range(s) <=> \E i \in 1..Len(s) : s[i] = y
      /\ DOMAIN s = 1..Len(s)
  BY SeqFacts
<1>3. /\ \A y : y \in Range(t) <=> \E i \in 1..Len(t) : t[i] = y
      /\ DOMAIN t = 1..Len(t)
  BY <1>1, SeqFacts
<1>4. \A i \in 1..Len(t) : i = Len(s) + 1 \/ i \in 1..Len(s)
  BY <1>1, <1>2
<1>5. Range(t) = Range(s) \cup {x}
  <2>1. \A y \in Range(t) : y \in Range(s) \cup {x}
    BY <1>1, <1>2, <1>3, <1>4
  <2>2. \A y \in Range(s) \cup {x} : y \in Range(t)
    BY <1>1, <1>2, <1>3
  <2> QED
    BY <2>1, <2>2
<1>6. ASSUME IsInjective(s), x \notin Range(s) PROVE IsInjective(t)
  BY <1>1, <1>2, <1>3, <1>4, <1>6 DEF IsInjective
<1> QED
  BY <1>1, <1>5, <1>6 DEF t

\* Dequeue and the receive from a channel: the first element goes.
LEMMA TailFacts ==
  ASSUME NEW S, NEW s \in Seq(S), s # <<>>
  PROVE  /\ Head(s) \in S
         /\ Tail(s) \in Seq(S)
         /\ Range(s) = Range(Tail(s)) \cup {Head(s)}
         /\ IsInjective(s) => IsInjective(Tail(s)) /\ Head(s) \notin Range(Tail(s))
<1> DEFINE t == Tail(s)
           h == Head(s)
<1>1. /\ h \in S
      /\ t \in Seq(S)
      /\ Len(t) = Len(s) - 1
      /\ \A i \in 1..Len(t) : t[i] = s[i + 1]
      /\ h = s[1]
  BY HeadTailProperties
<1> HIDE DEF t, h
<1>2. /\ Len(s) \in Nat \ {0}
      /\ \A y : y \in Range(s) <=> \E i \in 1..Len(s) : s[i] = y
      /\ DOMAIN s = 1..Len(s)
  BY SeqFacts
<1>3. /\ \A y : y \in Range(t) <=> \E i \in 1..Len(t) : t[i] = y
      /\ DOMAIN t = 1..Len(t)
  BY <1>1, SeqFacts
<1>4. /\ 1 \in 1..Len(s)
      /\ \A i \in 1..Len(t) : i + 1 \in 1..Len(s) /\ i + 1 # 1
      /\ \A i \in 1..Len(s) : i = 1 \/ (i - 1 \in 1..Len(t) /\ (i - 1) + 1 = i)
  BY <1>1, <1>2
<1>5. Range(s) = Range(t) \cup {h}
  <2>1. ASSUME NEW y \in Range(s) PROVE y \in Range(t) \cup {h}
    <3>1. PICK i \in 1..Len(s) : s[i] = y
      BY <1>2
    <3>2. CASE i = 1
      BY <3>1, <3>2, <1>1
    <3>3. CASE i # 1
      <4>1. i - 1 \in 1..Len(t) /\ t[i - 1] = s[i]
        BY <3>3, <1>1, <1>4
      <4> QED
        BY <4>1, <3>1, <1>3
    <3> QED
      BY <3>2, <3>3
  <2>2. \A y \in Range(t) \cup {h} : y \in Range(s)
    BY <1>1, <1>2, <1>3, <1>4
  <2> QED
    BY <2>1, <2>2
<1>6. ASSUME IsInjective(s) PROVE IsInjective(t) /\ h \notin Range(t)
  <2>1. IsInjective(t)
    <3> SUFFICES ASSUME NEW i \in 1..Len(t), NEW j \in 1..Len(t), t[i] = t[j]
                 PROVE  i = j
      BY <1>3 DEF IsInjective
    <3>1. i + 1 = j + 1
      BY <1>1, <1>2, <1>4, <1>6 DEF IsInjective
    <3> QED
      BY <1>1, <1>2, <3>1
  <2>2. h \notin Range(t)
    BY <1>1, <1>2, <1>3, <1>4, <1>6 DEF IsInjective
  <2> QED
    BY <2>1, <2>2
<1> QED
  BY <1>1, <1>5, <1>6 DEF t, h

\* Remove: one position is cut out of the queue.
Cut(s, k) == SubSeq(s, 1, k - 1) \o SubSeq(s, k + 1, Len(s))

\* Of a queue without duplicates only the element at that position is lost.
LEMMA CutFacts ==
  ASSUME NEW S, NEW s \in Seq(S), NEW k \in 1..Len(s), IsInjective(s)
  PROVE  /\ Cut(s, k) \in Seq(S)
         /\ Range(Cut(s, k)) = Range(s) \ {s[k]}
         /\ IsInjective(Cut(s, k))
<1> DEFINE a == SubSeq(s, 1, k - 1)
           b == SubSeq(s, k + 1, Len(s))
           t == Cut(s, k)
<1>0. /\ Len(s) \in Nat
      /\ k \in Int
      /\ 1 <= k
      /\ k <= Len(s)
      /\ \A i \in 1..Len(s) : s[i] \in S
      /\ \A y : y \in Range(s) <=> \E i \in 1..Len(s) : s[i] = y
      /\ \A i, j \in 1..Len(s) : s[i] = s[j] => i = j
  BY SeqFacts DEF IsInjective
<1>1. /\ a \in Seq(S)
      /\ Len(a) = k - 1
      /\ \A i \in 1..(k - 1) : a[i] = s[i]
  <2>1. \A i \in 1..(k - 1) : s[i] \in S
    BY <1>0
  <2> QED
    BY <1>0, <2>1, SubSeqProperties
<1>2. /\ b \in Seq(S)
      /\ Len(b) = Len(s) - k
      /\ \A i \in 1..(Len(s) - k) : b[i] = s[k + i]
  <2>1. \A i \in (k + 1)..Len(s) : s[i] \in S
    BY <1>0
  <2>2. /\ b \in Seq(S)
        /\ Len(b) = IF k + 1 <= Len(s) THEN Len(s) - (k + 1) + 1 ELSE 0
        /\ \A i \in 1..(Len(s) - (k + 1) + 1) : b[i] = s[k + 1 + i - 1]
    BY <1>0, <2>1, SubSeqProperties
  <2> QED
    BY <1>0, <2>2
<1>3. /\ t \in Seq(S)
      /\ Len(t) = Len(a) + Len(b)
      /\ \A i \in 1..(Len(a) + Len(b)) :
            t[i] = IF i <= Len(a) THEN a[i] ELSE b[i - Len(a)]
  <2>1. /\ a \o b \in Seq(S)
        /\ Len(a \o b) = Len(a) + Len(b)
        /\ \A i \in 1..(Len(a) + Len(b)) :
              (a \o b)[i] = IF i <= Len(a) THEN a[i] ELSE b[i - Len(a)]
    BY <1>1, <1>2, ConcatProperties
  <2>2. t = a \o b
    BY DEF Cut
  <2> HIDE DEF a, b, t
  <2> QED
    BY <2>1, <2>2, Zenon
<1> HIDE DEF a, b, t
<1>4. Len(t) = Len(s) - 1
  BY <1>0, <1>1, <1>2, <1>3
<1>5. \A i \in 1..Len(t) : i < k => t[i] = s[i]
  BY <1>0, <1>1, <1>2, <1>3, <1>4
<1>6. ASSUME NEW i \in 1..Len(t), i >= k PROVE t[i] = s[i + 1]
  <2>1. /\ t[i] = b[i - (k - 1)]
        /\ i - (k - 1) \in 1..(Len(s) - k)
        /\ k + (i - (k - 1)) = i + 1
    BY <1>0, <1>1, <1>2, <1>3, <1>4, <1>6
  <2>2. b[i - (k - 1)] = s[k + (i - (k - 1))]
    BY <1>2, <2>1
  <2> QED
    BY <2>1, <2>2
<1>7. /\ \A y : y \in Range(t) <=> \E i \in 1..Len(t) : t[i] = y
      /\ DOMAIN t = 1..Len(t)
  BY <1>3, SeqFacts
<1> DEFINE At(i) == IF i < k THEN i ELSE i + 1
<1>8. \A i \in 1..Len(t) : /\ At(i) \in 1..Len(s)
                           /\ At(i) # k
                           /\ t[i] = s[At(i)]
  BY <1>0, <1>4, <1>5, <1>6
<1>9. Range(t) = Range(s) \ {s[k]}
  <2>1. \A y \in Range(t) : y \in Range(s) \ {s[k]}
    <3> HIDE DEF At
    <3> QED
      BY <1>0, <1>7, <1>8
  <2>2. ASSUME NEW y \in Range(s), y # s[k] PROVE y \in Range(t)
    <3>1. PICK i \in 1..Len(s) : s[i] = y
      BY <1>0
    <3>2. i # k
      BY <2>2, <3>1
    <3>3. CASE i < k
      BY <1>0, <1>4, <1>5, <1>7, <3>1, <3>3
    <3>4. CASE i > k
      <4>1. i - 1 \in 1..Len(t) /\ i - 1 >= k /\ (i - 1) + 1 = i
        BY <1>0, <1>4, <3>4
      <4>2. t[i - 1] = s[(i - 1) + 1]
        BY <4>1, <1>6
      <4> QED
        BY <3>1, <4>1, <4>2, <1>7
    <3> QED
      BY <1>0, <3>2, <3>3, <3>4
  <2> QED
    BY <2>1, <2>2
<1>10. IsInjective(t)
  <2> SUFFICES ASSUME NEW i \in 1..Len(t), NEW j \in 1..Len(t), t[i] = t[j]
               PROVE  i = j
    BY <1>7 DEF IsInjective
  <2>1. At(i) = At(j)
    <3> HIDE DEF At
    <3> QED
      BY <1>0, <1>8
  <2> QED
    BY <2>1, <1>0, <1>4
<1> QED
  BY <1>3, <1>9, <1>10 DEF t

-----------------------------------------------------------------------------
(* What a summary does to a chain.                                         *)

\* The positions before the first one in B are an initial interval, so that
\* their number is the place where the chain is cut.
LEMMA LeadingInterval ==
  ASSUME NEW n \in Nat, NEW B,
         NEW L, L = {i \in 1..n : \A j \in 1..i : j \notin B}
  PROVE  /\ Cardinality(L) \in 0..n
         /\ Cardinality(L) < n => Cardinality(L) + 1 \in B
<1> DEFINE U == (1..n) \ L
<1>1. CASE U = {}
  <2>1. L = 1..n
    BY <1>1
  <2>2. Cardinality(1..n) = n
    BY FS_Interval
  <2>3. Cardinality(L) = n
    BY <2>1, <2>2, Zenon
  <2> HIDE DEF U
  <2> QED
    BY <2>3
<1>2. CASE U # {}
  <2>1. PICK m \in U : \A y \in U : ~(y < m)
    <3>1. U \subseteq Nat
      OBVIOUS
    <3> HIDE DEF U
    <3>2. PICK x \in U : \A y \in U : <<y, x>> \notin OpToRel(<, Nat)
      BY <1>2, <3>1, NatLessThanWellFounded, WFMin
    <3>3. \A y \in U : y \in Nat
      BY <3>1
    <3>4. \A y \in U : ~(y < x)
      BY <3>2, <3>3, Zenon DEF OpToRel
    <3> QED
      BY <3>4
  <2>2. m \in 1..n /\ m \notin L /\ \A y \in U : ~(y < m)
    BY <2>1
  <2>3. \A i \in 1..(m - 1) : i \in L
    BY <2>2
  <2>4. \A i \in L : i \in 1..(m - 1)
    BY <2>2
  <2>5. L = 1..(m - 1)
    BY <2>3, <2>4
  <2>6. Cardinality(1..(m - 1)) = m - 1
    BY <2>2, FS_Interval
  <2>7. m \in B
    BY <2>2, <2>3
  <2>8. Cardinality(L) = m - 1
    BY <2>5, <2>6
  <2> HIDE DEF U
  <2> QED
    BY <2>2, <2>7, <2>8
<1> QED
  BY <1>1, <1>2

\* What the loops below need to know of chains and evaluations.
LEMMA ChainFacts ==
  ASSUME TypeOK, NEW c \in DOMAIN chains
  PROVE  /\ c \in Jobs
         /\ chains[c] \in Seq(Evals)
         /\ Len(chains[c]) \in Nat
         /\ chains[c] # <<>> => 1 \in 1..Len(chains[c])
         /\ \A i \in 1..Len(chains[c]) : chains[c][i] \in Evals /\ chains[c][i] \in Int
         /\ \A x : x \in Range(chains[c])
                     <=> \E i \in 1..Len(chains[c]) : chains[c][i] = x
<1>1. c \in Jobs /\ chains[c] \in Seq(Evals)
  BY DEF TypeOK
<1>2. /\ Len(chains[c]) \in Nat
      /\ chains[c] # <<>> => 1 \in 1..Len(chains[c])
      /\ \A i \in 1..Len(chains[c]) : chains[c][i] \in Evals
      /\ \A x : x \in Range(chains[c])
                  <=> \E i \in 1..Len(chains[c]) : chains[c][i] = x
  BY <1>1, SeqFacts
<1>3. \A e \in Evals : e \in Int
  BY EvalsAssumption
<1> QED
  BY <1>1, <1>2, <1>3

\* The same of the chains after a step.
LEMMA ChainFactsNext ==
  ASSUME TypeOK', NEW c \in DOMAIN chains'
  PROVE  /\ c \in Jobs
         /\ chains'[c] \in Seq(Evals)
         /\ Len(chains'[c]) \in Nat
         /\ chains'[c] # <<>> => 1 \in 1..Len(chains'[c])
         /\ \A i \in 1..Len(chains'[c]) : chains'[c][i] \in Evals
         /\ \A x : x \in Range(chains'[c])
                     <=> \E i \in 1..Len(chains'[c]) : chains'[c][i] = x
<1>1. c \in Jobs /\ chains'[c] \in Seq(Evals)
  BY DEF TypeOK
<1> QED
  BY <1>1, SeqFacts

\* A visit cuts a chain at its first blocked evaluation and nowhere else.
LEMMA TrimFacts ==
  ASSUME TypeOK, NEW c \in DOMAIN chains
  PROVE  /\ Trimmed(c) \in Seq(Evals)
         /\ Trimmed(c) # <<>> => evals[Trimmed(c)[1]] = "blocked"
         /\ \E k \in Nat :
              \A i \in 1..Len(Trimmed(c)) :
                k + i \in 1..Len(chains[c]) /\ Trimmed(c)[i] = chains[c][k + i]
<1> DEFINE s == chains[c]
           n == Len(s)
           B == {i \in 1..n : evals[s[i]] = "blocked"}
           L == {i \in 1..n : \A j \in 1..i : evals[s[j]] # "blocked"}
           k == Cardinality(L)
           t == SubSeq(s, k + 1, n)
<1>1. n \in Nat /\ \A i \in 1..n : s[i] \in Evals
  BY ChainFacts
<1>2. k \in 0..n /\ (k < n => k + 1 \in B)
  <2>1. L = {i \in 1..n : \A j \in 1..i : j \notin B}
    BY <1>1
  <2> HIDE DEF L, B
  <2> QED
    BY <1>1, <2>1, LeadingInterval
<1>3. Trimmed(c) = t
  BY DEF Trimmed
<1> HIDE DEF k, L
<1>4. /\ t \in Seq(Evals)
      /\ Len(t) = n - k
      /\ \A i \in 1..(n - k) : t[i] = s[k + i]
  <2>1. \A i \in (k + 1)..n : s[i] \in Evals
    BY <1>1, <1>2
  <2>2. /\ t \in Seq(Evals)
        /\ Len(t) = IF k + 1 <= n THEN n - (k + 1) + 1 ELSE 0
        /\ \A i \in 1..(n - (k + 1) + 1) : t[i] = s[k + 1 + i - 1]
    BY <1>1, <1>2, <2>1, SubSeqProperties
  <2> QED
    BY <1>1, <1>2, <2>2
<1>5. t # <<>> => evals[t[1]] = "blocked"
  <2> SUFFICES ASSUME t # <<>> PROVE evals[t[1]] = "blocked"
    OBVIOUS
  <2>1. Len(t) \in Nat \ {0}
    BY <1>4, EmptySeq
  <2>2. t[1] = s[k + 1] /\ k < n
    BY <1>1, <1>2, <1>4, <2>1
  <2> QED
    BY <1>2, <2>2
<1>6. \A i \in 1..Len(t) : k + i \in 1..n /\ t[i] = s[k + i]
  BY <1>1, <1>2, <1>4
<1>7. k \in Nat
  BY <1>1, <1>2
<1> HIDE DEF t, n, s
<1> QED
  BY <1>3, <1>4, <1>5, <1>6, <1>7 DEF n, s

-----------------------------------------------------------------------------
(* The inductive invariant.                                                *)

\* What the summary has established so far: a chain it visited and keeps is
\* blocked and has an event, or is the one it is asking about.
VisitedDecided ==
  pc # "select" =>
    \A c \in DOMAIN chains \ (todo \cup removed) :
      /\ evals[chains[c][1]] = "blocked"
      /\ c \in fired \/ (pc = "fetch" /\ c = current)

\* The chains and the summary.
Books == ChainsWellFormed /\ SummaryBooks /\ HeadBlockedWhenQuiet
         /\ VisitedDecided

\* The scaling events.
Placed == OutstandingExact /\ CanceledHasStarted

IInv == TypeOK /\ Books /\ Placed

\* At the start nothing is known and nothing is under way.
LEMMA InitInv == Init => IInv
<1> SUFFICES ASSUME Init PROVE IInv
  OBVIOUS
<1> USE DEF Init
<1>1. DOMAIN evals = {} /\ DOMAIN chains = {} /\ Range(queue) = {}
      /\ Range(doneCh) = {} /\ DOMAIN queue = {} /\ DOMAIN doneCh = {}
  BY DEF Range
<1>2. TypeOK
  <2>1. evals \in [DOMAIN evals -> Status] /\ chains \in [DOMAIN chains -> Seq(Evals)]
    BY <1>1
  <2>2. queue \in Seq(Jobs) /\ doneCh \in Seq(Jobs)
    BY EmptySeq
  <2>3. held \in [Threads -> Jobs \cup {None}]
    OBVIOUS
  <2> QED
    BY <1>1, <2>1, <2>2, <2>3 DEF TypeOK
<1>3. Books
  BY <1>1 DEF Books, ChainsWellFormed, SummaryBooks, HeadBlockedWhenQuiet,
              VisitedDecided
<1>4. Placed
  <2>1. \A c \in Jobs : c \notin Range(held)
    BY NoneAssumption DEF Range
  <2>2. IsInjective(queue) /\ IsInjective(doneCh)
    BY <1>1 DEF IsInjective
  <2> QED
    BY <1>1, <2>1, <2>2 DEF Placed, OutstandingExact, CanceledHasStarted
<1> QED
  BY <1>2, <1>3, <1>4 DEF IInv

-----------------------------------------------------------------------------
(* The chains and the summary.                                             *)

\* A received evaluation is recorded, and of the chains at most the one of
\* its job changes: the evaluation becomes its last or its first element.
LEMMA ReceiveFacts ==
  ASSUME TypeOK, Books, NEW e \in Evals, NEW st \in Status, ReceiveEval(e, st),
         NEW c \in DOMAIN chains'
  PROVE  /\ c \in Jobs
         /\ chains'[c] \in Seq(Evals)
         /\ \/ c \in DOMAIN chains /\ chains'[c] = chains[c]
            \/ /\ c = JobOf[e]
               /\ c \in DOMAIN chains
               /\ Extends(c, e)
               /\ Len(chains'[c]) = Len(chains[c]) + 1
               /\ \A i \in 1..Len(chains[c]) : chains'[c][i] = chains[c][i]
               /\ chains'[c][Len(chains[c]) + 1] = e
            \/ /\ c = JobOf[e]
               /\ c \notin DOMAIN chains
               /\ Len(chains'[c]) = 1
               /\ chains'[c][1] = e
<1> DEFINE d == JobOf[e]
<1>0. d \in Jobs
  BY EvalsAssumption
<1>1. CASE d \in DOMAIN chains /\ Extends(d, e)
  <2>1. chains' = [chains EXCEPT ![d] = Append(@, e)]
    BY <1>1 DEF ReceiveEval, ChainsWith
  <2>2. chains[d] \in Seq(Evals)
    BY <1>1, ChainFacts
  <2>3. /\ Append(chains[d], e) \in Seq(Evals)
        /\ Len(Append(chains[d], e)) = Len(chains[d]) + 1
        /\ \A i \in 1..Len(chains[d]) : Append(chains[d], e)[i] = chains[d][i]
        /\ Append(chains[d], e)[Len(chains[d]) + 1] = e
    BY <2>2, AppendProperties
  <2>4. /\ c \in DOMAIN chains
        /\ c = d => chains'[c] = Append(chains[d], e)
        /\ c # d => chains'[c] = chains[c]
    BY <2>1
  <2>5. CASE c = d
    BY <1>0, <1>1, <2>3, <2>4, <2>5
  <2>6. CASE c # d
    BY <2>4, <2>6, ChainFacts
  <2> QED
    BY <2>5, <2>6
<1>2. CASE d \notin DOMAIN chains /\ st = "blocked"
  <2>1. chains' = Assign(chains, d, <<e>>)
    BY <1>2 DEF ReceiveEval, ChainsWith
  <2>2. /\ c \in DOMAIN chains \cup {d}
        /\ c = d => chains'[c] = <<e>>
        /\ c # d => chains'[c] = chains[c]
    BY <2>1 DEF Assign
  <2>3. CASE c = d
    <3>1. <<e>> \in Seq(Evals) /\ Len(<<e>>) = 1 /\ <<e>>[1] = e
      OBVIOUS
    <3> QED
      BY <1>0, <1>2, <2>2, <2>3, <3>1
  <2>4. CASE c # d
    BY <2>2, <2>4, ChainFacts
  <2> QED
    BY <2>3, <2>4
<1>3. CASE chains' = chains
  BY <1>3, ChainFacts
<1> QED
  BY <1>1, <1>2, <1>3 DEF ReceiveEval, ChainsWith

\* Types survive an evaluation.
LEMMA ReceiveType ==
  ASSUME TypeOK, Books, NEW e \in Evals, NEW st \in Status, ReceiveEval(e, st)
  PROVE  TypeOK'
<1>1. \A c \in DOMAIN chains' : c \in Jobs /\ chains'[c] \in Seq(Evals)
  BY ReceiveFacts
<1>2. chains' = [c \in DOMAIN chains' |-> chains'[c]]
  <2>1. CASE chains' = chains
    BY <2>1 DEF TypeOK
  <2>2. CASE chains' = [chains EXCEPT ![JobOf[e]] = Append(@, e)]
    BY <2>2
  <2>3. CASE chains' = Assign(chains, JobOf[e], <<e>>)
    BY <2>3 DEF Assign
  <2> QED
    BY <2>1, <2>2, <2>3 DEF ReceiveEval, ChainsWith
<1>3. DOMAIN chains' \subseteq Jobs /\ chains' \in [DOMAIN chains' -> Seq(Evals)]
  BY <1>1, <1>2
<1>4. DOMAIN evals' \subseteq Evals /\ evals' \in [DOMAIN evals' -> Status]
  BY DEF ReceiveEval, Assign, TypeOK
<1>5. timer' \in BOOLEAN
  BY Zenon DEF ReceiveEval, ResetTimer, TypeOK
<1> QED
  BY <1>3, <1>4, <1>5 DEF ReceiveEval, TypeOK

\* The chains stay ordered, and quiet only while every head is blocked.
LEMMA ReceiveBooks ==
  ASSUME TypeOK, Books, NEW e \in Evals, NEW st \in Status, ReceiveEval(e, st)
  PROVE  Books'
<1> USE DEF Books
<1>1. pc = "select" /\ pc' = "select"
  BY DEF ReceiveEval
<1>2. /\ \A x \in DOMAIN evals : x \in DOMAIN evals'
      /\ e \in DOMAIN evals'
      /\ \A x \in DOMAIN evals : x # e => evals'[x] = evals[x]
  BY DEF ReceiveEval, Assign
<1>3. \A c \in DOMAIN chains : chains[c] # <<>> /\ 1 \in 1..Len(chains[c])
  BY <1>1, ChainFacts DEF ChainsWellFormed
<1>4. ChainsWellFormed'
  <2> SUFFICES ASSUME NEW c \in DOMAIN chains'
               PROVE  /\ chains'[c] # <<>>
                      /\ \A i \in 1..Len(chains'[c]) :
                           /\ chains'[c][i] \in DOMAIN evals'
                           /\ JobOf[chains'[c][i]] = c
                           /\ \A j \in 1..(i - 1) : chains'[c][j] < chains'[c][i]
    BY DEF ChainsWellFormed
  <2>1. CASE c \in DOMAIN chains /\ chains'[c] = chains[c]
    BY <1>1, <1>2, <2>1 DEF ChainsWellFormed
  <2>2. CASE /\ c = JobOf[e]
             /\ c \in DOMAIN chains
             /\ Extends(c, e)
             /\ Len(chains'[c]) = Len(chains[c]) + 1
             /\ \A i \in 1..Len(chains[c]) : chains'[c][i] = chains[c][i]
             /\ chains'[c][Len(chains[c]) + 1] = e
    <3> DEFINE s == chains[c]
               n == Len(s)
               t == chains'[c]
    <3>1. /\ n \in Nat
          /\ 1 \in 1..n
          /\ \A i \in 1..n : s[i] \in Int
          /\ e \in Int
      BY <1>3, <2>2, ChainFacts, EvalsAssumption
    <3>2. /\ \A i \in 1..n : s[i] \in DOMAIN evals /\ JobOf[s[i]] = c
          /\ \A i \in 1..n : \A j \in 1..(i - 1) : s[j] < s[i]
      BY <2>2 DEF ChainsWellFormed
    <3>3. e > s[n]
      BY <2>2 DEF Extends
    <3>4. /\ Len(t) = n + 1
          /\ \A i \in 1..n : t[i] = s[i]
          /\ t[n + 1] = e
      BY <2>2
    <3>5. JobOf[e] = c
      BY <2>2
    <3> HIDE DEF n, s, t
    <3>6. \A j \in 1..n : s[j] < e
      BY <3>1, <3>2, <3>3
    <3>7. \A i \in 1..Len(t) : i \in 1..n \/ i = n + 1
      BY <3>1, <3>4
    <3>8. ASSUME NEW i \in 1..Len(t)
          PROVE  /\ t[i] \in DOMAIN evals'
                 /\ JobOf[t[i]] = c
                 /\ \A j \in 1..(i - 1) : t[j] < t[i]
      <4>1. CASE i \in 1..n
        BY <4>1, <1>2, <3>1, <3>2, <3>4
      <4>2. CASE i = n + 1
        BY <4>2, <1>2, <3>1, <3>4, <3>5, <3>6
      <4> QED
        BY <4>1, <4>2, <3>7
    <3>9. t # <<>>
      BY <3>1, <3>4, EmptySeq
    <3> QED
      BY <3>8, <3>9 DEF t
  <2>3. CASE /\ c = JobOf[e]
             /\ c \notin DOMAIN chains
             /\ Len(chains'[c]) = 1
             /\ chains'[c][1] = e
    <3>1. chains'[c] # <<>>
      BY <2>3, EmptySeq
    <3> QED
      BY <2>3, <3>1, <1>2
  <2> QED
    BY <2>1, <2>2, <2>3, ReceiveFacts
<1>5. SummaryBooks'
  <2>1. \A c \in DOMAIN chains : c \in DOMAIN chains'
    BY DEF ReceiveEval, ChainsWith, Assign
  <2> QED
    BY <1>1, <1>2, <2>1 DEF SummaryBooks, ReceiveEval
<1>6. HeadBlockedWhenQuiet'
  <2> SUFFICES ASSUME ~timer', ~tick', NEW c \in DOMAIN chains'
               PROVE  evals'[chains'[c][1]] = "blocked"
    BY <1>1 DEF HeadBlockedWhenQuiet
  <2>1. ~timer /\ ~tick /\ JobOf[e] \notin DOMAIN chains /\ st # "blocked"
    BY DEF ReceiveEval, ResetTimer
  <2>2. chains' = chains
    BY <2>1 DEF ReceiveEval, ChainsWith
  <2>3. evals[chains[c][1]] = "blocked"
    BY <1>1, <2>1, <2>2 DEF HeadBlockedWhenQuiet
  <2>4. chains[c][1] \in DOMAIN evals /\ JobOf[chains[c][1]] = c
    BY <1>3, <2>2 DEF ChainsWellFormed
  <2>5. chains[c][1] # e
    BY <2>1, <2>2, <2>4
  <2> QED
    BY <1>2, <2>2, <2>3, <2>4, <2>5
<1>7. VisitedDecided'
  BY <1>1 DEF VisitedDecided
<1> QED
  BY <1>4, <1>5, <1>6, <1>7

\* What a visit leaves of the chains: the one visited is trimmed.
LEMMA VisitFacts ==
  ASSUME TypeOK, Books, NEW c \in Jobs, Visit(c), evals' = evals
  PROVE  /\ c \in DOMAIN chains
         /\ DOMAIN chains' = DOMAIN chains
         /\ chains'[c] = Trimmed(c)
         /\ \A d \in DOMAIN chains : d # c => chains'[d] = chains[d]
         /\ Trimmed(c) \in Seq(Evals)
         /\ DOMAIN chains' \subseteq Jobs
         /\ chains' \in [DOMAIN chains' -> Seq(Evals)]
         /\ \A d \in DOMAIN chains : \A i \in 1..Len(chains'[d]) :
              /\ chains'[d][i] \in DOMAIN evals'
              /\ JobOf[chains'[d][i]] = d
              /\ \A j \in 1..(i - 1) : chains'[d][j] < chains'[d][i]
<1> USE DEF Books
<1>1. c \in DOMAIN chains
  BY DEF Visit, SummaryBooks
<1>2. chains' = [chains EXCEPT ![c] = Trimmed(c)]
  BY DEF Visit
<1>3. Trimmed(c) \in Seq(Evals)
  BY <1>1, TrimFacts
<1>4. /\ DOMAIN chains' = DOMAIN chains
      /\ chains'[c] = Trimmed(c)
      /\ \A d \in DOMAIN chains : d # c => chains'[d] = chains[d]
  BY <1>1, <1>2
<1>5. DOMAIN chains' \subseteq Jobs /\ chains' \in [DOMAIN chains' -> Seq(Evals)]
  BY <1>1, <1>2, <1>3 DEF TypeOK
<1>6. ASSUME NEW d \in DOMAIN chains, NEW i \in 1..Len(chains'[d])
      PROVE  /\ chains'[d][i] \in DOMAIN evals'
             /\ JobOf[chains'[d][i]] = d
             /\ \A j \in 1..(i - 1) : chains'[d][j] < chains'[d][i]
  <2>1. CASE d # c
    BY <2>1, <1>4, <1>6 DEF ChainsWellFormed
  <2>2. CASE d = c
    <3> DEFINE s == chains[c]
               t == Trimmed(c)
    <3>1. PICK k \in Nat : \A h \in 1..Len(t) : k + h \in 1..Len(s) /\ t[h] = s[k + h]
      BY <1>1, TrimFacts
    <3>2. /\ \A h \in 1..Len(s) : s[h] \in DOMAIN evals /\ JobOf[s[h]] = c
          /\ \A h \in 1..Len(s) : \A j \in 1..(h - 1) : s[j] < s[h]
      BY <1>1 DEF ChainsWellFormed
    <3>3. Len(t) \in Nat
      BY <1>3, LenProperties
    <3>4. i \in 1..Len(t) /\ chains'[d] = t
      BY <1>4, <1>6, <2>2
    <3> HIDE DEF s, t
    <3>5. t[i] \in DOMAIN evals /\ JobOf[t[i]] = c
      BY <3>1, <3>2, <3>4
    <3>6. ASSUME NEW j \in 1..(i - 1) PROVE t[j] < t[i]
      <4>1. j \in 1..Len(t)
        BY <3>3, <3>4
      <4>2. k + i \in 1..Len(s) /\ k + j \in 1..((k + i) - 1)
        BY <3>1, <3>3, <3>4, <4>1
      <4>3. t[j] = s[k + j] /\ t[i] = s[k + i]
        BY <3>1, <3>4, <4>1
      <4> QED
        BY <3>2, <4>2, <4>3
    <3> QED
      BY <2>2, <3>4, <3>5, <3>6
  <2> QED
    BY <2>1, <2>2
<1> QED
  BY <1>1, <1>3, <1>4, <1>5, <1>6

\* A chain found not blocked is put on the list of chains to remove.
LEMMA DropBooks ==
  ASSUME TypeOK, Books, NEW c \in Jobs, CancelQueued(c) \/ CancelRunning(c)
  PROVE  Books'
<1> USE DEF Books
<1>1. /\ Visit(c)
      /\ UNCHANGED <<evals, timer, tick, pc, current, newevals>>
      /\ removed' = removed \cup {c}
      /\ \A d \in Jobs : d # c => (d \in fired' <=> d \in fired)
      /\ fired' \subseteq fired
  BY DEF CancelQueued, CancelRunning
<1>2. pc = "summary" /\ todo' = todo \ {c}
  BY <1>1 DEF Visit
<1>3. ChainsWellFormed'
  <2>1. \A d \in DOMAIN chains : d \in todo' => chains'[d] # <<>>
    BY <1>1, <1>2, VisitFacts DEF ChainsWellFormed
  <2> QED
    BY <1>1, <1>2, <2>1, VisitFacts DEF ChainsWellFormed
<1>4. SummaryBooks'
  BY <1>1, <1>2, VisitFacts DEF SummaryBooks
<1>5. HeadBlockedWhenQuiet'
  BY <1>1, <1>2 DEF HeadBlockedWhenQuiet
<1>6. VisitedDecided'
  <2>1. \A d \in DOMAIN chains : d \in Jobs
    BY ChainFacts
  <2> QED
    BY <1>1, <1>2, <2>1, VisitFacts DEF VisitedDecided
<1> QED
  BY <1>3, <1>4, <1>5, <1>6

\* A chain found blocked keeps its evaluations; it has an event or the API is
\* asked about it.
LEMMA KeepBooks ==
  ASSUME TypeOK, Books, NEW c \in Jobs, KeepFired(c) \/ ExamineChain(c)
  PROVE  Books'
<1> USE DEF Books
<1>1. /\ Visit(c)
      /\ Trimmed(c) # <<>>
      /\ newevals' = Kept(c)
      /\ UNCHANGED <<evals, fired, timer, tick, removed>>
      /\ \/ c \in fired /\ pc' = pc /\ current' = current
         \/ c \notin fired /\ pc' = "fetch" /\ current' = c
  BY DEF KeepFired, ExamineChain
<1>2. pc = "summary" /\ todo' = todo \ {c} /\ pc' # "select"
  BY <1>1 DEF Visit
<1>3. ChainsWellFormed'
  <2>1. \A d \in DOMAIN chains : d \in todo' => chains'[d] # <<>>
    BY <1>1, <1>2, VisitFacts DEF ChainsWellFormed
  <2> QED
    BY <1>1, <1>2, <2>1, VisitFacts DEF ChainsWellFormed
<1>4. /\ c \in DOMAIN chains
      /\ \A x : x \in Range(Trimmed(c))
                  <=> \E i \in 1..Len(Trimmed(c)) : Trimmed(c)[i] = x
  BY <1>1, VisitFacts, SeqFacts
<1>5. Range(Trimmed(c)) \subseteq DOMAIN evals'
  BY <1>1, <1>4, VisitFacts
<1>6. SummaryBooks'
  <2>1. newevals' = newevals \cup Range(Trimmed(c))
    BY <1>1 DEF Kept
  <2>2. newevals' \subseteq DOMAIN evals'
    BY <1>1, <1>5, <2>1 DEF SummaryBooks
  <2>3. todo' \subseteq DOMAIN chains'
    BY <1>1, <1>2, VisitFacts DEF SummaryBooks
  <2>4. pc' = "fetch" => current' \in Jobs /\ current' \notin fired'
    BY <1>1, <1>2
  <2>5. ASSUME NEW d \in DOMAIN chains' \ (todo' \cup removed')
        PROVE  chains'[d] # <<>> /\ Range(chains'[d]) \subseteq newevals'
    <3>1. CASE d = c
      BY <3>1, <1>1, <2>1, VisitFacts
    <3>2. CASE d # c
      <4>1. d \in DOMAIN chains \ (todo \cup removed) /\ chains'[d] = chains[d]
        BY <3>2, <1>1, <1>2, VisitFacts
      <4>2. chains[d] # <<>> /\ Range(chains[d]) \subseteq newevals
        BY <4>1, <1>2 DEF SummaryBooks
      <4> QED
        BY <4>1, <4>2, <2>1
    <3> QED
      BY <3>1, <3>2
  <2> QED
    BY <1>2, <2>2, <2>3, <2>4, <2>5 DEF SummaryBooks
<1>7. HeadBlockedWhenQuiet'
  BY <1>2 DEF HeadBlockedWhenQuiet
<1>8. VisitedDecided'
  <2> SUFFICES ASSUME NEW d \in DOMAIN chains' \ (todo' \cup removed')
               PROVE  /\ evals'[chains'[d][1]] = "blocked"
                      /\ d \in fired' \/ (pc' = "fetch" /\ d = current')
    BY DEF VisitedDecided
  <2>1. CASE d = c
    BY <2>1, <1>1, <1>4, VisitFacts, TrimFacts
  <2>2. CASE d # c
    <3>1. d \in DOMAIN chains \ (todo \cup removed) /\ chains'[d] = chains[d]
      BY <2>2, <1>1, <1>2, VisitFacts
    <3>2. evals[chains[d][1]] = "blocked" /\ d \in fired
      BY <3>1, <1>2 DEF VisitedDecided
    <3> QED
      BY <3>1, <3>2, <1>1
  <2> QED
    BY <2>1, <2>2
<1> QED
  BY <1>3, <1>6, <1>7, <1>8

\* The answer of the API decides the chain it was asked for: it is removed or
\* it has an event.
LEMMA AnswerBooks ==
  ASSUME TypeOK, Books, RejectChain \/ FireEvent
  PROVE  Books'
<1> USE DEF Books
<1>1. /\ pc = "fetch" /\ pc' = "summary"
      /\ UNCHANGED <<evals, chains, timer, tick, todo, newevals>>
      /\ \/ removed' = removed \cup {current} /\ fired' = fired
         \/ removed' = removed /\ fired' = fired \cup {current}
  BY DEF RejectChain, FireEvent, Answered, Dropped, Recorded
<1>2. ChainsWellFormed'
  BY <1>1 DEF ChainsWellFormed
<1>3. SummaryBooks'
  BY <1>1 DEF SummaryBooks
<1>4. HeadBlockedWhenQuiet'
  BY <1>1 DEF HeadBlockedWhenQuiet
<1>5. VisitedDecided'
  BY <1>1 DEF VisitedDecided
<1> QED
  BY <1>2, <1>3, <1>4, <1>5

\* The end of a summary swaps in the evaluations of the chains it keeps.
LEMMA EndBooks ==
  ASSUME TypeOK, Books, EndSummary
  PROVE  /\ Books'
         /\ TypeOK'
         /\ \A c \in DOMAIN chains' :
              c \in fired /\ evals'[chains'[c][1]] = "blocked"
<1> USE DEF Books
<1>1. /\ pc = "summary" /\ pc' = "select" /\ todo = {} /\ todo' = {}
      /\ newevals' = {} /\ removed' = {} /\ fired' = fired
      /\ DOMAIN evals' = newevals
      /\ \A e \in newevals : evals'[e] = evals[e]
      /\ DOMAIN chains' = DOMAIN chains \ removed
      /\ \A c \in DOMAIN chains' : chains'[c] = chains[c]
  BY DEF EndSummary, Without, Restrict
<1>2. TypeOK'
  <2>1. DOMAIN evals' \subseteq Evals /\ evals' \in [DOMAIN evals' -> Status]
    BY DEF EndSummary, Restrict, TypeOK, SummaryBooks
  <2>2. DOMAIN chains' \subseteq Jobs /\ chains' \in [DOMAIN chains' -> Seq(Evals)]
    BY DEF EndSummary, Without, Restrict, TypeOK
  <2> QED
    BY <1>1, <2>1, <2>2 DEF TypeOK, EndSummary
<1>3. ASSUME NEW c \in DOMAIN chains'
      PROVE  /\ c \in DOMAIN chains
             /\ chains'[c] = chains[c]
             /\ chains[c] # <<>>
             /\ 1 \in 1..Len(chains[c])
             /\ \A i \in 1..Len(chains[c]) : chains[c][i] \in newevals
             /\ c \in fired
             /\ evals[chains[c][1]] = "blocked"
  <2>1. c \in DOMAIN chains \ (todo \cup removed) /\ chains'[c] = chains[c]
    BY <1>1
  <2>2. chains[c] # <<>> /\ Range(chains[c]) \subseteq newevals
    BY <1>1, <2>1 DEF SummaryBooks
  <2>3. c \in fired /\ evals[chains[c][1]] = "blocked"
    BY <1>1, <2>1 DEF VisitedDecided
  <2> QED
    BY <2>1, <2>2, <2>3, ChainFacts
<1>4. \A c \in DOMAIN chains' : c \in fired /\ evals'[chains'[c][1]] = "blocked"
  BY <1>1, <1>3
<1>5. ChainsWellFormed'
  BY <1>1, <1>3 DEF ChainsWellFormed
<1>6. SummaryBooks'
  BY <1>1 DEF SummaryBooks
<1>7. HeadBlockedWhenQuiet'
  BY <1>4 DEF HeadBlockedWhenQuiet
<1>8. VisitedDecided'
  BY <1>1 DEF VisitedDecided
<1> QED
  BY <1>2, <1>4, <1>5, <1>6, <1>7, <1>8

\* The other steps leave the chains and the evaluations as they are.
LEMMA QuietBooks ==
  ASSUME TypeOK, Books,
         \/ ScalingDone \/ TimerExpires \/ StartSummary
         \/ UNCHANGED procVars
  PROVE  Books'
<1> USE DEF Books
<1>1. CASE ScalingDone
  BY <1>1 DEF ScalingDone, ChainsWellFormed, SummaryBooks,
              HeadBlockedWhenQuiet, VisitedDecided
<1>2. CASE TimerExpires
  BY <1>2 DEF TimerExpires, ChainsWellFormed, SummaryBooks,
              HeadBlockedWhenQuiet, VisitedDecided
<1>3. CASE StartSummary
  BY <1>3 DEF StartSummary, ChainsWellFormed, SummaryBooks,
              HeadBlockedWhenQuiet, VisitedDecided
<1>4. CASE UNCHANGED procVars
  BY <1>4 DEF procVars, ChainsWellFormed, SummaryBooks,
              HeadBlockedWhenQuiet, VisitedDecided
<1> QED
  BY <1>1, <1>2, <1>3, <1>4

-----------------------------------------------------------------------------
(* The scaling events.                                                     *)

\* Where an event can be, in the form the steps below need.
LEMMA EventFacts ==
  ASSUME TypeOK
  PROVE  /\ \A x : x \in Range(held) <=> \E t \in Threads : held[t] = x
         /\ \A x : x \in Range(queue)
                     <=> \E i \in 1..Len(queue) : queue[i] = x
         /\ Range(queue) \subseteq Jobs
         /\ Range(doneCh) \subseteq Jobs
<1>1. /\ queue \in Seq(Jobs) /\ doneCh \in Seq(Jobs)
      /\ held \in [Threads -> Jobs \cup {None}]
  BY DEF TypeOK
<1>2. \A x : x \in Range(held) <=> \E t \in Threads : held[t] = x
  BY <1>1 DEF Range
<1> QED
  BY <1>1, <1>2, SeqFacts

\* Taking back an event cuts exactly that event out of the queue.
LEMMA TakeBackFacts ==
  ASSUME TypeOK, Placed, NEW c \in Jobs, Queue!Cancel(c)
  PROVE  /\ c \in Range(queue)
         /\ queue' \in Seq(Jobs)
         /\ Range(queue') = Range(queue) \ {c}
         /\ IsInjective(queue')
         /\ held' = held
<1>1. queue \in Seq(Jobs) /\ IsInjective(queue)
  BY DEF TypeOK, Placed, OutstandingExact
<1>2. PICK k \in 1..Len(queue) : queue[k] = c /\ queue' = Cut(queue, k)
  BY DEF Queue!Cancel, Cut
<1>3. /\ Cut(queue, k) \in Seq(Jobs)
      /\ Range(Cut(queue, k)) = Range(queue) \ {queue[k]}
      /\ IsInjective(Cut(queue, k))
  BY <1>1, CutFacts
<1>4. c \in Range(queue)
  BY <1>2, EventFacts
<1>5. held' = held
  BY DEF Queue!Cancel
<1> QED
  BY <1>2, <1>3, <1>4, <1>5, Zenon

\* A report is consumed: the event is neither fired nor anywhere any more.
LEMMA DonePlaced ==
  ASSUME TypeOK, Placed, ScalingDone
  PROVE  TypeOK' /\ Placed'
<1> DEFINE h == Head(doneCh)
<1>1. /\ h \in Jobs
      /\ doneCh' \in Seq(Jobs)
      /\ Range(doneCh) = Range(doneCh') \cup {h}
      /\ IsInjective(doneCh)
      /\ IsInjective(doneCh') /\ h \notin Range(doneCh')
  BY TailFacts DEF TypeOK, Placed, OutstandingExact, ScalingDone
<1>2. /\ fired' = fired \ {h} /\ canceled' = canceled \ {h}
      /\ queue' = queue /\ held' = held
  BY DEF ScalingDone, FiredAfterDone
<1> HIDE DEF h
<1>3. TypeOK'
  BY <1>1, <1>2 DEF ScalingDone, TypeOK
<1>4. OutstandingExact'
  BY <1>1, <1>2 DEF Placed, OutstandingExact
<1>5. CanceledHasStarted'
  BY <1>1, <1>2 DEF Placed, CanceledHasStarted
<1> QED
  BY <1>3, <1>4, <1>5 DEF Placed

\* An event that is taken back was queued, so that no context is cancelled.
LEMMA CancelQueuedPlaced ==
  ASSUME TypeOK, Books, Placed, NEW c \in Jobs, CancelQueued(c)
  PROVE  TypeOK' /\ Placed'
<1>1. /\ c \in Range(queue)
      /\ queue' \in Seq(Jobs)
      /\ Range(queue') = Range(queue) \ {c}
      /\ IsInjective(queue')
      /\ held' = held
  BY TakeBackFacts DEF CancelQueued
<1>2. /\ fired' = fired \ {c} /\ canceled' = canceled /\ doneCh' = doneCh
      /\ Visit(c) /\ evals' = evals
  BY DEF CancelQueued
<1>3. TypeOK'
  <2>1. todo' \subseteq Jobs
    BY <1>2 DEF Visit, TypeOK
  <2> QED
    BY <1>1, <1>2, <2>1, VisitFacts DEF CancelQueued, TypeOK
<1>4. OutstandingExact'
  BY <1>1, <1>2 DEF Placed, OutstandingExact
<1>5. CanceledHasStarted'
  BY <1>1, <1>2 DEF Placed, OutstandingExact, CanceledHasStarted
<1> QED
  BY <1>3, <1>4, <1>5 DEF Placed

\* An event that is fired and not queued is with a thread or done.
LEMMA CancelRunningPlaced ==
  ASSUME TypeOK, Books, Placed, NEW c \in Jobs, CancelRunning(c)
  PROVE  TypeOK' /\ Placed'
<1>1. /\ UNCHANGED <<fired, queue, held, doneCh>>
      /\ canceled' = canceled \cup ({c} \cap fired)
      /\ c \notin Range(queue)
      /\ Visit(c) /\ evals' = evals
  BY DEF CancelRunning, TakesBack
<1>2. TypeOK'
  <2>1. todo' \subseteq Jobs
    BY <1>1 DEF Visit, TypeOK
  <2> QED
    BY <1>1, <2>1, VisitFacts DEF CancelRunning, TypeOK
<1>3. OutstandingExact'
  BY <1>1 DEF Placed, OutstandingExact
<1>4. CanceledHasStarted'
  BY <1>1 DEF Placed, OutstandingExact, CanceledHasStarted
<1> QED
  BY <1>2, <1>3, <1>4 DEF Placed

\* A chain that is kept moves no event.
LEMMA KeepPlaced ==
  ASSUME TypeOK, Books, Placed, NEW c \in Jobs, KeepFired(c) \/ ExamineChain(c)
  PROVE  TypeOK' /\ Placed'
<1>1. /\ UNCHANGED <<evals, fired, canceled, timer, tick, removed, queue, held,
                     doneCh, purged>>
      /\ Visit(c)
      /\ newevals' = Kept(c)
      /\ pc' \in {"summary", "fetch"}
      /\ current' \in Jobs \cup {None}
  BY DEF KeepFired, ExamineChain, Visit, TypeOK
<1>2. TypeOK'
  <2>1. newevals' \subseteq Evals
    <3>1. Range(Trimmed(c)) \subseteq Evals
      BY <1>1, VisitFacts, SeqFacts
    <3> QED
      BY <1>1, <3>1 DEF Kept, TypeOK
  <2>2. todo' \subseteq Jobs
    BY <1>1 DEF Visit, TypeOK
  <2> QED
    BY <1>1, <2>1, <2>2, VisitFacts DEF TypeOK
<1>3. OutstandingExact'
  BY <1>1 DEF Placed, OutstandingExact
<1>4. CanceledHasStarted'
  BY <1>1 DEF Placed, CanceledHasStarted
<1> QED
  BY <1>2, <1>3, <1>4 DEF Placed

\* An event is put for a chain that has none, so it is nowhere else.
LEMMA FirePlaced ==
  ASSUME TypeOK, Books, Placed, FireEvent
  PROVE  TypeOK' /\ Placed'
<1>1. current \in Jobs /\ current \notin fired
  BY DEF Books, SummaryBooks, FireEvent, Answered
<1>2. /\ current \notin Range(queue)
      /\ current \notin Range(held)
      /\ current \notin Range(doneCh)
  BY <1>1 DEF Placed, OutstandingExact
<1>3. /\ queue' \in Seq(Jobs)
      /\ Range(queue') = Range(queue) \cup {current}
      /\ IsInjective(queue')
  <2>1. queue \in Seq(Jobs) /\ IsInjective(queue) /\ queue' = Append(queue, current)
    BY DEF TypeOK, Placed, OutstandingExact, FireEvent, Enqueued
  <2> QED
    BY <1>1, <1>2, <2>1, AppendFacts
<1>4. /\ fired' = fired \cup {current}
      /\ UNCHANGED <<canceled, held, doneCh>>
  BY DEF FireEvent, Recorded
<1>5. TypeOK'
  BY <1>1, <1>3, <1>4 DEF FireEvent, TypeOK
<1>6. OutstandingExact'
  BY <1>1, <1>2, <1>3, <1>4 DEF Placed, OutstandingExact
<1>7. CanceledHasStarted'
  BY <1>4 DEF Placed, CanceledHasStarted
<1> QED
  BY <1>5, <1>6, <1>7 DEF Placed

\* A thread takes the oldest event: it leaves the queue for that thread.
LEMMA DequeuePlaced ==
  ASSUME TypeOK, Placed, NEW t \in Threads, Dequeue(t)
  PROVE  TypeOK' /\ Placed'
<1> DEFINE h == Head(queue)
<1>1. /\ h \in Jobs
      /\ queue' \in Seq(Jobs)
      /\ Range(queue) = Range(queue') \cup {h}
      /\ IsInjective(queue')
      /\ h \notin Range(queue')
  BY TailFacts DEF TypeOK, Placed, OutstandingExact, Dequeue, Queue!Take
<1>2. /\ held[t] = None
      /\ held' = [held EXCEPT ![t] = h]
      /\ UNCHANGED <<fired, canceled, doneCh>>
  BY DEF Dequeue, Queue!Take, procVars
<1> HIDE DEF h
<1>3. TypeOK'
  BY <1>1, <1>2 DEF Dequeue, procVars, TypeOK
<1>4. /\ held'[t] = h
      /\ \A u \in Threads : u # t => held'[u] = held[u]
  BY <1>2 DEF TypeOK
<1>5. /\ \A x : x \in Range(held') <=> \E u \in Threads : held'[u] = x
      /\ \A x : x \in Range(held) <=> \E u \in Threads : held[u] = x
  BY <1>3, EventFacts DEF TypeOK, Range
<1>6. \A c \in Jobs : c \in Range(held') <=> c \in Range(held) \/ c = h
  BY <1>2, <1>4, <1>5, NoneAssumption
<1>7. Range(queue') \subseteq Jobs /\ Range(doneCh) \subseteq Jobs
  BY <1>1, EventFacts, SeqFacts
<1>8. h \notin Range(held) /\ h \notin Range(doneCh)
  BY <1>1 DEF Placed, OutstandingExact
<1>9. OutstandingExact'
  <2>1. \A c \in Jobs : c \in fired' <=> \/ c \in Range(queue')
                                         \/ c \in Range(held')
                                         \/ c \in Range(doneCh')
    BY <1>1, <1>2, <1>6 DEF Placed, OutstandingExact
  <2>2. \A u, v \in Threads : held'[u] = held'[v] /\ held'[u] # None => u = v
    BY <1>4, <1>5, <1>8 DEF Placed, OutstandingExact
  <2>3. /\ Range(queue') \cap Range(held') = {}
        /\ Range(held') \cap Range(doneCh') = {}
        /\ Range(queue') \cap Range(doneCh') = {}
    BY <1>1, <1>2, <1>6, <1>7, <1>8 DEF Placed, OutstandingExact
  <2> QED
    BY <1>1, <1>2, <2>1, <2>2, <2>3 DEF Placed, OutstandingExact
<1>10. CanceledHasStarted'
  <2>1. canceled \subseteq Jobs
    BY DEF TypeOK
  <2> QED
    BY <1>2, <1>6, <2>1 DEF Placed, CanceledHasStarted
<1> QED
  BY <1>3, <1>9, <1>10 DEF Placed

\* A finished event leaves its thread for the done channel.
LEMMA FinishPlaced ==
  ASSUME TypeOK, Placed, NEW t \in Threads, FinishEvent(t)
  PROVE  TypeOK' /\ Placed'
<1> DEFINE h == held[t]
<1>1. /\ h \in Jobs
      /\ held' = [held EXCEPT ![t] = None]
      /\ UNCHANGED <<fired, canceled, queue>>
      /\ doneCh' = Append(doneCh, h)
  BY DEF FinishEvent, Queue!Release, Reported, TypeOK, procVars
<1>2. h \in Range(held)
  BY EventFacts
<1>3. h \notin Range(doneCh) /\ h \notin Range(queue)
  BY <1>1, <1>2 DEF Placed, OutstandingExact
<1>4. /\ doneCh' \in Seq(Jobs)
      /\ Range(doneCh') = Range(doneCh) \cup {h}
      /\ IsInjective(doneCh')
  <2>1. doneCh \in Seq(Jobs) /\ IsInjective(doneCh)
    BY DEF TypeOK, Placed, OutstandingExact
  <2> HIDE DEF h
  <2> QED
    BY <1>1, <1>3, <2>1, AppendFacts
<1>5. TypeOK'
  BY <1>1, <1>4 DEF FinishEvent, procVars, TypeOK
<1>6. /\ held'[t] = None
      /\ \A u \in Threads : u # t => held'[u] = held[u]
  BY <1>1 DEF TypeOK
<1>7. /\ \A x : x \in Range(held') <=> \E u \in Threads : held'[u] = x
      /\ \A x : x \in Range(held) <=> \E u \in Threads : held[u] = x
  BY <1>5, EventFacts DEF TypeOK, Range
<1>8. \A c \in Jobs : c \in Range(held') <=> c \in Range(held) /\ c # h
  <2>1. \A u \in Threads : held[u] = h => u = t
    BY <1>1, NoneAssumption DEF Placed, OutstandingExact
  <2> QED
    BY <1>6, <1>7, <2>1, NoneAssumption
<1>9. Range(queue) \subseteq Jobs /\ Range(doneCh') \subseteq Jobs
  BY <1>4, EventFacts, SeqFacts
<1> HIDE DEF h
<1>10. OutstandingExact'
  <2>1. \A c \in Jobs : c \in fired' <=> \/ c \in Range(queue')
                                         \/ c \in Range(held')
                                         \/ c \in Range(doneCh')
    BY <1>1, <1>2, <1>4, <1>8 DEF Placed, OutstandingExact
  <2>2. \A u, v \in Threads : held'[u] = held'[v] /\ held'[u] # None => u = v
    BY <1>6 DEF Placed, OutstandingExact
  <2>3. /\ Range(queue') \cap Range(held') = {}
        /\ Range(held') \cap Range(doneCh') = {}
        /\ Range(queue') \cap Range(doneCh') = {}
    BY <1>1, <1>3, <1>4, <1>8, <1>9 DEF Placed, OutstandingExact
  <2> QED
    BY <1>1, <1>4, <2>1, <2>2, <2>3 DEF Placed, OutstandingExact
<1>11. CanceledHasStarted'
  <2>1. canceled \subseteq Jobs
    BY DEF TypeOK
  <2> QED
    BY <1>1, <1>4, <1>8, <2>1 DEF Placed, CanceledHasStarted
<1> QED
  BY <1>5, <1>10, <1>11 DEF Placed

\* The other steps move no event.
LEMMA QuietPlaced ==
  ASSUME Placed, UNCHANGED <<fired, canceled, queue, held, doneCh>>
  PROVE  Placed'
BY DEF Placed, OutstandingExact, CanceledHasStarted

-----------------------------------------------------------------------------
(* The theorems.                                                           *)

\* Every step of the processor preserves the inductive invariant.
LEMMA StepInv == IInv /\ [Next]_vars => IInv'
<1> SUFFICES ASSUME IInv, [Next]_vars PROVE IInv'
  OBVIOUS
<1>0. TypeOK /\ Books /\ Placed
  BY DEF IInv
<1>1. ASSUME NEW e \in Evals, NEW st \in Status, ReceiveEval(e, st) PROVE IInv'
  <2>1. Placed'
    BY <1>0, <1>1, QuietPlaced DEF ReceiveEval
  <2> QED
    BY <1>0, <1>1, <2>1, ReceiveType, ReceiveBooks DEF IInv
<1>2. CASE ScalingDone
  BY <1>0, <1>2, DonePlaced, QuietBooks DEF IInv
<1>3. CASE TimerExpires
  <2>1. TypeOK'
    BY <1>0, <1>3 DEF TypeOK, TimerExpires
  <2>2. Placed'
    BY <1>0, <1>3, QuietPlaced DEF TimerExpires
  <2> QED
    BY <1>0, <1>3, <2>1, <2>2, QuietBooks DEF IInv
<1>4. CASE StartSummary
  <2>1. TypeOK'
    BY <1>0, <1>4 DEF TypeOK, StartSummary
  <2>2. Placed'
    BY <1>0, <1>4, QuietPlaced DEF StartSummary
  <2> QED
    BY <1>0, <1>4, <2>1, <2>2, QuietBooks DEF IInv
<1>5. ASSUME NEW c \in Jobs, VisitChain(c) PROVE IInv'
  <2>1. CASE CancelQueued(c)
    BY <1>0, <2>1, CancelQueuedPlaced, DropBooks DEF IInv
  <2>2. CASE CancelRunning(c)
    BY <1>0, <2>2, CancelRunningPlaced, DropBooks DEF IInv
  <2>3. CASE KeepFired(c) \/ ExamineChain(c)
    BY <1>0, <2>3, KeepPlaced, KeepBooks DEF IInv
  <2> QED
    BY <1>5, <2>1, <2>2, <2>3 DEF VisitChain
<1>6. CASE RejectChain
  <2>1. TypeOK'
    BY <1>0, <1>6 DEF TypeOK, RejectChain, Answered, Dropped, Books, SummaryBooks
  <2>2. Placed'
    BY <1>0, <1>6, QuietPlaced DEF RejectChain
  <2> QED
    BY <1>0, <1>6, <2>1, <2>2, AnswerBooks DEF IInv
<1>7. CASE FireEvent
  BY <1>0, <1>7, FirePlaced, AnswerBooks DEF IInv
<1>8. CASE EndSummary
  <2>1. Placed'
    BY <1>0, <1>8, QuietPlaced DEF EndSummary
  <2> QED
    BY <1>0, <1>8, <2>1, EndBooks DEF IInv
<1>9. ASSUME NEW t \in Threads, Dequeue(t) \/ FinishEvent(t) PROVE IInv'
  <2>1. UNCHANGED procVars
    BY <1>9 DEF Dequeue, FinishEvent
  <2> QED
    BY <1>0, <1>9, <2>1, DequeuePlaced, FinishPlaced, QuietBooks DEF IInv
<1>10. ASSUME NEW c \in Jobs, PurgeJob(c) PROVE IInv'
  <2>1. UNCHANGED procVars /\ UNCHANGED <<fired, canceled, queue, held, doneCh>>
    BY <1>10 DEF PurgeJob, procVars
  <2>2. TypeOK'
    BY <1>0, <1>10 DEF TypeOK, PurgeJob, procVars
  <2> QED
    BY <1>0, <2>1, <2>2, QuietBooks, QuietPlaced DEF IInv
<1>11. CASE UNCHANGED vars
  <2>1. UNCHANGED procVars /\ UNCHANGED <<fired, canceled, queue, held, doneCh>>
    BY <1>11 DEF vars, procVars
  <2>2. TypeOK'
    BY <1>0, <1>11 DEF TypeOK, vars, procVars
  <2> QED
    BY <1>0, <2>1, <2>2, QuietBooks, QuietPlaced DEF IInv
<1> QED
  BY <1>1, <1>2, <1>3, <1>4, <1>5, <1>6, <1>7, <1>8, <1>9, <1>10, <1>11
     DEF Next, SummaryStep

\* The inductive invariant holds in every reachable state.
THEOREM Invariance == Spec => []IInv
BY InitInv, StepInv, PTL DEF Spec

\* The variables keep their types.
THEOREM TypeCorrect == Spec => []TypeOK
<1>1. IInv => TypeOK
  BY DEF IInv
<1> QED
  BY <1>1, Invariance, PTL

\* An event that is fired is in one place, and only a fired one is anywhere:
\* the map of fired events never leaks and never forgets an event, and no
\* thread starts an event whose context is cancelled already.
THEOREM EventsSound == Spec => []EventsAccounted
<1>1. IInv => EventsAccounted
  BY DEF IInv, Placed, EventsAccounted
<1> QED
  BY <1>1, Invariance, PTL

\* The loop never reads an evaluation that is not there, nor the head of an
\* empty chain; a summary loses no evaluation of a chain it keeps and asks about
\* no chain that has an event; a chain whose head is not blocked is on its way
\* to a summary.
THEOREM ChainsSound == Spec => []ChainsAccounted
<1>1. IInv => ChainsAccounted
  BY DEF IInv, Books, ChainsAccounted
<1> QED
  BY <1>1, Invariance, PTL

\* A summary leaves no chain undecided.
THEOREM SummaryIsDecisive == Spec => SummaryDecides
<1>1. IInv /\ [Next]_vars => [EndSummary => KeptHaveEvents]_vars
  BY EndBooks DEF IInv, KeptHaveEvents
<1> QED
  BY <1>1, Invariance, PTL DEF Spec, SummaryDecides

\* Processor and threads use the queue as the abstract queue demands, above
\* all they put no id that is queued or executed.
THEOREM Refinement == Spec => ImplementsEventQueue
<1>1. Init => Queue!Init
  BY DEF Init, Queue!Init
<1>2. IInv /\ [Next]_vars => [Queue!Next]_Queue!vars
  <2> SUFFICES ASSUME IInv, [Next]_vars PROVE [Queue!Next]_Queue!vars
    OBVIOUS
  <2> USE DEF Queue!Next, Queue!vars
  <2>1. CASE UNCHANGED <<queue, held>>
    BY <2>1
  <2>2. ASSUME NEW c \in Jobs, CancelQueued(c) PROVE Queue!Next
    BY <2>2 DEF CancelQueued
  <2>3. CASE FireEvent
    <3>1. current \in Jobs /\ current \notin fired
      BY <2>3 DEF IInv, Books, SummaryBooks, FireEvent, Answered
    <3>2. current \notin Queue!Outstanding
      BY <3>1 DEF IInv, Placed, OutstandingExact, Queue!Outstanding, Queue!Range, Range
    <3>3. Queue!Put(current)
      BY <2>3, <3>2 DEF FireEvent, Enqueued, Queue!Put
    <3> QED
      BY <3>1, <3>3
  <2>4. ASSUME NEW t \in Threads, Dequeue(t) \/ FinishEvent(t) PROVE Queue!Next
    BY <2>4 DEF Dequeue, FinishEvent
  <2>5. ASSUME NEW e \in Evals, NEW st \in Status, ReceiveEval(e, st)
        PROVE  UNCHANGED <<queue, held>>
    BY <2>5 DEF ReceiveEval
  <2>6. ASSUME NEW c \in Jobs, CancelRunning(c) \/ KeepFired(c) \/ ExamineChain(c)
        PROVE  UNCHANGED <<queue, held>>
    BY <2>6 DEF CancelRunning, KeepFired, ExamineChain
  <2>7. ASSUME ScalingDone \/ TimerExpires \/ StartSummary \/ RejectChain
               \/ EndSummary \/ UNCHANGED vars \/ \E c \in Jobs : PurgeJob(c)
        PROVE  UNCHANGED <<queue, held>>
    BY <2>7 DEF ScalingDone, TimerExpires, StartSummary, RejectChain,
                EndSummary, vars, PurgeJob
  <2> QED
    BY <2>1, <2>2, <2>3, <2>4, <2>5, <2>6, <2>7 DEF Next, SummaryStep, VisitChain
<1> QED
  BY <1>1, <1>2, Invariance, PTL DEF Spec, ImplementsEventQueue, Queue!Spec
=============================================================================
