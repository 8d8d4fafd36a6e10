------------------------------ MODULE ChannelCallProofs ------------------------------
(* Theorems about voice channels for any number of users, channels, sockets   *)
(* and service calls in flight.                                               *)
EXTENDS MCChannelCall, FiniteSetTheorems, WellFoundedInduction, TLAPS

-----------------------------------------------------------------------------
(* Sums over finite sets.                                                    *)

Pick(s) == CHOOSE a \in s : TRUE

(* g holds the sum of f over each subset of T.                               *)
IsSum(f, T, g) ==
  g = [s \in SUBSET T |-> IF s = {} THEN 0 ELSE f[Pick(s)] + g[s \ {Pick(s)}]]

Total(f, T) == (CHOOSE g : IsSum(f, T, g))[T]

(* A set of subsets of T that T is not in leaves out one whose own strict    *)
(* subsets it all holds.                                                     *)
LEMMA LeastSubset ==
  ASSUME NEW T, IsFiniteSet(T), NEW Good, T \notin Good
  PROVE  \E s \in SUBSET T : s \notin Good /\ \A r \in SUBSET s : r # s => r \in Good
<1> DEFINE Bad == {s \in SUBSET T : s \notin Good}
<1>1. IsWellFoundedOn(StrictSubsetOrdering(T), FiniteSubsetsOf(T))
  BY FS_StrictSubsetOrderingWellFounded
<1>2. Bad \subseteq FiniteSubsetsOf(T) /\ Bad # {}
  BY FS_Subset DEF FiniteSubsetsOf
<1>3. PICK s \in Bad : \A r \in Bad : <<r, s>> \notin StrictSubsetOrdering(T)
  <2> HIDE DEF Bad
  <2> QED
    BY <1>1, <1>2, WFMin
<1>4. ASSUME NEW r \in SUBSET s, r # s PROVE r \in Good
  <2>1. <<r, s>> \in StrictSubsetOrdering(T)
    BY <1>3, <1>4 DEF StrictSubsetOrdering
  <2> QED
    BY <1>3, <1>4, <2>1
<1> QED
  BY <1>3, <1>4

LEMMA LeastNumber ==
  ASSUME NEW Bad, Bad \subseteq Nat, Bad # {}
  PROVE  \E n \in Bad : \A m \in Bad : ~ m < n
<1>1. PICK n \in Bad : \A m \in Bad : <<m, n>> \notin OpToRel(<, Nat)
  BY NatLessThanWellFounded, WFMin
<1>2. \A m \in Bad : m < n => <<m, n>> \in OpToRel(<, Nat)
  BY Zenon DEF OpToRel
<1> QED
  BY <1>1, <1>2, Zenon

LEMMA PickIn == ASSUME NEW s, s # {} PROVE Pick(s) \in s
BY DEF Pick

(* What the equation says of one subset.                                     *)
LEMMA SumAt ==
  ASSUME NEW f, NEW T, NEW g, IsSum(f, T, g), NEW s, s \subseteq T
  PROVE  g[s] = IF s = {} THEN 0 ELSE f[Pick(s)] + g[s \ {Pick(s)}]
<1> DEFINE e == [r \in SUBSET T |-> IF r = {} THEN 0 ELSE f[Pick(r)] + g[r \ {Pick(r)}]]
<1>1. g = e
  BY DEF IsSum
<1>2. e[s] = IF s = {} THEN 0 ELSE f[Pick(s)] + g[s \ {Pick(s)}]
  OBVIOUS
<1> HIDE DEF e
<1> QED
  BY <1>1, <1>2

(* A finite set has a sum.                                                   *)
LEMMA SumExists ==
  ASSUME NEW T, IsFiniteSet(T), NEW f, \A a \in T : f[a] \in Int
  PROVE  \E g : IsSum(f, T, g)
<1> DEFINE Part(n) == {s \in SUBSET T : Cardinality(s) <= n}
           UpTo(g, n) == \A s \in Part(n) : g[s] = IF s = {} THEN 0
                           ELSE f[Pick(s)] + g[s \ {Pick(s)}]
           Bad == {n \in Nat : ~ \E g : UpTo(g, n)}
<1>s. \A s \in SUBSET T : IsFiniteSet(s) /\ Cardinality(s) \in Nat
  BY FS_Subset, FS_CardinalityType
<1>1. Bad = {}
  <2> SUFFICES ASSUME Bad # {} PROVE FALSE
    OBVIOUS
  <2>1. PICK n \in Bad : \A m \in Bad : ~ m < n
    <3> HIDE DEF UpTo
    <3>1. Bad \subseteq Nat
      OBVIOUS
    <3> HIDE DEF Bad
    <3> QED
      BY <3>1, LeastNumber
  <2>2. n \in Nat
    OBVIOUS
  <2>3. CASE n = 0
    <3> DEFINE g == [s \in SUBSET T |-> 0]
    <3>1. \A s \in Part(n) : s = {}
      BY <1>s, <2>3, FS_EmptySet
    <3>2. UpTo(g, n)
      BY <3>1
    <3> QED
      BY <3>2
  <2>4. CASE n # 0
    <3>1. n - 1 \in Nat /\ n - 1 < n
      BY <2>2, <2>4
    <3>2. PICK g : UpTo(g, n - 1)
      BY <2>1, <3>1
    <3> DEFINE e == [s \in SUBSET T |-> IF s \in Part(n - 1) THEN g[s]
                                        ELSE f[Pick(s)] + g[s \ {Pick(s)}]]
    <3>3. ASSUME NEW s \in Part(n), s # {}
          PROVE  s \ {Pick(s)} \in Part(n - 1)
      <4>1. Cardinality(s \ {Pick(s)}) = Cardinality(s) - 1
        BY <1>s, <3>3, PickIn, FS_RemoveElement
      <4> QED
        BY <1>s, <2>2, <4>1
    <3>4. \A s \in Part(n - 1) : e[s] = g[s]
      OBVIOUS
    <3>5. {} \in Part(n - 1)
      <4>1. Cardinality({}) = 0 /\ 0 <= n - 1
        BY <3>1, FS_EmptySet
      <4>2. Cardinality({}) <= n - 1
        BY <4>1
      <4> QED
        BY <4>2
    <3>6. ASSUME NEW s \in Part(n)
          PROVE  e[s] = IF s = {} THEN 0 ELSE f[Pick(s)] + e[s \ {Pick(s)}]
      <4>1. CASE s = {}
        <5> HIDE DEF Part
        <5> QED
          BY <3>2, <3>4, <3>5, <4>1
      <4>2. CASE s # {}
        <5>1. e[s \ {Pick(s)}] = g[s \ {Pick(s)}]
          BY <3>3, <3>4, <4>2
        <5>2. e[s] = f[Pick(s)] + g[s \ {Pick(s)}]
          BY <3>2, <4>2
        <5> QED
          BY <4>2, <5>1, <5>2
      <4> QED
        BY <4>1, <4>2
    <3> HIDE DEF e
    <3>7. UpTo(e, n)
      BY <3>6
    <3> QED
      BY <3>7
  <2> QED
    BY <2>3, <2>4
<1>2. PICK g : UpTo(g, Cardinality(T))
  BY <1>1, <1>s
<1>3. \A s \in SUBSET T : s \in Part(Cardinality(T))
  BY FS_Subset
<1> DEFINE e == [s \in SUBSET T |-> g[s]]
<1>4. \A s \in SUBSET T : e[s] = IF s = {} THEN 0 ELSE f[Pick(s)] + e[s \ {Pick(s)}]
  BY <1>2, <1>3
<1>5. IsSum(f, T, e)
  <2>1. e = [s \in SUBSET T |-> e[s]]
    OBVIOUS
  <2> HIDE DEF e
  <2> QED
    BY <1>4, <2>1 DEF IsSum
<1> QED
  BY <1>5

(* The sums of equal terms are equal.                                        *)
LEMMA SumsAgree ==
  ASSUME NEW T, NEW U, IsFiniteSet(U), U \subseteq T, NEW f, NEW e, NEW g, NEW h,
         IsSum(f, T, g), IsSum(e, U, h), \A a \in U : f[a] = e[a]
  PROVE  g[U] = h[U]
<1> DEFINE Good == {s \in SUBSET U : g[s] = h[s]}
<1> SUFFICES ASSUME U \notin Good PROVE FALSE
  OBVIOUS
<1>1. PICK s \in SUBSET U : s \notin Good /\ \A r \in SUBSET s : r # s => r \in Good
  <2> HIDE DEF Good
  <2> QED
    BY LeastSubset
<1>2. CASE s = {}
  <2>1. g[s] = 0 /\ h[s] = 0
    BY <1>2, SumAt
  <2> QED
    BY <1>1, <2>1
<1>3. CASE s # {}
  <2>1. Pick(s) \in s
    BY <1>3, PickIn
  <2>2. g[s \ {Pick(s)}] = h[s \ {Pick(s)}]
    BY <1>1, <2>1
  <2>s. s \subseteq T /\ s \subseteq U
    OBVIOUS
  <2>3. g[s] = f[Pick(s)] + g[s \ {Pick(s)}]
    BY <1>3, <2>s, SumAt
  <2>4. h[s] = e[Pick(s)] + h[s \ {Pick(s)}]
    BY <1>3, <2>s, SumAt
  <2> QED
    BY <1>1, <2>1, <2>2, <2>3, <2>4
<1> QED
  BY <1>2, <1>3

(* A sum of integers is an integer, and any term can be taken out first.     *)
LEMMA SumTyped ==
  ASSUME NEW T, IsFiniteSet(T), NEW f, \A a \in T : f[a] \in Int, NEW g, IsSum(f, T, g)
  PROVE  g[T] \in Int
<1> DEFINE Good == {s \in SUBSET T : g[s] \in Int}
<1> SUFFICES ASSUME T \notin Good PROVE FALSE
  OBVIOUS
<1>1. PICK s \in SUBSET T : s \notin Good /\ \A r \in SUBSET s : r # s => r \in Good
  <2> HIDE DEF Good
  <2> QED
    BY LeastSubset
<1>2. CASE s = {}
  <2>1. g[s] = 0
    BY <1>2, SumAt
  <2> QED
    BY <1>1, <2>1
<1>3. CASE s # {}
  <2>1. Pick(s) \in s
    BY <1>3, PickIn
  <2>2. g[s \ {Pick(s)}] \in Int
    BY <1>1, <2>1
  <2>3. g[s] = f[Pick(s)] + g[s \ {Pick(s)}] /\ f[Pick(s)] \in Int
    BY <1>3, <2>1, SumAt
  <2> QED
    BY <1>1, <2>2, <2>3
<1> QED
  BY <1>2, <1>3

LEMMA SumTakes ==
  ASSUME NEW T, IsFiniteSet(T), NEW f, \A a \in T : f[a] \in Int, NEW g, IsSum(f, T, g),
         NEW a \in T
  PROVE  g[T] = f[a] + g[T \ {a}]
<1> DEFINE Good == {s \in SUBSET T : \A y \in s : g[s] = f[y] + g[s \ {y}]}
<1> SUFFICES ASSUME T \notin Good PROVE FALSE
  OBVIOUS
<1>0. \A s \in SUBSET T : g[s] \in Int
  <2> TAKE s \in SUBSET T
  <2>1. IsFiniteSet(s)
    BY FS_Subset
  <2>2. PICK h : IsSum(f, s, h)
    BY <2>1, SumExists
  <2>3. g[s] = h[s]
    BY <2>1, <2>2, SumsAgree
  <2>4. h[s] \in Int
    BY <2>1, <2>2, SumTyped
  <2> QED
    BY <2>3, <2>4
<1>1. PICK s \in SUBSET T : s \notin Good /\ \A r \in SUBSET s : r # s => r \in Good
  <2> HIDE DEF Good
  <2> QED
    BY LeastSubset
<1>2. PICK y \in s : g[s] # f[y] + g[s \ {y}]
  BY <1>1
<1> DEFINE p == Pick(s)
<1>3. p \in s /\ g[s] = f[p] + g[s \ {p}]
  BY <1>2, PickIn, SumAt
<1> HIDE DEF p
<1>4. p # y
  BY <1>2, <1>3
<1>5. s \ {p} \in Good /\ s \ {y} \in Good
  <2>1. p \in s
    BY <1>3
  <2>2. s \ {p} \in SUBSET s /\ s \ {p} # s /\ s \ {y} \in SUBSET s /\ s \ {y} # s
    BY <2>1
  <2> HIDE DEF Good
  <2> QED
    BY <1>1, <2>2
<1>6. g[s \ {p}] = f[y] + g[(s \ {p}) \ {y}] /\ g[s \ {y}] = f[p] + g[(s \ {y}) \ {p}]
  BY <1>3, <1>4, <1>5
<1> HIDE DEF Good
<1>7. (s \ {p}) \ {y} = (s \ {y}) \ {p}
  OBVIOUS
<1>8. f[p] \in Int /\ f[y] \in Int /\ g[(s \ {y}) \ {p}] \in Int
  BY <1>0, <1>3
<1>9. g[s] = f[p] + (f[y] + g[(s \ {y}) \ {p}])
  BY <1>3, <1>6, <1>7
<1>10. f[p] + (f[y] + g[(s \ {y}) \ {p}]) = f[y] + (f[p] + g[(s \ {y}) \ {p}])
  BY <1>8
<1> QED
  BY <1>2, <1>6, <1>9, <1>10

(* The three facts about a total.                                            *)
LEMMA TotalIs ==
  ASSUME NEW T, IsFiniteSet(T), NEW f, \A a \in T : f[a] \in Int, NEW g, IsSum(f, T, g)
  PROVE  Total(f, T) = g[T]
<1>1. IsSum(f, T, CHOOSE h : IsSum(f, T, h))
  BY SumExists
<1> QED
  BY <1>1, SumsAgree DEF Total

LEMMA TotalTyped ==
  ASSUME NEW T, IsFiniteSet(T), NEW f, \A a \in T : f[a] \in Int
  PROVE  Total(f, T) \in Int
<1>1. PICK g : IsSum(f, T, g)
  BY SumExists
<1> QED
  BY <1>1, TotalIs, SumTyped

LEMMA TotalTakes ==
  ASSUME NEW T, IsFiniteSet(T), NEW f, \A a \in T : f[a] \in Int, NEW a \in T
  PROVE  Total(f, T) = f[a] + Total(f, T \ {a})
<1>1. PICK g : IsSum(f, T, g)
  BY SumExists
<1>2. IsFiniteSet(T \ {a}) /\ \A y \in T \ {a} : f[y] \in Int
  BY FS_RemoveElement
<1>3. PICK h : IsSum(f, T \ {a}, h)
  BY <1>2, SumExists
<1>4. g[T \ {a}] = h[T \ {a}]
  BY <1>1, <1>2, <1>3, SumsAgree
<1>5. g[T] = f[a] + g[T \ {a}]
  BY <1>1, SumTakes
<1>6. Total(f, T) = g[T] /\ Total(f, T \ {a}) = h[T \ {a}]
  BY <1>1, <1>2, <1>3, TotalIs
<1> QED
  BY <1>4, <1>5, <1>6

LEMMA TotalsAgree ==
  ASSUME NEW T, IsFiniteSet(T), NEW f, NEW e, \A a \in T : f[a] \in Int /\ e[a] = f[a]
  PROVE  Total(f, T) = Total(e, T)
<1>1. PICK g : IsSum(f, T, g)
  BY SumExists
<1>2. PICK h : IsSum(e, T, h)
  BY SumExists
<1> QED
  BY <1>1, <1>2, SumsAgree, TotalIs

-----------------------------------------------------------------------------
(* Counted, as a sum over the documents of a channel.                        *)

CountOf(v, S) == MapThenSumSet(LAMBDA c : v[c].count, S)

LEMMA CountIsTotal ==
  ASSUME NEW v, NEW S, IsFiniteSet(S), \A c \in S : v[c].count \in Int
  PROVE  CountOf(v, S) = Total([c \in S |-> v[c].count], S)
<1> DEFINE f == [c \in S |-> v[c].count]
           R(g) == [s \in SUBSET S |->
                      IF s = {} THEN 0 ELSE v[Pick(s)].count + g[s \ {Pick(s)}]]
           Q(g) == [s \in SUBSET S |->
                      IF s = {} THEN 0 ELSE f[Pick(s)] + g[s \ {Pick(s)}]]
           G == CHOOSE g : g = R(g)
<1>1. CountOf(v, S) = G[S]
  BY DEF CountOf, MapThenSumSet, MapThenFoldSet, Pick
<1>2. \A a \in S : f[a] \in Int
  OBVIOUS
<1>3. ASSUME NEW g PROVE R(g) = Q(g)
  <2>1. ASSUME NEW s \in SUBSET S, s # {} PROVE v[Pick(s)].count = f[Pick(s)]
    BY <2>1, PickIn
  <2> HIDE DEF f
  <2> QED
    BY <2>1
<1>4. \A g : IsSum(f, S, g) <=> g = Q(g)
  BY DEF IsSum
<1> HIDE DEF f, R, Q
<1>5. \E g : g = R(g)
  BY <1>2, <1>3, <1>4, SumExists
<1>6. G = R(G)
  BY <1>5
<1> HIDE DEF G
<1>7. IsSum(f, S, G)
  BY <1>3, <1>4, <1>6
<1>8. Total(f, S) = G[S]
  BY <1>2, <1>7, TotalIs
<1> USE DEF f
<1> QED
  BY <1>1, <1>8

LEMMA CountTyped ==
  ASSUME NEW v, NEW S, IsFiniteSet(S), \A c \in S : v[c].count \in Int
  PROVE  CountOf(v, S) \in Int
<1> DEFINE f == [c \in S |-> v[c].count]
<1>1. \A a \in S : f[a] \in Int
  OBVIOUS
<1>2. CountOf(v, S) = Total(f, S)
  BY CountIsTotal
<1> HIDE DEF f
<1> QED
  BY <1>1, <1>2, TotalTyped

LEMMA CountsAgree ==
  ASSUME NEW v, NEW w, NEW S, IsFiniteSet(S),
         \A c \in S : v[c].count \in Int /\ w[c].count = v[c].count
  PROVE  CountOf(w, S) = CountOf(v, S)
<1> DEFINE f == [c \in S |-> v[c].count]
           e == [c \in S |-> w[c].count]
<1>1. \A a \in S : f[a] \in Int /\ e[a] = f[a]
  OBVIOUS
<1>2. CountOf(v, S) = Total(f, S) /\ CountOf(w, S) = Total(e, S)
  BY CountIsTotal
<1> HIDE DEF f, e
<1> QED
  BY <1>1, <1>2, TotalsAgree

(* A document's count can be taken out of the sum.                           *)
LEMMA CountTakes ==
  ASSUME NEW v, NEW S, IsFiniteSet(S), \A c \in S : v[c].count \in Int, NEW d \in S
  PROVE  CountOf(v, S) = v[d].count + CountOf(v, S \ {d})
<1> DEFINE f == [c \in S |-> v[c].count]
           e == [c \in S \ {d} |-> v[c].count]
<1>1. \A a \in S : f[a] \in Int
  OBVIOUS
<1>2. IsFiniteSet(S \ {d}) /\ \A a \in S \ {d} : e[a] = f[a] /\ f[a] \in Int
  BY FS_RemoveElement
<1>3. CountOf(v, S) = Total(f, S) /\ CountOf(v, S \ {d}) = Total(e, S \ {d})
  BY <1>2, CountIsTotal
<1>4. f[d] = v[d].count
  OBVIOUS
<1> HIDE DEF f, e
<1>5. Total(f, S) = f[d] + Total(f, S \ {d})
  BY <1>1, TotalTakes
<1>6. Total(f, S \ {d}) = Total(e, S \ {d})
  BY <1>2, TotalsAgree
<1> QED
  BY <1>3, <1>4, <1>5, <1>6

(* One document's count changes, and with it the sum.                        *)
LEMMA CountSteps ==
  ASSUME NEW v, NEW w, NEW S, IsFiniteSet(S), NEW d \in S, NEW n \in Int,
         \A c \in S : v[c].count \in Int,
         \A c \in S \ {d} : w[c].count = v[c].count,
         w[d].count = v[d].count + n
  PROVE  CountOf(w, S) = CountOf(v, S) + n
<1>1. IsFiniteSet(S \ {d}) /\ \A c \in S : w[c].count \in Int
  BY FS_RemoveElement
<1>2. CountOf(v, S) = v[d].count + CountOf(v, S \ {d})
  BY CountTakes
<1>3. CountOf(w, S) = w[d].count + CountOf(w, S \ {d})
  BY <1>1, CountTakes
<1>4. CountOf(w, S \ {d}) = CountOf(v, S \ {d}) /\ CountOf(v, S \ {d}) \in Int
  BY <1>1, CountsAgree, CountTyped
<1> QED
  BY <1>2, <1>3, <1>4

(* A document is created with the count 0.                                   *)
LEMMA CountGrows ==
  ASSUME NEW v, NEW w, NEW S, IsFiniteSet(S), NEW d, d \notin S,
         \A c \in S : v[c].count \in Int /\ w[c].count = v[c].count,
         w[d].count = 0
  PROVE  CountOf(w, S \cup {d}) = CountOf(v, S)
<1> DEFINE U == S \cup {d}
<1>1. IsFiniteSet(U) /\ d \in U /\ U \ {d} = S /\ \A c \in U : w[c].count \in Int
  BY FS_AddElement
<1> HIDE DEF U
<1>2. CountOf(w, U) = w[d].count + CountOf(w, U \ {d})
  BY <1>1, CountTakes
<1>3. CountOf(w, S) = CountOf(v, S) /\ CountOf(v, S) \in Int
  BY CountsAgree, CountTyped
<1>4. CountOf(w, U) = w[d].count + CountOf(w, S)
  <2>1. U \ {d} = S
    BY <1>1
  <2> QED
    BY <1>2, <2>1, Zenon
<1>5. CountOf(w, U) = CountOf(v, S)
  BY <1>3, <1>4
<1> QED
  BY <1>5 DEF U

-----------------------------------------------------------------------------
(* What is stored and what the service calls in flight remember of it.       *)

Stored == {c \in Calls : voice[c] # None}
Taken == {p \in Places : part[p] # None}

FiniteInv == IsFiniteSet(Busy) /\ IsFiniteSet(Stored) /\ IsFiniteSet(Taken)

(* What a service call has read is still so, but for a participant that is   *)
(* gone by now: calls are never deleted, and an id is not used twice.        *)
Sound(h) ==
  /\ h.step \in {"look", "insert", "count"} =>
       h.channel \in Channels /\ h.call \in CallsOf(h.channel)
  /\ h.step \in {"find", "create", "leave", "drop"} => h.channel \in Channels
  /\ h.step \in {"delete", "uncount"} => h.call \in Stored
  /\ h.step = "delete" =>
       h.part \in Places /\ (part[h.part] # None => part[h.part].channel = voice[h.call].channel)
  /\ \A a \in h.rest : part[a[1]] # None => part[a[1]].channel = a[2]

TaskInv == \A t \in Busy : Sound(task[t])

(* Who has inserted a participant of the channel and not yet counted it, and *)
(* who has deleted one, or found it gone, and not yet counted that.          *)
Adding(ch) == {t \in Tasks : At(t, "count") /\ task[t].call \in CallsOf(ch)}
Subtracting(ch) == {t \in Tasks : At(t, "uncount") /\ task[t].call \in CallsOf(ch)}

(* How far the counts of a channel lag behind, the calls in flight included. *)
Slack(ch) ==
  Cardinality(PartsIn(ch)) + Cardinality(Subtracting(ch))
    - Cardinality(Adding(ch)) - Counted(ch)

NoDebt == \A ch \in Channels : Slack(ch) >= 0

VoiceInv == TypeOK /\ FiniteInv /\ TaskInv /\ NoDebt

-----------------------------------------------------------------------------
(* Records.                                                                  *)

LEMMA BusyTask ==
  ASSUME TypeOK, NEW t \in Tasks, task[t] # None
  PROVE  /\ t \in Busy /\ task[t] \in Task /\ task[t].user \in Users
         /\ task[t].channel \in Channels \cup {None} /\ task[t].next \in Channels \cup {None}
         /\ task[t].sock \in Sockets \cup {None}
         /\ task[t].call \in Calls \cup {None} /\ task[t].part \in Places \cup {None}
         /\ task[t].rest \subseteq Places \X Channels
BY DEF TypeOK, Busy, Task

TaskStep == {"find", "create", "look", "insert", "count", "leave", "delete", "uncount",
             "list", "sweep", "drop"}

LEMMA CallMade ==
  ASSUME NEW step \in TaskStep, NEW u \in Users, NEW ch \in Channels \cup {None},
         NEW nx \in Channels \cup {None}, NEW s \in Sockets \cup {None}
  PROVE  LET y == Call(step, u, ch, nx, s) IN
         /\ y \in Task /\ y.step = step /\ y.user = u /\ y.channel = ch /\ y.next = nx
         /\ y.sock = s /\ y.call = None /\ y.part = None /\ y.rest = {}
BY DEF Call, Task, TaskStep

LEMMA TaskGoes ==
  ASSUME NEW h \in Task, NEW step \in TaskStep
  PROVE  LET y == [h EXCEPT !.step = step] IN
         /\ y \in Task /\ y.step = step /\ y.user = h.user /\ y.channel = h.channel
         /\ y.next = h.next /\ y.sock = h.sock /\ y.call = h.call /\ y.part = h.part
         /\ y.rest = h.rest
BY DEF Task, TaskStep

LEMMA TaskFinds ==
  ASSUME NEW h \in Task, NEW c \in Calls
  PROVE  LET y == [h EXCEPT !.step = "look", !.call = c] IN
         /\ y \in Task /\ y.step = "look" /\ y.user = h.user /\ y.channel = h.channel
         /\ y.next = h.next /\ y.sock = h.sock /\ y.call = c /\ y.part = h.part
         /\ y.rest = h.rest
BY DEF Task

LEMMA TaskDeletes ==
  ASSUME NEW h \in Task
  PROVE  LET y == [h EXCEPT !.step = "uncount", !.part = None] IN
         /\ y \in Task /\ y.step = "uncount" /\ y.user = h.user /\ y.channel = h.channel
         /\ y.next = h.next /\ y.sock = h.sock /\ y.call = h.call /\ y.part = None
         /\ y.rest = h.rest
BY DEF Task

-----------------------------------------------------------------------------
(* Sets that gain or lose one element.                                       *)

Bit(b) == IF b THEN 1 ELSE 0

LEMMA OneElement ==
  ASSUME NEW S, NEW R, NEW a, IsFiniteSet(S), R \ {a} = S \ {a}
  PROVE  /\ IsFiniteSet(R)
         /\ Cardinality(R) = Cardinality(S) + Bit(a \in R) - Bit(a \in S)
         /\ Cardinality(S) \in Nat /\ Cardinality(R) \in Nat
<1> DEFINE Q == S \ {a}
<1>1. IsFiniteSet(Q) /\ Cardinality(Q) = Cardinality(S) - Bit(a \in S)
  BY FS_RemoveElement, FS_CardinalityType DEF Bit
<1>2. R = IF a \in R THEN Q \cup {a} ELSE Q
  OBVIOUS
<1>3. a \notin Q /\ Cardinality(Q) \in Nat /\ Cardinality(S) \in Nat
  BY <1>1, FS_CardinalityType
<1> HIDE DEF Q
<1>4. CASE a \in R
  <2>1. R = Q \cup {a}
    BY <1>2, <1>4
  <2>2. IsFiniteSet(Q \cup {a}) /\ Cardinality(Q \cup {a}) = Cardinality(Q) + 1
    BY <1>1, <1>3, FS_AddElement
  <2>3. IsFiniteSet(R) /\ Cardinality(R) = Cardinality(Q) + 1
    BY <2>1, <2>2, Zenon
  <2>4. Bit(a \in R) = 1
    BY <1>4 DEF Bit
  <2>5. Bit(a \in S) \in Int
    BY DEF Bit
  <2> QED
    BY <1>1, <1>3, <2>3, <2>4, <2>5
<1>5. CASE a \notin R
  <2>1. R = Q
    BY <1>2, <1>5
  <2>2. IsFiniteSet(R) /\ Cardinality(R) = Cardinality(Q)
    BY <1>1, <2>1, Zenon
  <2>3. Bit(a \in R) = 0
    BY <1>5 DEF Bit
  <2>4. Bit(a \in S) \in Int
    BY DEF Bit
  <2> QED
    BY <1>1, <1>3, <2>2, <2>3, <2>4
<1> QED
  BY <1>4, <1>5

-----------------------------------------------------------------------------
(* One service call takes a step: at most one document of either collection  *)
(* changes, and no call document changes hands.                              *)

Steps(t, y, c, p) ==
  /\ task' = [task EXCEPT ![t] = y]
  /\ voice' \in [Calls -> Voice \cup {None}] /\ part' \in [Places -> Participant \cup {None}]
  /\ meta' \in [Sockets -> Meta]
  /\ \A d \in Calls \ {c} : voice'[d] = voice[d]
  /\ \A d \in Calls : voice[d] # None => voice'[d] # None /\ voice'[d].channel = voice[d].channel
  /\ \A q \in Places \ {p} : part'[q] = part[q]
  /\ part'[p] \in {part[p], None} \/ p \in FreshPlaces
  /\ y # None => Sound(y)'

(* The other calls' memories hold.                                           *)
LEMMA OthersSound ==
  ASSUME TypeOK, TaskInv, NEW t \in Tasks, NEW y \in Task \cup {None}, NEW c, NEW p,
         Steps(t, y, c, p), NEW r \in Busy, r # t
  PROVE  Sound(task[r])'
<1>0. PICK h : h = task[r]
  OBVIOUS
<1>1. h \in Task /\ h.rest \subseteq Places \X Channels /\ Sound(h)
  BY <1>0, BusyTask DEF Busy, TaskInv
<1>2. task'[r] = h
  BY <1>0 DEF Steps, TypeOK, Busy
<1>3. \A ch \in Channels : h.call \in CallsOf(ch) => h.call \in CallsOf(ch)'
  BY DEF CallsOf, Steps
<1>4. h.call \in Stored => h.call \in Stored' /\ voice'[h.call].channel = voice[h.call].channel
  BY DEF Stored, Steps
<1>5. \A q \in Places, ch \in Channels : q = h.part \/ <<q, ch>> \in h.rest => part'[q] \in {part[q], None}
  BY <1>0 DEF Steps, FreshPlaces
<1>6. ASSUME NEW a \in h.rest, part'[a[1]] # None PROVE part'[a[1]].channel = a[2]
  <2>1. a[1] \in Places /\ a[2] \in Channels /\ a = <<a[1], a[2]>>
    BY <1>1
  <2>2. part'[a[1]] = part[a[1]]
    BY <1>5, <1>6, <2>1
  <2> QED
    BY <1>1, <1>6, <2>2 DEF Sound
<1>7. ASSUME h.step = "delete"
      PROVE  h.part \in Places /\ (part'[h.part] # None => part'[h.part].channel = voice'[h.call].channel)
  <2>1. h.part \in Places /\ h.call \in Stored
        /\ (part[h.part] # None => part[h.part].channel = voice[h.call].channel)
    BY <1>1, <1>7 DEF Sound
  <2>2. voice[h.call].channel \in Channels
    BY <2>1 DEF Stored, TypeOK, Voice
  <2>3. part'[h.part] \in {part[h.part], None}
    BY <1>5, <2>1, <2>2
  <2> QED
    BY <1>4, <2>1, <2>3
<1>8. Sound(h)'
  BY <1>1, <1>3, <1>4, <1>6, <1>7 DEF Sound
<1> QED
  BY <1>2, <1>8 DEF Sound

LEMMA TaskMoves ==
  ASSUME TypeOK, FiniteInv, TaskInv, NEW t \in Tasks, NEW y \in Task \cup {None}, NEW c, NEW p,
         Steps(t, y, c, p)
  PROVE  TypeOK' /\ FiniteInv' /\ TaskInv'
<1>1. task' \in [Tasks -> Task \cup {None}] /\ task'[t] = y
      /\ \A r \in Tasks \ {t} : task'[r] = task[r]
  BY DEF Steps, TypeOK
<1>2. TypeOK'
  BY <1>1 DEF Steps, TypeOK
<1>3. TaskInv'
  <2>1. ASSUME NEW r \in Busy', r # t PROVE Sound(task[r])'
    BY <1>1, <2>1, OthersSound DEF Busy
  <2>2. ASSUME t \in Busy' PROVE Sound(task[t])'
    <3>1. y # None /\ task'[t] = y
      BY <1>1, <2>2 DEF Busy
    <3> QED
      BY <3>1 DEF Steps, Sound
  <2> QED
    BY <2>1, <2>2 DEF TaskInv
<1>4. Busy' \ {t} = Busy \ {t}
  BY <1>1 DEF Busy
<1>5. Stored' \ {c} = Stored \ {c}
  BY DEF Steps, Stored
<1>6. Taken' \ {p} = Taken \ {p}
  BY DEF Steps, Taken
<1>7. FiniteInv'
  BY <1>4, <1>5, <1>6, OneElement DEF FiniteInv
<1> QED
  BY <1>2, <1>3, <1>7

(* What the step does to the slack of a channel.                             *)
LEMMA FiniteOf ==
  ASSUME FiniteInv, NEW ch
  PROVE  /\ IsFiniteSet(CallsOf(ch)) /\ IsFiniteSet(PartsIn(ch))
         /\ IsFiniteSet(Adding(ch)) /\ IsFiniteSet(Subtracting(ch))
<1>1. CallsOf(ch) \subseteq Stored /\ PartsIn(ch) \subseteq Taken
  BY DEF CallsOf, PartsIn, Stored, Taken
<1>2. Adding(ch) \subseteq Busy /\ Subtracting(ch) \subseteq Busy
  BY DEF Adding, Subtracting, At, Busy
<1> QED
  BY <1>1, <1>2, FS_Subset DEF FiniteInv

LEMMA CountedIs ==
  /\ \A ch : Counted(ch) = CountOf(voice, CallsOf(ch))
  /\ \A ch : Counted(ch)' = CountOf(voice', CallsOf(ch)')
BY DEF Counted, CountOf, MapThenSumSet, MapThenFoldSet

LEMMA CountedTyped ==
  ASSUME TypeOK, FiniteInv, NEW ch
  PROVE  Counted(ch) \in Int
<1>1. \A c \in CallsOf(ch) : voice[c].count \in Int
  BY DEF CallsOf, TypeOK, Voice
<1> QED
  BY <1>1, CountedIs, FiniteOf, CountTyped

LEMMA SlackMoves ==
  ASSUME TypeOK, FiniteInv, TaskInv, NEW t \in Tasks, NEW y \in Task \cup {None}, NEW c, NEW p,
         Steps(t, y, c, p), NEW ch \in Channels, NEW n \in Int, Counted(ch)' = Counted(ch) + n
  PROVE  /\ Slack(ch) \in Int
         /\ Slack(ch)' = Slack(ch) - n
              + Bit(p \in PartsIn(ch)') - Bit(p \in PartsIn(ch))
              + Bit(t \in Subtracting(ch)') - Bit(t \in Subtracting(ch))
              - Bit(t \in Adding(ch)') + Bit(t \in Adding(ch))
<1>1. PartsIn(ch)' \ {p} = PartsIn(ch) \ {p}
  BY DEF PartsIn, Steps
<1>2. ASSUME NEW r \in Tasks, r # t
      PROVE  /\ r \in Adding(ch)' <=> r \in Adding(ch)
             /\ r \in Subtracting(ch)' <=> r \in Subtracting(ch)
  <2>1. task'[r] = task[r]
    BY <1>2 DEF Steps, TypeOK
  <2>2. At(r, "count") \/ At(r, "uncount") => task[r].call \in Stored
    BY DEF At, TaskInv, Sound, Busy, CallsOf, Stored
  <2>3. task[r].call \in Stored =>
          (task[r].call \in CallsOf(ch)' <=> task[r].call \in CallsOf(ch))
    BY DEF Stored, CallsOf, Steps
  <2> QED
    BY <2>1, <2>2, <2>3 DEF Adding, Subtracting, At
<1>3. Adding(ch)' \ {t} = Adding(ch) \ {t}
  <2>1. Adding(ch) \subseteq Tasks /\ Adding(ch)' \subseteq Tasks
    BY DEF Adding
  <2> QED
    BY <1>2, <2>1
<1>4. Subtracting(ch)' \ {t} = Subtracting(ch) \ {t}
  <2>1. Subtracting(ch) \subseteq Tasks /\ Subtracting(ch)' \subseteq Tasks
    BY DEF Subtracting
  <2> QED
    BY <1>2, <2>1
<1> DEFINE P == PartsIn(ch)
           S == Subtracting(ch)
           A == Adding(ch)
<1>5. IsFiniteSet(P) /\ IsFiniteSet(S) /\ IsFiniteSet(A) /\ Counted(ch) \in Int
  BY FiniteOf, CountedTyped
<1>6. /\ Cardinality(P') = Cardinality(P) + Bit(p \in P') - Bit(p \in P)
      /\ Cardinality(P) \in Nat /\ Cardinality(P') \in Nat
  BY <1>1, <1>5, OneElement
<1>7. /\ Cardinality(S') = Cardinality(S) + Bit(t \in S') - Bit(t \in S)
      /\ Cardinality(S) \in Nat /\ Cardinality(S') \in Nat
  BY <1>4, <1>5, OneElement
<1>8. /\ Cardinality(A') = Cardinality(A) + Bit(t \in A') - Bit(t \in A)
      /\ Cardinality(A) \in Nat /\ Cardinality(A') \in Nat
  BY <1>3, <1>5, OneElement
<1>9. /\ Slack(ch) = Cardinality(P) + Cardinality(S) - Cardinality(A) - Counted(ch)
      /\ Slack(ch)' = Cardinality(P') + Cardinality(S') - Cardinality(A') - Counted(ch)'
  BY DEF Slack
<1>10. \A b : Bit(b) \in Int
  BY DEF Bit
<1> HIDE DEF P, S, A
<1>11. /\ Slack(ch) \in Int
       /\ Slack(ch)' = Slack(ch) - n + Bit(p \in P') - Bit(p \in P)
              + Bit(t \in S') - Bit(t \in S) - Bit(t \in A') + Bit(t \in A)
  BY <1>5, <1>6, <1>7, <1>8, <1>9, <1>10
<1> QED
  BY <1>11 DEF P, S, A

(* The counts after a step.                                                  *)
LEMMA CountedSame ==
  ASSUME voice' = voice, NEW ch
  PROVE  Counted(ch)' = Counted(ch) /\ CallsOf(ch)' = CallsOf(ch)
BY CountedIs DEF CallsOf

LEMMA CountedSteps ==
  ASSUME TypeOK, FiniteInv, NEW c \in Stored, NEW n \in Int,
         voice' = [voice EXCEPT ![c].count = @ + n]
  PROVE  /\ voice' \in [Calls -> Voice \cup {None}] /\ voice'[c] # None
         /\ voice'[c].channel = voice[c].channel
         /\ \A d \in Calls \ {c} : voice'[d] = voice[d]
         /\ \A ch \in Channels :
              /\ CallsOf(ch)' = CallsOf(ch)
              /\ Counted(ch)' = Counted(ch) + (IF c \in CallsOf(ch) THEN n ELSE 0)
<1> DEFINE w == [voice[c] EXCEPT !.count = voice[c].count + n]
<1>1. voice[c] \in Voice /\ c \in Calls
  BY DEF Stored, TypeOK
<1>2. w \in Voice /\ w.channel = voice[c].channel /\ w.count = voice[c].count + n
  BY <1>1 DEF Voice
<1>3. voice' = [voice EXCEPT ![c] = w]
  OBVIOUS
<1> HIDE DEF w
<1>4. w # None
  BY <1>2, NoneAssumption
<1>5. /\ voice'[c] = w /\ \A d \in Calls \ {c} : voice'[d] = voice[d]
      /\ voice' \in [Calls -> Voice \cup {None}]
  BY <1>1, <1>2, <1>3 DEF TypeOK
<1>6. ASSUME NEW ch \in Channels
      PROVE  /\ CallsOf(ch)' = CallsOf(ch)
             /\ Counted(ch)' = Counted(ch) + (IF c \in CallsOf(ch) THEN n ELSE 0)
  <2>1. CallsOf(ch)' = CallsOf(ch)
    BY <1>1, <1>2, <1>4, <1>5 DEF CallsOf, Stored
  <2>2. /\ IsFiniteSet(CallsOf(ch)) /\ Counted(ch) \in Int
        /\ \A d \in CallsOf(ch) : voice[d].count \in Int /\ d \in Calls
    BY FiniteOf, CountedTyped DEF CallsOf, TypeOK, Voice
  <2>3. PICK S : S = CallsOf(ch)
    OBVIOUS
  <2>v. PICK v, u : v = voice /\ u = voice'
    OBVIOUS
  <2>4. Counted(ch) = CountOf(v, S) /\ Counted(ch)' = CountOf(u, S)
    BY <2>1, <2>3, <2>v, CountedIs
  <2>5. CASE c \in S
    <3>1. /\ IsFiniteSet(S) /\ u[c].count = v[c].count + n
          /\ \A d \in S : v[d].count \in Int
      BY <1>2, <1>5, <2>2, <2>3, <2>v
    <3>2. \A d \in S \ {c} : u[d].count = v[d].count
      BY <1>5, <2>2, <2>3, <2>v
    <3>3. CountOf(u, S) = CountOf(v, S) + n
      BY <2>5, <3>1, <3>2, CountSteps
    <3> QED
      BY <2>1, <2>3, <2>4, <2>5, <3>3
  <2>6. CASE c \notin S
    <3>1. \A d \in S : v[d].count \in Int /\ u[d].count = v[d].count
      BY <1>5, <2>2, <2>3, <2>6, <2>v
    <3>2. IsFiniteSet(S)
      BY <2>2, <2>3
    <3>3. CountOf(u, S) = CountOf(v, S)
      BY <3>1, <3>2, CountsAgree
    <3> QED
      BY <2>1, <2>2, <2>3, <2>4, <2>6, <3>3
  <2> QED
    BY <2>5, <2>6
<1> QED
  BY <1>2, <1>4, <1>5, <1>6

LEMMA CountedCreate ==
  ASSUME TypeOK, FiniteInv, NEW c \in Calls, voice[c] = None, NEW h \in Channels,
         voice' = [voice EXCEPT ![c] = [channel |-> h, count |-> 0]]
  PROVE  /\ voice' \in [Calls -> Voice \cup {None}] /\ voice'[c] # None
         /\ \A d \in Calls \ {c} : voice'[d] = voice[d]
         /\ \A ch \in Channels : /\ Counted(ch)' = Counted(ch)
                                 /\ CallsOf(ch)' = CallsOf(ch) \cup (IF ch = h THEN {c} ELSE {})
<1> DEFINE w == [channel |-> h, count |-> 0]
<1>1. w \in Voice /\ w.channel = h /\ w.count = 0
  BY DEF Voice
<1>2. w # None
  BY <1>1, NoneAssumption
<1> HIDE DEF w
<1>3. /\ voice'[c] = w /\ \A d \in Calls \ {c} : voice'[d] = voice[d]
      /\ voice' \in [Calls -> Voice \cup {None}]
  BY <1>1 DEF TypeOK, w
<1>4. ASSUME NEW ch \in Channels
      PROVE  /\ Counted(ch)' = Counted(ch)
             /\ CallsOf(ch)' = CallsOf(ch) \cup (IF ch = h THEN {c} ELSE {})
  <2>1. CallsOf(ch)' = CallsOf(ch) \cup (IF ch = h THEN {c} ELSE {})
    BY <1>1, <1>2, <1>3 DEF CallsOf
  <2>2. /\ IsFiniteSet(CallsOf(ch)) /\ c \notin CallsOf(ch)
        /\ \A d \in CallsOf(ch) : voice[d].count \in Int /\ voice'[d].count = voice[d].count
    BY <1>3, FiniteOf DEF CallsOf, TypeOK, Voice
  <2>3. PICK S : S = CallsOf(ch)
    OBVIOUS
  <2>4. PICK R : R = CallsOf(ch)'
    OBVIOUS
  <2>v. PICK v, u : v = voice /\ u = voice'
    OBVIOUS
  <2>5. Counted(ch) = CountOf(v, S) /\ Counted(ch)' = CountOf(u, R)
    BY <2>3, <2>4, <2>v, CountedIs
  <2>6. CASE ch = h
    <3>1. R = S \cup {c}
      BY <2>1, <2>3, <2>4, <2>6
    <3>0. /\ IsFiniteSet(S) /\ c \notin S /\ u[c].count = 0
          /\ \A d \in S : v[d].count \in Int /\ u[d].count = v[d].count
      BY <1>1, <1>3, <2>2, <2>3, <2>v
    <3>2. CountOf(u, S \cup {c}) = CountOf(v, S)
      BY <3>0, CountGrows
    <3>3. CountOf(u, R) = CountOf(u, S \cup {c})
      BY <3>1, Zenon
    <3> QED
      BY <2>1, <2>5, <3>2, <3>3
  <2>7. CASE ch # h
    <3>1. R = S
      BY <2>1, <2>3, <2>4, <2>7
    <3>0. /\ IsFiniteSet(S)
          /\ \A d \in S : v[d].count \in Int /\ u[d].count = v[d].count
      BY <2>2, <2>3, <2>v
    <3>2. CountOf(u, S) = CountOf(v, S)
      BY <3>0, CountsAgree
    <3> QED
      BY <2>1, <2>5, <3>1, <3>2
  <2> QED
    BY <2>6, <2>7
<1> QED
  BY <1>2, <1>3, <1>4

-----------------------------------------------------------------------------
(* The steps of a service call.                                              *)

(* A step after which everything adds up as it did before.                   *)
Balanced ==
  /\ TypeOK' /\ FiniteInv' /\ TaskInv'
  /\ \A ch \in Channels : Slack(ch) \in Int /\ Slack(ch)' = Slack(ch)

(* A step that writes neither collection.                                    *)
LEMMA Reads ==
  ASSUME TypeOK, FiniteInv, TaskInv, NEW t \in Tasks, NEW y \in Task \cup {None},
         task' = [task EXCEPT ![t] = y], UNCHANGED <<voice, part>>, meta' \in [Sockets -> Meta],
         ~ At(t, "count"), ~ At(t, "uncount"),
         y # None => y.step \notin {"count", "uncount"} /\ Sound(y)
  PROVE  Balanced
<1>1. Sound(y)' = Sound(y)
  BY DEF Sound, CallsOf, Stored
<1>2. Steps(t, y, None, None)
  BY <1>1 DEF Steps, TypeOK
<1>3. TypeOK' /\ FiniteInv' /\ TaskInv'
  BY <1>2, TaskMoves
<1>4. ASSUME NEW ch \in Channels
      PROVE  Slack(ch) \in Int /\ Slack(ch)' = Slack(ch)
  <2>1. Counted(ch)' = Counted(ch) + 0
    BY CountedSame, CountedTyped
  <2>2. /\ Slack(ch) \in Int
        /\ Slack(ch)' = Slack(ch) - 0
             + Bit(None \in PartsIn(ch)') - Bit(None \in PartsIn(ch))
             + Bit(t \in Subtracting(ch)') - Bit(t \in Subtracting(ch))
             - Bit(t \in Adding(ch)') + Bit(t \in Adding(ch))
    BY <1>2, <2>1, SlackMoves
  <2>3. task'[t] = y
    BY DEF TypeOK
  <2>4. t \notin Subtracting(ch) /\ t \notin Adding(ch)
    BY DEF Subtracting, Adding
  <2>5. t \notin Subtracting(ch)' /\ t \notin Adding(ch)'
    BY <2>3 DEF Subtracting, Adding, At
  <2>6. None \notin PartsIn(ch) /\ None \notin PartsIn(ch)'
    BY ChannelAssumption DEF PartsIn
  <2> QED
    BY <2>2, <2>4, <2>5, <2>6 DEF Bit
<1> QED
  BY <1>3, <1>4 DEF Balanced

LEMMA Unchanged ==
  ASSUME TypeOK, FiniteInv, TaskInv, UNCHANGED <<voice, part, task>>, meta' \in [Sockets -> Meta]
  PROVE  Balanced
<1>1. TypeOK' /\ FiniteInv'
  BY DEF TypeOK, FiniteInv, Busy, Stored, Taken
<1>2. TaskInv'
  BY DEF TaskInv, Busy, Sound, CallsOf, Stored
<1>3. ASSUME NEW ch \in Channels PROVE Slack(ch) \in Int /\ Slack(ch)' = Slack(ch)
  <2>1. Counted(ch)' = Counted(ch) /\ Counted(ch) \in Int /\ CallsOf(ch)' = CallsOf(ch)
    BY CountedSame, CountedTyped
  <2>2. /\ PartsIn(ch)' = PartsIn(ch) /\ Adding(ch)' = Adding(ch)
        /\ Subtracting(ch)' = Subtracting(ch)
    BY <2>1 DEF PartsIn, Adding, Subtracting, At
  <2>3. /\ Cardinality(PartsIn(ch)) \in Nat /\ Cardinality(Adding(ch)) \in Nat
        /\ Cardinality(Subtracting(ch)) \in Nat
    BY FiniteOf, FS_CardinalityType
  <2> QED
    BY <2>1, <2>2, <2>3 DEF Slack
<1> QED
  BY <1>1, <1>2, <1>3 DEF Balanced

LEMMA MetaTyped ==
  ASSUME TypeOK, NEW s \in Sockets
  PROVE  /\ meta[s] \in Meta
         /\ \A st \in {"closed", "open", "identified", "joined"} :
              [meta EXCEPT ![s].state = st] \in [Sockets -> Meta]
         /\ \A ch \in Channels \cup {None} :
              [meta EXCEPT ![s].channelId = ch] \in [Sockets -> Meta]
         /\ [meta EXCEPT ![s] = Closed] \in [Sockets -> Meta]
<1>1. meta \in [Sockets -> Meta] /\ meta[s] \in Meta /\ Closed \in Meta
  BY DEF TypeOK, Meta, Closed
<1>2. ASSUME NEW st \in {"closed", "open", "identified", "joined"}
      PROVE  [meta EXCEPT ![s].state = st] \in [Sockets -> Meta]
  <2>1. [meta[s] EXCEPT !.state = st] \in Meta
    BY <1>1 DEF Meta
  <2> QED
    BY <1>1, <2>1
<1>3. ASSUME NEW ch \in Channels \cup {None}
      PROVE  [meta EXCEPT ![s].channelId = ch] \in [Sockets -> Meta]
  <2>1. [meta[s] EXCEPT !.channelId = ch] \in Meta
    BY <1>1 DEF Meta
  <2> QED
    BY <1>1, <2>1
<1> QED
  BY <1>1, <1>2, <1>3

LEMMA SetTyped ==
  ASSUME TypeOK, NEW t \in Tasks, task[t] # None, NEW ch \in Channels \cup {None},
         SetChannel(t, ch)
  PROVE  meta' \in [Sockets -> Meta]
<1>1. task[t].sock \in Sockets \cup {None}
  BY BusyTask
<1>2. CASE meta' = meta
  BY <1>2 DEF TypeOK
<1>3. CASE task[t].sock # None /\ meta' = [meta EXCEPT ![task[t].sock].channelId = ch]
  BY <1>1, <1>3, MetaTyped
<1> QED
  BY <1>2, <1>3 DEF SetChannel

(* What the events and requests that begin a service call make of it.        *)
Begins(t, y) ==
  /\ task[t] = None /\ task' = [task EXCEPT ![t] = y] /\ y \in Task /\ y.rest = {}
  /\ UNCHANGED <<voice, part>>
  /\ \/ /\ y.step \in {"find", "leave"} /\ y.channel \in Channels /\ UNCHANGED meta
        /\ ByRest \/ (y.sock \in Sockets /\ y.user = Account[y.sock])
     \/ /\ (y.step = "list" /\ y.channel = None) \/ (y.step = "drop" /\ y.channel \in Channels)
        /\ y.sock = None
        /\ \E s \in Sockets : y.user = Account[s] /\ meta' = [meta EXCEPT ![s] = Closed]

LEMMA Begun ==
  ASSUME TypeOK, NEW t \in Tasks, Handle(t)
  PROVE  \E y : Begins(t, y)
<1>1. ASSUME NEW step \in {"find", "leave", "list", "drop"}, NEW u \in Users,
             NEW ch \in Channels \cup {None}, NEW nx \in Channels \cup {None},
             NEW s \in Sockets \cup {None}, Begin(t, Call(step, u, ch, nx, s)),
             UNCHANGED <<voice, part>>
      PROVE  \E y \in Task : /\ task[t] = None /\ task' = [task EXCEPT ![t] = y]
                             /\ y.step = step /\ y.user = u /\ y.channel = ch /\ y.sock = s
                             /\ y.rest = {} /\ UNCHANGED <<voice, part>>
  <2>1. PICK y : y = Call(step, u, ch, nx, s)
    OBVIOUS
  <2>2. /\ y \in Task /\ y.step = step /\ y.user = u /\ y.channel = ch /\ y.sock = s
        /\ y.rest = {}
    BY <2>1, CallMade DEF TaskStep
  <2>3. task[t] = None /\ task' = [task EXCEPT ![t] = y]
    BY <1>1, <2>1 DEF Begin
  <2> QED
    BY <1>1, <2>2, <2>3
<1>2. \A s \in Sockets : Account[s] \in Users /\ meta[s].channelId \in Channels \cup {None}
  BY ChannelAssumption DEF TypeOK, Meta
<1>3. ASSUME NEW step \in {"find", "leave"}, NEW s \in Sockets, NEW ch \in Channels,
             NEW nx \in Channels \cup {None}, Begin(t, Call(step, Account[s], ch, nx, s)),
             UNCHANGED <<voice, part, meta>>
      PROVE  \E y : Begins(t, y)
  <2>1. PICK u \in Users : u = Account[s]
    BY <1>2
  <2>2. Begin(t, Call(step, u, ch, nx, s))
    BY <1>3, <2>1
  <2>3. PICK y \in Task : /\ task[t] = None /\ task' = [task EXCEPT ![t] = y]
                          /\ y.step = step /\ y.user = u /\ y.channel = ch /\ y.sock = s
                          /\ y.rest = {} /\ UNCHANGED <<voice, part>>
    BY <1>1, <1>3, <2>2, step \in {"find", "leave", "list", "drop"}
  <2> QED
    BY <1>3, <2>1, <2>3 DEF Begins
<1>4. ASSUME NEW s \in Sockets, NEW ch \in Channels, HandleJoinChannel(t, s, ch)
      PROVE  \E y : Begins(t, y)
  <2>1. CASE meta[s].channelId \in {None, ch}
    BY <1>3, <1>4, <2>1 DEF HandleJoinChannel
  <2>2. CASE meta[s].channelId \notin {None, ch}
    <3>1. PICK old \in Channels : old = meta[s].channelId
      BY <1>2, <2>2
    <3>2. Begin(t, Call("leave", Account[s], old, ch, s))
      BY <1>4, <2>2, <3>1 DEF HandleJoinChannel
    <3> QED
      BY <1>3, <1>4, <3>2 DEF HandleJoinChannel
  <2> QED
    BY <2>1, <2>2
<1>5. ASSUME NEW s \in Sockets, NEW ch \in Channels, HandleLeaveChannel(t, s, ch)
      PROVE  \E y : Begins(t, y)
  BY <1>3, <1>5 DEF HandleLeaveChannel
<1>6. ASSUME NEW s \in Sockets, HandleDisconnect(t, s) PROVE \E y : Begins(t, y)
  <2>1. PICK u \in Users, ch \in Channels \cup {None} : u = Account[s] /\ ch = meta[s].channelId
    BY <1>2
  <2>2. PICK step \in {"list", "drop"} : step = IF ch = None THEN "list" ELSE "drop"
    OBVIOUS
  <2>3. Begin(t, Call(step, u, ch, None, None)) /\ meta' = [meta EXCEPT ![s] = Closed]
        /\ UNCHANGED <<voice, part>>
    BY <1>6, <2>1, <2>2 DEF HandleDisconnect
  <2>4. PICK y \in Task : /\ task[t] = None /\ task' = [task EXCEPT ![t] = y]
                          /\ y.step = step /\ y.user = u /\ y.channel = ch /\ y.sock = None
                          /\ y.rest = {} /\ UNCHANGED <<voice, part>>
    <3>1. PICK y : y = Call(step, u, ch, None, None)
      OBVIOUS
    <3>2. /\ y \in Task /\ y.step = step /\ y.user = u /\ y.channel = ch /\ y.sock = None
          /\ y.rest = {}
      BY <3>1 DEF Call, Task
    <3>3. task[t] = None /\ task' = [task EXCEPT ![t] = y]
      BY <2>3, <3>1 DEF Begin
    <3> QED
      BY <2>3, <3>2, <3>3
  <2>5. /\ (y.step = "list" /\ y.channel = None) \/ (y.step = "drop" /\ y.channel \in Channels)
        /\ y.sock = None /\ y.user = Account[s]
    BY <2>1, <2>2, <2>4
  <2> QED
    BY <2>3, <2>4, <2>5 DEF Begins
<1>7. ASSUME NEW u \in Users, NEW ch \in Channels, RestJoin(t, u, ch) \/ RestLeave(t, u, ch)
      PROVE  \E y : Begins(t, y)
  <2>1. PICK step \in {"find", "leave"} : Begin(t, Call(step, u, ch, None, None))
    BY <1>7 DEF RestJoin, RestLeave
  <2>2. ByRest /\ UNCHANGED <<voice, part, meta>>
    BY <1>7 DEF RestJoin, RestLeave, ByRest
  <2>3. PICK y \in Task : /\ task[t] = None /\ task' = [task EXCEPT ![t] = y]
                          /\ y.step = step /\ y.user = u /\ y.channel = ch /\ y.sock = None
                          /\ y.rest = {} /\ UNCHANGED <<voice, part>>
    <3>1. PICK y : y = Call(step, u, ch, None, None)
      OBVIOUS
    <3>2. /\ y \in Task /\ y.step = step /\ y.user = u /\ y.channel = ch /\ y.sock = None
          /\ y.rest = {}
      BY <3>1 DEF Call, Task
    <3>3. task[t] = None /\ task' = [task EXCEPT ![t] = y]
      BY <2>1, <3>1 DEF Begin
    <3> QED
      BY <2>2, <3>2, <3>3
  <2> QED
    BY <2>2, <2>3 DEF Begins
<1> QED
  BY <1>4, <1>5, <1>6, <1>7 DEF Handle

LEMMA HandleBalanced ==
  ASSUME TypeOK, FiniteInv, TaskInv, NEW t \in Tasks, Handle(t)
  PROVE  Balanced
<1>1. PICK y : Begins(t, y)
  BY Begun
<1>2. y \in Task /\ y.step \notin {"count", "uncount"} /\ task[t] = None
      /\ task' = [task EXCEPT ![t] = y] /\ UNCHANGED <<voice, part>>
  BY <1>1 DEF Begins
<1>3. Sound(y)
  BY <1>1 DEF Begins, Sound
<1>4. meta' \in [Sockets -> Meta]
  <2>1. CASE UNCHANGED meta
    BY <2>1 DEF TypeOK
  <2>2. ASSUME NEW s \in Sockets, meta' = [meta EXCEPT ![s] = Closed]
        PROVE  meta' \in [Sockets -> Meta]
    BY <2>2, MetaTyped
  <2> QED
    BY <1>1, <2>1, <2>2 DEF Begins
<1>5. ~ At(t, "count") /\ ~ At(t, "uncount")
  BY <1>2 DEF At
<1>6. y \in Task \cup {None} /\ (y # None => y.step \notin {"count", "uncount"} /\ Sound(y))
  BY <1>2, <1>3
<1> QED
  BY <1>2, <1>4, <1>5, <1>6, Reads, Zenon

(* The events that begin none.                                               *)
LEMMA SocketBalanced ==
  ASSUME TypeOK, FiniteInv, TaskInv, NEW s \in Sockets,
         HandleConnection(s) \/ HandleIdentity(s) \/ HandleJoinServer(s) \/ DisconnectAnonymous(s)
  PROVE  Balanced
<1>1. UNCHANGED <<voice, part, task>>
  BY DEF HandleConnection, HandleIdentity, HandleJoinServer, DisconnectAnonymous
<1>2. \/ \E st \in {"open", "identified", "joined"} : meta' = [meta EXCEPT ![s].state = st]
      \/ meta' = [meta EXCEPT ![s] = Closed]
  BY DEF HandleConnection, HandleIdentity, HandleJoinServer, DisconnectAnonymous
<1>3. ASSUME NEW st \in {"open", "identified", "joined"}, meta' = [meta EXCEPT ![s].state = st]
      PROVE  meta' \in [Sockets -> Meta]
  <2>1. st \in {"closed", "open", "identified", "joined"}
    OBVIOUS
  <2> QED
    BY <1>3, <2>1, MetaTyped
<1>4. meta' \in [Sockets -> Meta]
  BY <1>2, <1>3, MetaTyped
<1> QED
  BY <1>1, <1>4, Unchanged

LEMMA SoundOf ==
  ASSUME TypeOK, TaskInv, NEW t \in Tasks, task[t] # None
  PROVE  Sound(task[t]) /\ task[t] \in Task
BY BusyTask DEF TaskInv

(* What a step makes of its service call h, y or nothing more, and what it    *)
(* has read.                                                                 *)
Keeps(h, y) == y.channel = h.channel /\ y.rest = h.rest

Moves(h, y) ==
  /\ y \in Task /\ y.user = h.user /\ y.sock = h.sock
  /\ \/ h.step = "find" /\ y.step = "create" /\ Keeps(h, y) /\ CallsOf(h.channel) = {}
     \/ h.step = "find" /\ y.step = "look" /\ Keeps(h, y) /\ y.call \in CallsOf(h.channel)
     \/ h.step = "create" /\ y.step = "look" /\ Keeps(h, y)
     \/ /\ h.step = "look" /\ y.step = "insert" /\ Keeps(h, y) /\ y.call = h.call
        /\ PartsOf(h.channel, h.user) = {}
     \/ h.step = "insert" /\ y.step = "count" /\ Keeps(h, y)
     \/ /\ h.step = "leave" /\ y.step = "delete" /\ Keeps(h, y)
        /\ y.call \in CallsOf(h.channel) /\ y.part \in PartsOf(h.channel, h.user)
     \/ h.step = "delete" /\ y.step = "uncount" /\ Keeps(h, y)
     \/ h.step = "uncount" /\ y.step = "sweep" /\ Keeps(h, y) /\ h.channel = None
     \/ /\ h.step = "uncount" /\ y.step = "find" /\ y.rest = {}
        /\ y.channel \in Channels /\ h.channel # None
     \/ /\ h.step = "list" /\ y.step = "sweep" /\ y.channel = h.channel
        /\ \A a \in y.rest : a[1] \in PartsOf(a[2], h.user)
     \/ /\ h.step = "sweep" /\ y.step = "delete" /\ y.channel = h.channel
        /\ \E a \in h.rest : y.part = a[1] /\ y.call \in CallsOf(a[2]) /\ y.rest = h.rest \ {a}

Ends(t, h) ==
  \/ h.step \in {"leave", "drop", "sweep"} /\ UNCHANGED meta
  \/ /\ h.step \in {"look", "count"} /\ SetChannel(t, h.channel)
     /\ h.step = "look" => PartsOf(h.channel, h.user) # {}
  \/ h.step = "uncount" /\ h.channel # None /\ SetChannel(t, None)

LEMMA Moved ==
  ASSUME TypeOK, TaskInv, NEW t \in Tasks, Proceed(t)
  PROVE  \E h \in Task, y \in Task \cup {None} :
           /\ h = task[t] /\ Sound(h) /\ h.rest \subseteq Places \X Channels
           /\ task' = [task EXCEPT ![t] = y]
           /\ y = None => Ends(t, h)
           /\ y # None => Moves(h, y) /\ UNCHANGED meta
<1>0. task[t] # None
  BY DEF Proceed, JoinFind, JoinCreate, JoinLook, JoinInsert, JoinCount, LeaveFind,
         LeaveNotFound, Delete, Uncount, Drop, SweepList, SweepOne, SweepEnd, At
<1>1. PICK h \in Task : h = task[t]
  BY <1>0, SoundOf
<1>2. Sound(h) /\ h.rest \subseteq Places \X Channels /\ h \in Task
  BY <1>0, <1>1, SoundOf, BusyTask
<1>3. h.user \in Users /\ h.channel \in Channels \cup {None} /\ h.next \in Channels \cup {None}
      /\ h.sock \in Sockets \cup {None}
  BY <1>2 DEF Task
<1> DEFINE Goal == \E y \in Task \cup {None} :
              /\ task' = [task EXCEPT ![t] = y]
              /\ y = None => Ends(t, h)
              /\ y # None => Moves(h, y) /\ UNCHANGED meta
<1> SUFFICES Goal
  BY <1>1, <1>2
<1>4. Finish(t) /\ Ends(t, h) => Goal
  BY DEF Finish
<1>5. ASSUME NEW step \in TaskStep, Goto(t, step), UNCHANGED meta,
             Moves(h, [h EXCEPT !.step = step])
      PROVE  Goal
  <2>1. PICK y : y = [h EXCEPT !.step = step]
    OBVIOUS
  <2>2. task' = [task EXCEPT ![t] = y]
    BY <1>1, <1>5, <2>1 DEF Goto
  <2>3. Moves(h, y)
    BY <1>5, <2>1
  <2>4. y \in Task /\ y # None
    BY <2>3, NoneAssumption DEF Moves
  <2> QED
    BY <1>5, <2>2, <2>3, <2>4
<1>6. ASSUME NEW step \in TaskStep
      PROVE  LET y == [h EXCEPT !.step = step] IN
             /\ y \in Task /\ y.user = h.user /\ y.sock = h.sock /\ Keeps(h, y) /\ y.step = step
             /\ y.call = h.call
  BY TaskGoes DEF Keeps
<1> HIDE DEF Goal
<1>7. CASE JoinFind(t)
  <2>0. h.step = "find" /\ UNCHANGED meta
    BY <1>1, <1>7 DEF JoinFind, At
  <2>1. CASE CallsOf(h.channel) = {}
    <3>1. Goto(t, "create")
      BY <1>1, <1>7, <2>1 DEF JoinFind
    <3>2. Moves(h, [h EXCEPT !.step = "create"])
      BY <1>6, <2>0, <2>1 DEF Moves, TaskStep
    <3> QED
      BY <1>5, <2>0, <3>1, <3>2 DEF TaskStep
  <2>2. CASE CallsOf(h.channel) # {}
    <3>1. PICK c \in CallsOf(h.channel) :
            task' = [task EXCEPT ![t] = [@ EXCEPT !.step = "look", !.call = c]]
      BY <1>1, <1>7, <2>2 DEF JoinFind
    <3>2. PICK y : y = [h EXCEPT !.step = "look", !.call = c]
      OBVIOUS
    <3>3. /\ y \in Task /\ y.step = "look" /\ y.user = h.user /\ y.sock = h.sock
          /\ Keeps(h, y) /\ y.call = c
      BY <3>2, TaskFinds DEF Keeps, CallsOf
    <3>4. task' = [task EXCEPT ![t] = y]
      BY <1>1, <3>1, <3>2
    <3>5. Moves(h, y)
      BY <2>0, <3>3 DEF Moves
    <3> QED
      BY <2>0, <3>3, <3>4, <3>5, NoneAssumption DEF Goal
  <2> QED
    BY <2>1, <2>2
<1>8. CASE JoinCreate(t)
  <2>1. PICK c \in Calls : task' = [task EXCEPT ![t] = [@ EXCEPT !.step = "look", !.call = c]]
    BY <1>8 DEF JoinCreate
  <2>2. PICK y : y = [h EXCEPT !.step = "look", !.call = c]
    OBVIOUS
  <2>3. /\ y \in Task /\ y.step = "look" /\ y.user = h.user /\ y.sock = h.sock /\ Keeps(h, y)
    BY <2>2, TaskFinds DEF Keeps
  <2>4. task' = [task EXCEPT ![t] = y] /\ h.step = "create" /\ UNCHANGED meta
    BY <1>1, <1>8, <2>1, <2>2 DEF JoinCreate, At
  <2>5. Moves(h, y)
    BY <2>3, <2>4 DEF Moves
  <2> QED
    BY <2>3, <2>4, <2>5, NoneAssumption DEF Goal
<1>9. CASE JoinLook(t)
  <2>0. h.step = "look"
    BY <1>1, <1>9 DEF JoinLook, At
  <2>1. CASE PartsOf(h.channel, h.user) = {}
    <3>1. Goto(t, "insert") /\ UNCHANGED meta
      BY <1>1, <1>9, <2>1 DEF JoinLook
    <3>2. Moves(h, [h EXCEPT !.step = "insert"])
      BY <1>6, <2>0, <2>1 DEF Moves, TaskStep
    <3> QED
      BY <1>5, <3>1, <3>2 DEF TaskStep
  <2>2. CASE PartsOf(h.channel, h.user) # {}
    <3>1. Finish(t) /\ SetChannel(t, h.channel)
      BY <1>1, <1>9, <2>2 DEF JoinLook
    <3> QED
      BY <1>4, <2>0, <2>2, <3>1 DEF Ends
  <2> QED
    BY <2>1, <2>2
<1>10. CASE JoinInsert(t)
  <2>1. Goto(t, "count") /\ UNCHANGED meta /\ h.step = "insert"
    BY <1>1, <1>10 DEF JoinInsert, At
  <2>2. Moves(h, [h EXCEPT !.step = "count"])
    BY <1>6, <2>1 DEF Moves, TaskStep
  <2> QED
    BY <1>5, <2>1, <2>2 DEF TaskStep
<1>11. CASE JoinCount(t)
  BY <1>1, <1>4, <1>11 DEF JoinCount, At, Ends
<1>12. CASE LeaveFind(t)
  <2>1. PICK c \in CallsOf(h.channel), p \in PartsOf(h.channel, h.user) :
          task' = [task EXCEPT ![t] = [@ EXCEPT !.step = "delete", !.call = c, !.part = p]]
    BY <1>1, <1>12 DEF LeaveFind
  <2>2. PICK y : y = [h EXCEPT !.step = "delete", !.call = c, !.part = p]
    OBVIOUS
  <2>3. c \in Calls /\ p \in Places
    BY DEF CallsOf, PartsOf, PartsIn
  <2>4. task' = [task EXCEPT ![t] = y] /\ h.step = "leave" /\ UNCHANGED meta
    BY <1>1, <1>12, <2>1, <2>2 DEF LeaveFind, At
  <2>5. /\ y \in Task /\ y.step = "delete" /\ y.user = h.user /\ y.sock = h.sock /\ Keeps(h, y)
        /\ y.call = c /\ y.part = p
    BY <2>2, <2>3 DEF Task, Keeps
  <2>6. Moves(h, y)
    BY <2>1, <2>4, <2>5 DEF Moves
  <2> QED
    BY <2>4, <2>5, <2>6, NoneAssumption DEF Goal
<1>13. CASE LeaveNotFound(t)
  BY <1>1, <1>4, <1>13 DEF LeaveNotFound, At, Ends
<1>14. CASE Delete(t)
  <2>1. PICK y : y = [h EXCEPT !.step = "uncount", !.part = None]
    OBVIOUS
  <2>2. task' = [task EXCEPT ![t] = y] /\ h.step = "delete" /\ UNCHANGED meta
    BY <1>1, <1>14, <2>1 DEF Delete, At
  <2>3. y \in Task /\ y.step = "uncount" /\ y.user = h.user /\ y.sock = h.sock /\ Keeps(h, y)
    BY <2>1, TaskDeletes DEF Keeps
  <2>4. Moves(h, y)
    BY <2>2, <2>3 DEF Moves
  <2> QED
    BY <2>2, <2>3, <2>4, NoneAssumption DEF Goal
<1>15. CASE Uncount(t)
  <2>0. h.step = "uncount"
    BY <1>1, <1>15 DEF Uncount, At
  <2>1. CASE h.channel = None
    <3>1. Goto(t, "sweep") /\ UNCHANGED meta
      BY <1>1, <1>15, <2>1 DEF Uncount
    <3>2. Moves(h, [h EXCEPT !.step = "sweep"])
      BY <1>6, <2>0, <2>1 DEF Moves, TaskStep
    <3> QED
      BY <1>5, <3>1, <3>2 DEF TaskStep
  <2>2. CASE h.channel # None /\ h.next # None
    <3>1. PICK y : y = Call("find", h.user, h.next, None, h.sock)
      OBVIOUS
    <3>2. h.next \in Channels
      BY <1>3, <2>2
    <3>3. /\ y \in Task /\ y.step = "find" /\ y.channel = h.next /\ y.rest = {}
          /\ y.user = h.user /\ y.sock = h.sock
      BY <1>3, <3>1, <3>2 DEF Call, Task
    <3>4. task' = [task EXCEPT ![t] = y] /\ UNCHANGED meta
      BY <1>1, <1>15, <2>2, <3>1 DEF Uncount
    <3>5. Moves(h, y)
      BY <2>0, <2>2, <3>2, <3>3 DEF Moves
    <3> QED
      BY <3>3, <3>4, <3>5, NoneAssumption DEF Goal
  <2>3. CASE h.channel # None /\ h.next = None
    <3>1. Finish(t) /\ SetChannel(t, None)
      BY <1>1, <1>15, <2>3 DEF Uncount
    <3> QED
      BY <1>4, <2>0, <2>3, <3>1 DEF Ends
  <2> QED
    BY <2>1, <2>2, <2>3
<1>16. CASE Drop(t)
  <2>0. h.step = "drop" /\ UNCHANGED meta
    BY <1>1, <1>16 DEF Drop, At
  <2>1. CASE Finish(t)
    BY <1>4, <2>0, <2>1 DEF Ends
  <2>2. ASSUME NEW c \in CallsOf(h.channel), NEW p \in PartsOf(c, h.user) PROVE FALSE
    <3>1. c \in Calls /\ part[p].channel = c /\ p \in Places /\ part[p] # None
      BY DEF CallsOf, PartsOf, PartsIn
    <3>2. part[p].channel \in Channels
      BY <3>1 DEF TypeOK, Participant
    <3> QED
      BY <3>1, <3>2, ChannelAssumption
  <2>3. \A c \in CallsOf(h.channel) : PartsOf(c, h.user) = {}
    BY <2>2
  <2>4. Finish(t)
    BY <1>1, <1>16, <2>3 DEF Drop
  <2> QED
    BY <2>1, <2>4
<1>17. CASE SweepList(t)
  <2>1. PICK R : R = {a \in Places \X Channels : a[1] \in PartsOf(a[2], h.user)}
    OBVIOUS
  <2>2. PICK y : y = [h EXCEPT !.step = "sweep", !.rest = R]
    OBVIOUS
  <2>3. task' = [task EXCEPT ![t] = y] /\ h.step = "list" /\ UNCHANGED meta
    BY <1>1, <1>17, <2>1, <2>2 DEF SweepList, At
  <2>4. R \subseteq Places \X Channels
    BY <2>1
  <2>5. /\ y \in Task /\ y.step = "sweep" /\ y.rest = R /\ y.user = h.user /\ y.sock = h.sock
        /\ y.channel = h.channel
    BY <2>2, <2>4 DEF Task
  <2>6. \A a \in y.rest : a[1] \in PartsOf(a[2], h.user)
    BY <2>1, <2>5
  <2>7. Moves(h, y)
    BY <2>3, <2>5, <2>6 DEF Moves
  <2> QED
    BY <2>3, <2>5, <2>7, NoneAssumption DEF Goal
<1>18. CASE SweepOne(t)
  <2>1. PICK a \in h.rest : \E c \in CallsOf(a[2]) :
          task' = [task EXCEPT ![t] = [@ EXCEPT !.step = "delete", !.call = c,
                                 !.part = a[1], !.rest = task[t].rest \ {a}]]
    BY <1>1, <1>18 DEF SweepOne
  <2>2. PICK c \in CallsOf(a[2]) :
          task' = [task EXCEPT ![t] = [@ EXCEPT !.step = "delete", !.call = c,
                                 !.part = a[1], !.rest = task[t].rest \ {a}]]
    BY <2>1
  <2>3. PICK y : y = [task[t] EXCEPT !.step = "delete", !.call = c, !.part = a[1],
                                     !.rest = task[t].rest \ {a}]
    OBVIOUS
  <2>4. c \in Calls /\ a[1] \in Places
    BY <1>2 DEF CallsOf
  <2>5. task' = [task EXCEPT ![t] = y]
    BY <2>2, <2>3
  <2>6. h.step = "sweep" /\ UNCHANGED meta
    BY <1>1, <1>18 DEF SweepOne, At
  <2>7. /\ y \in Task /\ y.step = "delete" /\ y.call = c /\ y.part = a[1]
        /\ y.rest = h.rest \ {a} /\ y.user = h.user /\ y.sock = h.sock /\ y.channel = h.channel
    BY <1>1, <2>3, <2>4 DEF Task
  <2>8. Moves(h, y)
    BY <2>6, <2>7 DEF Moves
  <2> QED
    BY <2>5, <2>6, <2>7, <2>8, NoneAssumption DEF Goal
<1>19. CASE SweepEnd(t)
  BY <1>1, <1>4, <1>19 DEF SweepEnd, At, Ends
<1> QED
  BY <1>7, <1>8, <1>9, <1>10, <1>11, <1>12, <1>13, <1>14, <1>15, <1>16, <1>17, <1>18, <1>19
     DEF Proceed

LEMMA EndTyped ==
  ASSUME TypeOK, NEW t \in Tasks, task[t] # None, Sound(task[t]), Ends(t, task[t])
  PROVE  meta' \in [Sockets -> Meta]
<1>1. task[t].step \in {"look", "count"} => task[t].channel \in Channels
  BY DEF Sound
<1> QED
  BY <1>1, SetTyped DEF Ends, TypeOK

(* joinChannel, leaveChannel and handleUserDisconnect where they only read.  *)
LEMMA ReadsBalanced ==
  ASSUME TypeOK, FiniteInv, TaskInv, NEW t \in Tasks,
         \/ JoinFind(t) \/ JoinLook(t) \/ LeaveFind(t) \/ LeaveNotFound(t)
         \/ Drop(t) \/ SweepList(t) \/ SweepOne(t) \/ SweepEnd(t)
  PROVE  Balanced
<1>1. /\ task[t] # None /\ UNCHANGED <<voice, part>>
      /\ task[t].step \in {"find", "look", "leave", "drop", "list", "sweep"}
  BY DEF JoinFind, JoinLook, LeaveFind, LeaveNotFound, Drop, SweepList, SweepOne, SweepEnd, At
<1>2. PICK h \in Task, y \in Task \cup {None} :
        /\ h = task[t] /\ Sound(h) /\ h.rest \subseteq Places \X Channels
        /\ task' = [task EXCEPT ![t] = y]
        /\ y = None => Ends(t, h)
        /\ y # None => Moves(h, y) /\ UNCHANGED meta
  BY Moved DEF Proceed
<1>3. meta' \in [Sockets -> Meta]
  BY <1>1, <1>2, EndTyped DEF TypeOK
<1>4. ASSUME y # None PROVE y.step \notin {"count", "uncount"} /\ Sound(y)
  <2>1. Moves(h, y)
    BY <1>2, <1>4
  <2>2. CASE h.step = "find"
    BY <1>2, <2>1, <2>2 DEF Moves, Keeps, Sound
  <2>3. CASE h.step = "look"
    BY <1>2, <2>1, <2>3 DEF Moves, Keeps, Sound
  <2>4. CASE h.step = "leave"
    BY <1>2, <2>1, <2>4 DEF Moves, Keeps, Sound, CallsOf, Stored, PartsOf, PartsIn
  <2>5. CASE h.step = "list"
    BY <1>2, <2>1, <2>5 DEF Moves, Sound, PartsOf, PartsIn
  <2>6. CASE h.step = "sweep"
    <3>1. y.step = "delete"
      BY <2>1, <2>6 DEF Moves
    <3>2. PICK a \in h.rest : y.part = a[1] /\ y.call \in CallsOf(a[2]) /\ y.rest = h.rest \ {a}
      BY <2>1, <2>6 DEF Moves
    <3>3. y.call \in Stored /\ voice[y.call].channel = a[2] /\ y.part \in Places
      BY <1>2, <3>2 DEF CallsOf, Stored
    <3> QED
      BY <1>2, <3>1, <3>2, <3>3 DEF Sound
  <2> QED
    BY <1>1, <1>2, <2>1, <2>2, <2>3, <2>4, <2>5, <2>6 DEF Moves
<1> QED
  BY <1>1, <1>2, <1>3, <1>4, Reads DEF At

(* Where it writes.                                                          *)
LEMMA CreateBalanced ==
  ASSUME TypeOK, FiniteInv, TaskInv, NEW t \in Tasks, JoinCreate(t)
  PROVE  Balanced
<1>0. task[t] # None /\ task[t].step = "create" /\ UNCHANGED <<part, meta>>
  BY DEF JoinCreate, At
<1>1. PICK h \in Task : h = task[t]
  BY <1>0, SoundOf
<1>2. Sound(h) /\ h.step = "create" /\ h.channel \in Channels /\ h.rest \subseteq Places \X Channels
  BY <1>0, <1>1, SoundOf, BusyTask DEF Sound
<1>3. PICK c \in Calls :
        /\ voice[c] = None
        /\ voice' = [voice EXCEPT ![c] = [channel |-> h.channel, count |-> 0]]
        /\ task' = [task EXCEPT ![t] = [@ EXCEPT !.step = "look", !.call = c]]
  BY <1>1 DEF JoinCreate
<1>4. PICK y : y = [h EXCEPT !.step = "look", !.call = c]
  OBVIOUS
<1>5. /\ y \in Task /\ y.step = "look" /\ y.channel = h.channel /\ y.rest = h.rest /\ y.call = c
  BY <1>4, TaskFinds
<1>6. task' = [task EXCEPT ![t] = y]
  BY <1>1, <1>3, <1>4
<1>7. /\ voice' \in [Calls -> Voice \cup {None}] /\ voice'[c] # None
      /\ \A d \in Calls \ {c} : voice'[d] = voice[d]
      /\ \A ch \in Channels : /\ Counted(ch)' = Counted(ch)
                              /\ CallsOf(ch)' = CallsOf(ch) \cup (IF ch = h.channel THEN {c} ELSE {})
  BY <1>2, <1>3, CountedCreate
<1>8. Sound(y)'
  BY <1>0, <1>2, <1>5, <1>7 DEF Sound
<1>9. Steps(t, y, c, None)
  BY <1>0, <1>3, <1>6, <1>7, <1>8 DEF Steps, TypeOK
<1>10. TypeOK' /\ FiniteInv' /\ TaskInv'
  BY <1>5, <1>9, TaskMoves
<1>11. ASSUME NEW ch \in Channels PROVE Slack(ch) \in Int /\ Slack(ch)' = Slack(ch)
  <2>1. Counted(ch)' = Counted(ch) + 0
    BY <1>7, CountedTyped
  <2>2. /\ Slack(ch) \in Int
        /\ Slack(ch)' = Slack(ch) - 0
             + Bit(None \in PartsIn(ch)') - Bit(None \in PartsIn(ch))
             + Bit(t \in Subtracting(ch)') - Bit(t \in Subtracting(ch))
             - Bit(t \in Adding(ch)') + Bit(t \in Adding(ch))
    BY <1>5, <1>9, <2>1, SlackMoves
  <2>3. task'[t] = y
    BY <1>6 DEF TypeOK
  <2>4. t \notin Subtracting(ch) /\ t \notin Adding(ch)
    BY <1>0 DEF Subtracting, Adding, At
  <2>5. t \notin Subtracting(ch)' /\ t \notin Adding(ch)'
    BY <1>5, <2>3 DEF Subtracting, Adding, At
  <2>6. None \notin PartsIn(ch) /\ None \notin PartsIn(ch)'
    BY ChannelAssumption DEF PartsIn
  <2> QED
    BY <2>2, <2>4, <2>5, <2>6 DEF Bit
<1> QED
  BY <1>10, <1>11 DEF Balanced

(* The participant is stored and owed to the count.                          *)
LEMMA InsertBalanced ==
  ASSUME TypeOK, FiniteInv, TaskInv, NEW t \in Tasks, JoinInsert(t)
  PROVE  Balanced
<1>0. task[t] # None /\ task[t].step = "insert" /\ UNCHANGED <<voice, meta>>
  BY DEF JoinInsert, At
<1>1. PICK h \in Task : h = task[t]
  BY <1>0, SoundOf
<1>2. /\ Sound(h) /\ h.step = "insert" /\ h.channel \in Channels /\ h.user \in Users
      /\ h.call \in CallsOf(h.channel) /\ h.rest \subseteq Places \X Channels
  BY <1>0, <1>1, SoundOf, BusyTask DEF Sound
<1>3. PICK p \in FreshPlaces :
        part' = [part EXCEPT ![p] = [channel |-> h.channel, user |-> h.user]]
  BY <1>1 DEF JoinInsert
<1>4. PICK y : y = [h EXCEPT !.step = "count"]
  OBVIOUS
<1>5. /\ y \in Task /\ y.step = "count" /\ y.channel = h.channel /\ y.rest = h.rest
      /\ y.call = h.call
  BY <1>4, TaskGoes DEF TaskStep
<1>6. task' = [task EXCEPT ![t] = y]
  BY <1>1, <1>4 DEF JoinInsert, Goto
<1>7. p \in Places /\ part[p] = None /\ \A a \in h.rest : a[1] # p
  BY <1>0, <1>1, <1>2 DEF FreshPlaces, Busy
<1>8. PICK n : n = [channel |-> h.channel, user |-> h.user]
  OBVIOUS
<1>9. n \in Participant /\ n.channel = h.channel /\ n # None
  BY <1>2, <1>8, NoneAssumption DEF Participant
<1>10. /\ part' \in [Places -> Participant \cup {None}] /\ part'[p] = n
       /\ \A q \in Places \ {p} : part'[q] = part[q]
  BY <1>3, <1>7, <1>8, <1>9 DEF TypeOK
<1>11. Sound(y)'
  <2>1. \A a \in y.rest : part'[a[1]] = part[a[1]]
    BY <1>2, <1>5, <1>7, <1>10
  <2>2. y.channel \in Channels /\ y.call \in CallsOf(y.channel)'
    BY <1>0, <1>2, <1>5 DEF CallsOf
  <2> QED
    BY <1>2, <1>5, <2>1, <2>2 DEF Sound
<1>12. Steps(t, y, None, p)
  BY <1>0, <1>6, <1>10, <1>11 DEF Steps, TypeOK
<1>13. TypeOK' /\ FiniteInv' /\ TaskInv'
  BY <1>5, <1>12, TaskMoves
<1>14. ASSUME NEW ch \in Channels PROVE Slack(ch) \in Int /\ Slack(ch)' = Slack(ch)
  <2>1. Counted(ch)' = Counted(ch) + 0 /\ CallsOf(ch)' = CallsOf(ch)
    BY <1>0, CountedSame, CountedTyped
  <2>2. /\ Slack(ch) \in Int
        /\ Slack(ch)' = Slack(ch) - 0
             + Bit(p \in PartsIn(ch)') - Bit(p \in PartsIn(ch))
             + Bit(t \in Subtracting(ch)') - Bit(t \in Subtracting(ch))
             - Bit(t \in Adding(ch)') + Bit(t \in Adding(ch))
    BY <1>5, <1>12, <2>1, SlackMoves
  <2>3. task'[t] = y
    BY <1>6 DEF TypeOK
  <2>4. t \notin Subtracting(ch) /\ t \notin Adding(ch) /\ p \notin PartsIn(ch)
    BY <1>0, <1>7 DEF Subtracting, Adding, At, PartsIn
  <2>5. t \notin Subtracting(ch)'
    BY <1>5, <2>3 DEF Subtracting, At
  <2>6. t \in Adding(ch)' <=> ch = h.channel
    BY <1>2, <1>5, <2>1, <2>3, NoneAssumption DEF Adding, At, CallsOf
  <2>7. p \in PartsIn(ch)' <=> ch = h.channel
    BY <1>7, <1>9, <1>10 DEF PartsIn
  <2>8. Bit(p \in PartsIn(ch)') = Bit(t \in Adding(ch)') /\ Bit(t \in Adding(ch)') \in Int
    BY <2>6, <2>7 DEF Bit
  <2>9. /\ Bit(p \in PartsIn(ch)) = 0 /\ Bit(t \in Subtracting(ch)') = 0
        /\ Bit(t \in Subtracting(ch)) = 0 /\ Bit(t \in Adding(ch)) = 0
    BY <2>4, <2>5 DEF Bit
  <2> QED
    BY <2>2, <2>8, <2>9
<1> QED
  BY <1>13, <1>14 DEF Balanced

(* The count pays.                                                           *)
LEMMA CountBalanced ==
  ASSUME TypeOK, FiniteInv, TaskInv, NEW t \in Tasks, JoinCount(t)
  PROVE  Balanced
<1>0. /\ task[t] # None /\ task[t].step = "count" /\ UNCHANGED part
      /\ task' = [task EXCEPT ![t] = None]
  BY DEF JoinCount, At, Finish
<1>1. PICK h \in Task : h = task[t]
  BY <1>0, SoundOf
<1>2. /\ h.step = "count" /\ h.channel \in Channels /\ h.call \in CallsOf(h.channel)
      /\ h.call \in Stored
  BY <1>0, <1>1, SoundOf DEF Sound, CallsOf, Stored
<1>3. /\ voice' \in [Calls -> Voice \cup {None}] /\ voice'[h.call] # None
      /\ voice'[h.call].channel = voice[h.call].channel
      /\ \A d \in Calls \ {h.call} : voice'[d] = voice[d]
      /\ \A ch \in Channels :
           /\ CallsOf(ch)' = CallsOf(ch)
           /\ Counted(ch)' = Counted(ch) + (IF h.call \in CallsOf(ch) THEN 1 ELSE 0)
  <2>1. PICK c \in Stored : c = h.call
    BY <1>2
  <2>2. PICK n \in Int : n = 1
    OBVIOUS
  <2>3. voice' = [voice EXCEPT ![c].count = @ + n]
    BY <1>1, <2>1, <2>2 DEF JoinCount
  <2>4. /\ voice' \in [Calls -> Voice \cup {None}] /\ voice'[c] # None
        /\ voice'[c].channel = voice[c].channel
        /\ \A d \in Calls \ {c} : voice'[d] = voice[d]
        /\ \A ch \in Channels :
             /\ CallsOf(ch)' = CallsOf(ch)
             /\ Counted(ch)' = Counted(ch) + (IF c \in CallsOf(ch) THEN n ELSE 0)
    BY <2>3, CountedSteps
  <2> QED
    BY <2>1, <2>2, <2>4
<1>4. meta' \in [Sockets -> Meta]
  BY <1>0, <1>1, <1>2, SetTyped DEF JoinCount
<1>5. Steps(t, None, h.call, None)
  BY <1>0, <1>3, <1>4 DEF Steps, TypeOK
<1>6. TypeOK' /\ FiniteInv' /\ TaskInv'
  BY <1>5, TaskMoves
<1>7. ASSUME NEW ch \in Channels PROVE Slack(ch) \in Int /\ Slack(ch)' = Slack(ch)
  <2> DEFINE n == IF h.call \in CallsOf(ch) THEN 1 ELSE 0
  <2>1. n \in Int /\ Counted(ch)' = Counted(ch) + n
    BY <1>3
  <2> HIDE DEF n
  <2>2. /\ Slack(ch) \in Int
        /\ Slack(ch)' = Slack(ch) - n
             + Bit(None \in PartsIn(ch)') - Bit(None \in PartsIn(ch))
             + Bit(t \in Subtracting(ch)') - Bit(t \in Subtracting(ch))
             - Bit(t \in Adding(ch)') + Bit(t \in Adding(ch))
    BY <1>5, <2>1, SlackMoves
  <2>3. task'[t] = None
    BY <1>0 DEF TypeOK
  <2>4. /\ t \notin Subtracting(ch) /\ None \notin PartsIn(ch) /\ None \notin PartsIn(ch)'
        /\ t \notin Subtracting(ch)' /\ t \notin Adding(ch)'
    BY <1>0, <2>3, ChannelAssumption DEF Subtracting, Adding, At, PartsIn
  <2>5. t \in Adding(ch) <=> h.call \in CallsOf(ch)
    BY <1>0, <1>1 DEF Adding, At
  <2>6. Bit(t \in Adding(ch)) = n
    BY <2>5 DEF Bit, n
  <2>7. /\ Bit(t \in Subtracting(ch)) = 0 /\ Bit(None \in PartsIn(ch)) = 0
        /\ Bit(None \in PartsIn(ch)') = 0 /\ Bit(t \in Subtracting(ch)') = 0
        /\ Bit(t \in Adding(ch)') = 0
    BY <2>4 DEF Bit
  <2> QED
    BY <2>1, <2>2, <2>6, <2>7
<1> QED
  BY <1>6, <1>7 DEF Balanced

(* A participant is deleted, or has been deleted before: then one more is    *)
(* subtracted than there was.                                                *)
LEMMA DeleteOwes ==
  ASSUME TypeOK, FiniteInv, TaskInv, NEW t \in Tasks, Delete(t)
  PROVE  /\ TypeOK' /\ FiniteInv' /\ TaskInv'
         /\ \A ch \in Channels : Slack(ch) \in Int /\ Slack(ch)' \in Int /\ Slack(ch)' >= Slack(ch)
         /\ part[task[t].part] # None => Balanced
<1>0. task[t] # None /\ task[t].step = "delete" /\ UNCHANGED <<voice, meta>>
  BY DEF Delete, At
<1>1. PICK h \in Task : h = task[t]
  BY <1>0, SoundOf
<1>2. /\ Sound(h) /\ h.step = "delete" /\ h.call \in Stored /\ h.part \in Places
      /\ part[h.part] # None => part[h.part].channel = voice[h.call].channel
      /\ h.rest \subseteq Places \X Channels
  BY <1>0, <1>1, SoundOf, BusyTask DEF Sound
<1>3. PICK p \in Places : p = h.part
  BY <1>2
<1>4. PICK y : y = [h EXCEPT !.step = "uncount", !.part = None]
  OBVIOUS
<1>5. y \in Task /\ y.step = "uncount" /\ y.rest = h.rest /\ y.call = h.call
  BY <1>4, TaskDeletes
<1>6. task' = [task EXCEPT ![t] = y]
  BY <1>1, <1>4 DEF Delete
<1>7. /\ part' \in [Places -> Participant \cup {None}] /\ part'[p] = None
      /\ \A q \in Places \ {p} : part'[q] = part[q]
  BY <1>1, <1>3 DEF Delete, TypeOK
<1>8. Sound(y)'
  <2>1. \A a \in y.rest : part'[a[1]] \in {part[a[1]], None}
    BY <1>2, <1>5, <1>7
  <2>2. y.call \in Stored'
    BY <1>0, <1>2, <1>5 DEF Stored
  <2> QED
    BY <1>2, <1>5, <2>1, <2>2 DEF Sound
<1>9. Steps(t, y, None, p)
  BY <1>0, <1>6, <1>7, <1>8 DEF Steps, TypeOK
<1>10. TypeOK' /\ FiniteInv' /\ TaskInv'
  BY <1>5, <1>9, TaskMoves
<1>11. ASSUME NEW ch \in Channels
       PROVE  /\ Slack(ch) \in Int /\ Slack(ch)' \in Int /\ Slack(ch)' >= Slack(ch)
              /\ part[p] # None => Slack(ch)' = Slack(ch)
  <2>1. Counted(ch)' = Counted(ch) + 0 /\ CallsOf(ch)' = CallsOf(ch)
    BY <1>0, CountedSame, CountedTyped
  <2>2. /\ Slack(ch) \in Int
        /\ Slack(ch)' = Slack(ch) - 0
             + Bit(p \in PartsIn(ch)') - Bit(p \in PartsIn(ch))
             + Bit(t \in Subtracting(ch)') - Bit(t \in Subtracting(ch))
             - Bit(t \in Adding(ch)') + Bit(t \in Adding(ch))
    BY <1>5, <1>9, <2>1, SlackMoves
  <2>3. task'[t] = y
    BY <1>6 DEF TypeOK
  <2>4. t \notin Subtracting(ch) /\ t \notin Adding(ch) /\ p \notin PartsIn(ch)'
    BY <1>0, <1>7 DEF Subtracting, Adding, At, PartsIn
  <2>5. t \notin Adding(ch)'
    BY <1>5, <2>3 DEF Adding, At
  <2>6. t \in Subtracting(ch)' <=> h.call \in CallsOf(ch)
    BY <1>5, <2>1, <2>3, NoneAssumption DEF Subtracting, At
  <2>7. p \in PartsIn(ch) <=> part[p] # None /\ h.call \in CallsOf(ch)
    BY <1>2, <1>3 DEF PartsIn, CallsOf, Stored
  <2>8. /\ Bit(p \in PartsIn(ch)) \in {0, 1} /\ Bit(t \in Subtracting(ch)') \in {0, 1}
        /\ Bit(p \in PartsIn(ch)) <= Bit(t \in Subtracting(ch)')
        /\ part[p] # None => Bit(p \in PartsIn(ch)) = Bit(t \in Subtracting(ch)')
    BY <2>6, <2>7 DEF Bit
  <2>9. /\ Bit(p \in PartsIn(ch)') = 0 /\ Bit(t \in Adding(ch)') = 0
        /\ Bit(t \in Subtracting(ch)) = 0 /\ Bit(t \in Adding(ch)) = 0
    BY <2>4, <2>5 DEF Bit
  <2>10. Slack(ch)' = Slack(ch) - Bit(p \in PartsIn(ch)) + Bit(t \in Subtracting(ch)')
    BY <2>2, <2>8, <2>9
  <2> QED
    BY <2>2, <2>8, <2>10
<1> QED
  BY <1>1, <1>3, <1>10, <1>11 DEF Balanced

LEMMA UncountBalanced ==
  ASSUME TypeOK, FiniteInv, TaskInv, NEW t \in Tasks, Uncount(t)
  PROVE  Balanced
<1>0. task[t] # None /\ task[t].step = "uncount" /\ UNCHANGED part
  BY DEF Uncount, At
<1>1. PICK h \in Task : h = task[t]
  BY <1>0, SoundOf
<1>2. /\ Sound(h) /\ h.step = "uncount" /\ h.call \in Stored
      /\ h.rest \subseteq Places \X Channels
      /\ h.user \in Users /\ h.channel \in Channels \cup {None}
      /\ h.next \in Channels \cup {None} /\ h.sock \in Sockets \cup {None}
  BY <1>0, <1>1, SoundOf, BusyTask DEF Sound
<1>3. voice' = [voice EXCEPT ![h.call].count = @ + (-1)]
  <2>1. voice[h.call].count - 1 = voice[h.call].count + (-1)
    BY <1>2 DEF Stored, TypeOK, Voice
  <2> QED
    BY <1>1, <2>1 DEF Uncount
<1>4. /\ voice' \in [Calls -> Voice \cup {None}] /\ voice'[h.call] # None
      /\ voice'[h.call].channel = voice[h.call].channel
      /\ \A d \in Calls \ {h.call} : voice'[d] = voice[d]
      /\ \A ch \in Channels :
           /\ CallsOf(ch)' = CallsOf(ch)
           /\ Counted(ch)' = Counted(ch) + (IF h.call \in CallsOf(ch) THEN -1 ELSE 0)
  <2>1. PICK c \in Stored : c = h.call
    BY <1>2
  <2>2. PICK n \in Int : n = -1
    OBVIOUS
  <2>3. voice' = [voice EXCEPT ![c].count = @ + n]
    BY <1>3, <2>1, <2>2
  <2>4. /\ voice' \in [Calls -> Voice \cup {None}] /\ voice'[c] # None
        /\ voice'[c].channel = voice[c].channel
        /\ \A d \in Calls \ {c} : voice'[d] = voice[d]
        /\ \A ch \in Channels :
             /\ CallsOf(ch)' = CallsOf(ch)
             /\ Counted(ch)' = Counted(ch) + (IF c \in CallsOf(ch) THEN n ELSE 0)
    BY <2>3, CountedSteps
  <2> QED
    BY <2>1, <2>2, <2>4
<1>5. PICK y \in Task \cup {None} :
        /\ task' = [task EXCEPT ![t] = y] /\ meta' \in [Sockets -> Meta]
        /\ y # None => y.step \notin {"count", "uncount"} /\ Sound(y)'
  <2>1. CASE h.channel = None
    <3>1. PICK y : y = [h EXCEPT !.step = "sweep"]
      OBVIOUS
    <3>2. y \in Task /\ y.step = "sweep" /\ y.rest = h.rest
      BY <3>1, TaskGoes DEF TaskStep
    <3>3. task' = [task EXCEPT ![t] = y] /\ meta' = meta
      BY <1>1, <2>1, <3>1 DEF Uncount, Goto
    <3>4. Sound(y)'
      BY <1>0, <1>2, <3>2 DEF Sound
    <3> QED
      BY <3>2, <3>3, <3>4 DEF TypeOK
  <2>2. CASE h.channel # None /\ h.next # None
    <3>1. PICK y : y = Call("find", h.user, h.next, None, h.sock)
      OBVIOUS
    <3>n. h.next \in Channels
      BY <1>2, <2>2
    <3>2. y \in Task /\ y.step = "find" /\ y.channel = h.next /\ y.rest = {}
      BY <1>2, <3>1, <3>n DEF Call, Task
    <3>3. task' = [task EXCEPT ![t] = y] /\ meta' = meta
      BY <1>1, <2>2, <3>1 DEF Uncount
    <3>4. Sound(y)'
      BY <1>2, <2>2, <3>2 DEF Sound
    <3> QED
      BY <3>2, <3>3, <3>4 DEF TypeOK
  <2>3. CASE h.channel # None /\ h.next = None
    <3>1. Finish(t) /\ SetChannel(t, None)
      BY <1>1, <2>3 DEF Uncount
    <3> QED
      BY <1>0, <3>1, SetTyped DEF Finish
  <2> QED
    BY <2>1, <2>2, <2>3
<1>6. Steps(t, y, h.call, None)
  BY <1>0, <1>4, <1>5 DEF Steps, TypeOK
<1>7. TypeOK' /\ FiniteInv' /\ TaskInv'
  BY <1>6, TaskMoves
<1>8. ASSUME NEW ch \in Channels PROVE Slack(ch) \in Int /\ Slack(ch)' = Slack(ch)
  <2> DEFINE n == IF h.call \in CallsOf(ch) THEN -1 ELSE 0
  <2>1. n \in Int /\ Counted(ch)' = Counted(ch) + n
    BY <1>4
  <2> HIDE DEF n
  <2>2. /\ Slack(ch) \in Int
        /\ Slack(ch)' = Slack(ch) - n
             + Bit(None \in PartsIn(ch)') - Bit(None \in PartsIn(ch))
             + Bit(t \in Subtracting(ch)') - Bit(t \in Subtracting(ch))
             - Bit(t \in Adding(ch)') + Bit(t \in Adding(ch))
    BY <1>6, <2>1, SlackMoves
  <2>3. task'[t] = y
    BY <1>5 DEF TypeOK
  <2>4. /\ t \notin Adding(ch) /\ None \notin PartsIn(ch) /\ None \notin PartsIn(ch)'
        /\ t \notin Subtracting(ch)' /\ t \notin Adding(ch)'
    BY <1>0, <1>5, <2>3, ChannelAssumption DEF Subtracting, Adding, At, PartsIn
  <2>5. t \in Subtracting(ch) <=> h.call \in CallsOf(ch)
    BY <1>0, <1>1 DEF Subtracting, At
  <2>6. Bit(t \in Subtracting(ch)) = - n
    BY <2>5 DEF Bit, n
  <2>7. /\ Bit(t \in Adding(ch)) = 0 /\ Bit(None \in PartsIn(ch)) = 0
        /\ Bit(None \in PartsIn(ch)') = 0 /\ Bit(t \in Subtracting(ch)') = 0
        /\ Bit(t \in Adding(ch)') = 0
    BY <2>4 DEF Bit
  <2> QED
    BY <2>1, <2>2, <2>6, <2>7
<1> QED
  BY <1>7, <1>8 DEF Balanced

-----------------------------------------------------------------------------
(* The invariant.                                                            *)

LEMMA StepBalanced ==
  ASSUME TypeOK, FiniteInv, TaskInv, Next
  PROVE  Balanced \/ (\E t \in Tasks : Delete(t))
<1>1. ASSUME NEW t \in Tasks, Proceed(t) PROVE Balanced \/ Delete(t)
  BY <1>1, ReadsBalanced, CreateBalanced, InsertBalanced, CountBalanced, UncountBalanced DEF Proceed
<1> QED
  BY <1>1, SocketBalanced, HandleBalanced DEF Next

LEMMA VoiceStep ==
  ASSUME VoiceInv, [Next]_vars
  PROVE  VoiceInv'
<1>0. TypeOK /\ FiniteInv /\ TaskInv /\ \A ch \in Channels : Slack(ch) >= 0
  BY DEF VoiceInv, NoDebt
<1>1. CASE Balanced
  BY <1>0, <1>1 DEF Balanced, VoiceInv, NoDebt
<1>2. ASSUME NEW t \in Tasks, Delete(t) PROVE VoiceInv'
  <2>1. /\ TypeOK' /\ FiniteInv' /\ TaskInv'
        /\ \A ch \in Channels : Slack(ch) \in Int /\ Slack(ch)' \in Int /\ Slack(ch)' >= Slack(ch)
    BY <1>0, <1>2, DeleteOwes
  <2> QED
    BY <1>0, <2>1 DEF VoiceInv, NoDebt
<1>3. CASE UNCHANGED vars
  BY <1>0, <1>1, <1>3, Unchanged DEF vars, TypeOK
<1> QED
  BY <1>0, <1>1, <1>2, <1>3, StepBalanced

LEMMA NoneCounted ==
  ASSUME NEW v
  PROVE  CountOf(v, {}) = 0
<1>1. PICK S : S = {}
  OBVIOUS
<1>2. PICK f : f = [c \in S |-> v[c].count]
  OBVIOUS
<1>3. IsFiniteSet(S) /\ \A a \in S : f[a] \in Int
  BY <1>1, FS_EmptySet
<1>4. PICK g : IsSum(f, S, g)
  BY <1>3, SumExists
<1>5. g[S] = 0
  BY <1>1, <1>4, SumAt
<1>6. Total(f, S) = 0
  BY <1>3, <1>4, <1>5, TotalIs
<1>7. CountOf(v, S) = Total([c \in S |-> v[c].count], S)
  BY <1>1, <1>3, CountIsTotal
<1> QED
  BY <1>1, <1>2, <1>6, <1>7

LEMMA VoiceStart ==
  ASSUME Init
  PROVE  VoiceInv /\ \A ch \in Channels : Slack(ch) = 0
<1>1. TypeOK
  BY DEF Init, TypeOK, Closed, Meta
<1>2. Busy = {} /\ Stored = {} /\ Taken = {}
  BY DEF Init, Busy, Stored, Taken
<1>3. FiniteInv
  BY <1>2, FS_EmptySet DEF FiniteInv
<1>4. TaskInv
  BY <1>2 DEF TaskInv
<1>5. ASSUME NEW ch \in Channels PROVE Slack(ch) = 0
  <2>1. CallsOf(ch) = {} /\ PartsIn(ch) = {} /\ Adding(ch) = {} /\ Subtracting(ch) = {}
    BY <1>2 DEF CallsOf, PartsIn, Adding, Subtracting, Stored, Taken, Busy, At
  <2>2. CountOf(voice, CallsOf(ch)) = CountOf(voice, {})
    BY <2>1, Zenon
  <2>3. Counted(ch) = 0
    BY <2>2, CountedIs, NoneCounted
  <2> QED
    BY <2>1, <2>3, FS_EmptySet DEF Slack
<1> QED
  BY <1>1, <1>3, <1>4, <1>5 DEF VoiceInv, NoDebt

(* When nothing is in flight the slack is what the counts lag behind.        *)
LEMMA QuietSlack ==
  ASSUME TypeOK, FiniteInv, Quiet, NEW ch \in Channels
  PROVE  Slack(ch) = Cardinality(PartsIn(ch)) - Counted(ch) /\ Cardinality(PartsIn(ch)) \in Nat
<1>1. Adding(ch) = {} /\ Subtracting(ch) = {}
  BY DEF Quiet, Busy, Adding, Subtracting, At
<1>2. Cardinality(PartsIn(ch)) \in Nat /\ Counted(ch) \in Int
  BY FiniteOf, CountedTyped, FS_CardinalityType
<1>3. Cardinality(Adding(ch)) = 0 /\ Cardinality(Subtracting(ch)) = 0
  BY <1>1, FS_EmptySet
<1> QED
  BY <1>2, <1>3 DEF Slack

(* For any number of users, channels, sockets and service calls in flight,   *)
(* whose awaits interleave in any order: when nothing is in flight, the      *)
(* counts of a channel do not add up to more than its participants, so that  *)
(* $inc never leaves someone counted whom joinChannel did not store.         *)
THEOREM NeverAboveItsParticipants == Spec => []NeverOvercounted
<1>1. Init => VoiceInv
  BY VoiceStart
<1>2. VoiceInv /\ [Next]_vars => VoiceInv'
  BY VoiceStep
<1>3. VoiceInv => NeverOvercounted
  <2> SUFFICES ASSUME VoiceInv, Quiet, NEW ch \in Channels
               PROVE  Counted(ch) <= Cardinality(PartsIn(ch))
    BY DEF NeverOvercounted
  <2>1. Slack(ch) >= 0 /\ Counted(ch) \in Int
    BY CountedTyped DEF VoiceInv, NoDebt
  <2> QED
    BY <2>1, QuietSlack DEF VoiceInv
<1> QED
  BY <1>1, <1>2, <1>3, PTL DEF Spec

-----------------------------------------------------------------------------
(* One event at a time.  A single service call is in flight, the counts are  *)
(* exact up to what it owes, nothing is stored twice, and what it has read   *)
(* still holds when it writes.                                               *)

Alone == \A r, q \in Busy : r = q
Settled == \A ch \in Channels : Slack(ch) = 0
OneCall == \A ch \in Channels : \A c, d \in CallsOf(ch) : c = d
OnePart == \A ch \in Channels, u \in Users : \A p, q \in PartsOf(ch, u) : p = q

Undisturbed(h) ==
  /\ h.rest # {} => h.step \in {"sweep", "delete", "uncount"}
  /\ h.step = "create" => CallsOf(h.channel) = {}
  /\ h.step = "insert" => PartsOf(h.channel, h.user) = {}
  /\ h.step = "delete" => part[h.part] # None /\ \A a \in h.rest : a[1] # h.part
  /\ \A a \in h.rest : part[a[1]] # None

Trusted == \A t \in Busy : Undisturbed(task[t])

CalmInv == Alone /\ Settled /\ OneCall /\ OnePart /\ Trusted

LEMMA AtMostOne ==
  ASSUME NEW S, IsFiniteSet(S), Cardinality(S) <= 1, NEW r \in S, NEW q \in S
  PROVE  r = q
<1>1. IsFiniteSet(S \ {r}) /\ Cardinality(S \ {r}) = Cardinality(S) - 1 /\ Cardinality(S) \in Nat
  BY FS_RemoveElement, FS_CardinalityType
<1>2. Cardinality(S \ {r}) \in Nat
  BY <1>1, FS_CardinalityType
<1>3. Cardinality(S \ {r}) = 0
  BY <1>1, <1>2
<1>4. S \ {r} = {}
  BY <1>1, <1>3, FS_EmptySet
<1> QED
  BY <1>4

LEMMA OneAtMost ==
  ASSUME NEW S, \A r, q \in S : r = q
  PROVE  Cardinality(S) <= 1
<1>1. CASE S = {}
  <2>1. Cardinality({}) = 0
    BY FS_EmptySet
  <2>2. Cardinality(S) = Cardinality({})
    BY <1>1
  <2> QED
    BY <2>1, <2>2
<1>2. CASE S # {}
  <2>1. PICK r : S = {r}
    BY <1>2
  <2>2. Cardinality({r}) = 1
    BY FS_Singleton
  <2>3. Cardinality(S) = Cardinality({r})
    BY <2>1
  <2> QED
    BY <2>2, <2>3
<1> QED
  BY <1>1, <1>2

(* What the steps of a service call write.                                   *)
LEMMA ByStep ==
  ASSUME NEW t \in Tasks, Proceed(t)
  PROVE  /\ task[t] # None
         /\ task[t].step = "create" => JoinCreate(t)
         /\ task[t].step = "insert" => JoinInsert(t)
         /\ task[t].step = "count" => JoinCount(t)
         /\ task[t].step = "delete" => Delete(t)
         /\ task[t].step = "uncount" => Uncount(t)
         /\ task[t].step \notin {"create", "count", "uncount"} => UNCHANGED voice
         /\ task[t].step \notin {"insert", "delete"} => UNCHANGED part
<1>1. CASE JoinFind(t) \/ JoinLook(t) \/ LeaveFind(t) \/ LeaveNotFound(t)
  BY <1>1 DEF JoinFind, JoinLook, LeaveFind, LeaveNotFound, At
<1>2. CASE Drop(t) \/ SweepList(t) \/ SweepOne(t) \/ SweepEnd(t)
  BY <1>2 DEF Drop, SweepList, SweepOne, SweepEnd, At
<1>3. CASE JoinCreate(t)
  BY <1>3 DEF JoinCreate, At
<1>4. CASE JoinInsert(t)
  BY <1>4 DEF JoinInsert, At
<1>5. CASE JoinCount(t)
  BY <1>5 DEF JoinCount, At
<1>6. CASE Delete(t)
  BY <1>6 DEF Delete, At
<1>7. CASE Uncount(t)
  BY <1>7 DEF Uncount, At
<1> QED
  BY <1>1, <1>2, <1>3, <1>4, <1>5, <1>6, <1>7 DEF Proceed

Created(k, c) ==
  \A ch \in Channels : CallsOf(ch)' = CallsOf(ch) \cup (IF ch = k THEN {c} ELSE {})

LEMMA Written ==
  ASSUME TypeOK, FiniteInv, TaskInv, NEW t \in Tasks, Proceed(t), NEW h, h = task[t]
  PROVE  /\ h.step \notin {"insert", "delete"} => UNCHANGED part
         /\ h.step = "insert" =>
              \E p \in FreshPlaces, n \in Participant :
                /\ part' = [part EXCEPT ![p] = n] /\ n.channel = h.channel /\ n.user = h.user
         /\ h.step = "delete" => part' = [part EXCEPT ![h.part] = None]
         /\ h.step # "create" => \A ch \in Channels : CallsOf(ch)' = CallsOf(ch)
         /\ h.step = "create" => \E c : Created(h.channel, c)
<1>0. task[t] # None
  BY ByStep
<1>1. h \in Task /\ Sound(h) /\ h.user \in Users
  BY <1>0, SoundOf, BusyTask
<1>2. /\ h.step \notin {"insert", "delete"} => UNCHANGED part
      /\ h.step \notin {"create", "count", "uncount"} => UNCHANGED voice
  BY ByStep
<1>3. UNCHANGED voice => \A ch \in Channels : CallsOf(ch)' = CallsOf(ch)
  BY DEF CallsOf
<1>4. ASSUME h.step = "insert"
      PROVE  \E p \in FreshPlaces, n \in Participant :
               part' = [part EXCEPT ![p] = n] /\ n.channel = h.channel /\ n.user = h.user
  <2>1. PICK p \in FreshPlaces :
          part' = [part EXCEPT ![p] = [channel |-> task[t].channel, user |-> task[t].user]]
    BY <1>4, ByStep DEF JoinInsert
  <2>2. PICK n : n = [channel |-> h.channel, user |-> h.user]
    OBVIOUS
  <2>3. n \in Participant /\ n.channel = h.channel /\ n.user = h.user
    BY <1>1, <1>4, <2>2 DEF Sound, Participant
  <2> QED
    BY <2>1, <2>2, <2>3
<1>5. h.step = "delete" => part' = [part EXCEPT ![h.part] = None]
  BY ByStep DEF Delete
<1>6. ASSUME h.step \in {"count", "uncount"}
      PROVE  \A ch \in Channels : CallsOf(ch)' = CallsOf(ch)
  <2>1. PICK c \in Stored : c = h.call
    BY <1>1, <1>6 DEF Sound, CallsOf, Stored
  <2>2. CASE h.step = "count"
    <3>1. PICK n \in Int : n = 1
      OBVIOUS
    <3>2. voice' = [voice EXCEPT ![c].count = @ + n]
      BY <2>1, <2>2, <3>1, ByStep DEF JoinCount
    <3> QED
      BY <3>2, CountedSteps
  <2>3. CASE h.step = "uncount"
    <3>1. PICK n \in Int : n = -1
      OBVIOUS
    <3>2. voice[c].count - 1 = voice[c].count + n
      BY <3>1 DEF Stored, TypeOK, Voice
    <3>3. voice' = [voice EXCEPT ![c].count = @ - 1]
      BY <2>1, <2>3, ByStep DEF Uncount
    <3>4. voice' = [voice EXCEPT ![c].count = @ + n]
      BY <3>2, <3>3
    <3> QED
      BY <3>4, CountedSteps
  <2> QED
    BY <1>6, <2>2, <2>3
<1>7. ASSUME h.step = "create"
      PROVE  \E c : Created(h.channel, c)
  <2>1. PICK c \in Calls :
          voice[c] = None /\ voice' = [voice EXCEPT ![c] = [channel |-> h.channel, count |-> 0]]
    BY <1>7, ByStep DEF JoinCreate
  <2>2. PICK k \in Channels : k = h.channel
    BY <1>1, <1>7 DEF Sound
  <2>3. voice' = [voice EXCEPT ![c] = [channel |-> k, count |-> 0]] /\ voice[c] = None
    BY <2>1, <2>2
  <2>4. Created(k, c)
    BY <2>3, CountedCreate DEF Created
  <2> QED
    BY <2>2, <2>4
<1> QED
  BY <1>2, <1>3, <1>4, <1>5, <1>6, <1>7

(* What becomes of a user's participants, and of those a service call is yet *)
(* to delete.                                                                *)
Inserted(k, m, p) ==
  \A ch \in Channels, u \in Users :
    PartsOf(ch, u)' = PartsOf(ch, u) \cup (IF ch = k /\ u = m THEN {p} ELSE {})

LEMMA PartsMove ==
  ASSUME VoiceInv, CalmInv, NEW t \in Tasks, Proceed(t), NEW h, h = task[t]
  PROVE  /\ \A a \in h.rest : part'[a[1]] = part[a[1]]
         /\ h.step = "insert" => \E p : Inserted(h.channel, h.user, p)
         /\ h.step = "delete" =>
              \A ch \in Channels, u \in Users : PartsOf(ch, u)' = PartsOf(ch, u) \ {h.part}
<1>0. TypeOK /\ FiniteInv /\ TaskInv
  BY DEF VoiceInv
<1>1. /\ t \in Busy /\ Undisturbed(h) /\ h \in Task /\ Sound(h)
      /\ h.rest \subseteq Places \X Channels
  BY <1>0, ByStep, SoundOf, BusyTask DEF Busy, CalmInv, Trusted
<1>2. CASE h.step = "insert"
  <2>1. PICK p \in FreshPlaces, n \in Participant :
          part' = [part EXCEPT ![p] = n] /\ n.channel = h.channel /\ n.user = h.user
    BY <1>0, <1>2, Written
  <2>2. p \in Places /\ part[p] = None /\ \A a \in h.rest : a[1] # p
    BY <1>1 DEF FreshPlaces
  <2>3. part'[p] = n /\ n # None /\ \A q \in Places \ {p} : part'[q] = part[q]
    BY <1>0, <2>1, <2>2, NoneAssumption DEF TypeOK
  <2>4. Inserted(h.channel, h.user, p)
    BY <2>1, <2>2, <2>3 DEF Inserted, PartsOf, PartsIn
  <2> QED
    BY <1>1, <1>2, <2>2, <2>3, <2>4
<1>3. CASE h.step = "delete"
  <2>1. h.part \in Places /\ \A a \in h.rest : a[1] # h.part
    BY <1>1, <1>3 DEF Sound, Undisturbed
  <2>2. part'[h.part] = None /\ \A q \in Places \ {h.part} : part'[q] = part[q]
    BY <1>0, <1>3, <2>1, Written DEF TypeOK
  <2> QED
    BY <1>1, <1>3, <2>1, <2>2 DEF PartsOf, PartsIn
<1>4. CASE h.step \notin {"insert", "delete"}
  BY <1>0, <1>4, Written
<1> QED
  BY <1>2, <1>3, <1>4

(* A service call proceeds.                                                  *)
LEMMA CalmProceeds ==
  ASSUME VoiceInv, CalmInv, NEW t \in Tasks, Proceed(t)
  PROVE  OneCall' /\ OnePart' /\ Trusted'
<1>0. TypeOK /\ FiniteInv /\ TaskInv
  BY DEF VoiceInv
<1>1. PICK h \in Task, y \in Task \cup {None} :
        /\ h = task[t] /\ Sound(h) /\ h.rest \subseteq Places \X Channels
        /\ task' = [task EXCEPT ![t] = y]
        /\ y = None => Ends(t, h)
        /\ y # None => Moves(h, y) /\ UNCHANGED meta
  BY <1>0, Moved
<1>2. t \in Busy /\ Undisturbed(h)
  BY <1>1, ByStep DEF Busy, CalmInv, Trusted
<1>3. h.step = "create" => h.channel \in Channels /\ CallsOf(h.channel) = {}
  BY <1>1, <1>2 DEF Sound, Undisturbed
<1>4. OneCall'
  <2>1. CASE h.step # "create"
    <3>1. \A ch \in Channels : CallsOf(ch)' = CallsOf(ch)
      BY <1>0, <1>1, <2>1, Written
    <3> QED
      BY <3>1 DEF OneCall, CalmInv
  <2>2. CASE h.step = "create"
    <3>1. PICK c : Created(h.channel, c)
      BY <1>0, <1>1, <2>2, Written
    <3> QED
      BY <1>3, <2>2, <3>1 DEF OneCall, CalmInv, Created
  <2> QED
    BY <2>1, <2>2
<1>7. OnePart' /\ \A a \in h.rest : part'[a[1]] # None
  <2>0. /\ \A a \in h.rest : part[a[1]] # None
        /\ \A a \in h.rest : part'[a[1]] = part[a[1]]
    BY <1>1, PartsMove, <1>2 DEF Undisturbed
  <2>1. CASE h.step \notin {"insert", "delete"}
    <3>1. UNCHANGED part
      BY <1>0, <1>1, <2>1, Written
    <3> QED
      BY <2>0, <3>1 DEF OnePart, CalmInv, PartsOf, PartsIn
  <2>2. CASE h.step = "insert"
    <3>1. PICK p : Inserted(h.channel, h.user, p)
      BY <1>1, <2>2, PartsMove
    <3>2. PartsOf(h.channel, h.user) = {}
      BY <1>2, <2>2 DEF Undisturbed
    <3>3. OnePart'
      BY <3>1, <3>2 DEF OnePart, CalmInv, Inserted
    <3> QED
      BY <2>0, <3>3
  <2>3. CASE h.step = "delete"
    <3>1. \A ch \in Channels, u \in Users : PartsOf(ch, u)' = PartsOf(ch, u) \ {h.part}
      BY <1>1, <2>3, PartsMove
    <3>2. OnePart'
      BY <3>1 DEF OnePart, CalmInv
    <3> QED
      BY <2>0, <3>2
  <2> QED
    BY <2>1, <2>2, <2>3
<1>8. h.step \notin {"sweep", "delete", "uncount"} => h.rest = {}
  BY <1>2 DEF Undisturbed
<1>9. h.step \notin {"insert", "delete"} => UNCHANGED part
  BY <1>0, <1>1, Written
<1>10. ASSUME y # None PROVE Undisturbed(y)'
  <2>0. Moves(h, y)
    BY <1>1, <1>10
  <2>1. CASE h.step = "find"
    <3>1. y.step = "create" => CallsOf(y.channel)' = {}
      <4>1. UNCHANGED voice
        BY <1>1, <2>1, ByStep
      <4> QED
        BY <2>0, <2>1, <4>1 DEF Moves, Keeps, CallsOf
    <3> QED
      BY <1>8, <2>0, <2>1, <3>1 DEF Moves, Keeps, Undisturbed
  <2>2. CASE h.step = "look"
    <3>1. PartsOf(y.channel, y.user)' = {}
      BY <1>9, <2>0, <2>2 DEF Moves, Keeps, PartsOf, PartsIn
    <3> QED
      BY <1>8, <2>0, <2>2, <3>1 DEF Moves, Keeps, Undisturbed
  <2>3. CASE h.step \in {"create", "insert"}
    BY <1>8, <2>0, <2>3 DEF Moves, Keeps, Undisturbed
  <2>4. CASE h.step = "leave"
    <3>1. part'[y.part] # None
      BY <1>9, <2>0, <2>4 DEF Moves, PartsOf, PartsIn
    <3> QED
      BY <1>8, <2>0, <2>4, <3>1 DEF Moves, Keeps, Undisturbed
  <2>5. CASE h.step \in {"delete", "uncount"}
    BY <1>7, <2>0, <2>5 DEF Moves, Keeps, Undisturbed
  <2>6. CASE h.step = "list"
    <3>1. \A a \in y.rest : part'[a[1]] # None
      BY <1>9, <2>0, <2>6 DEF Moves, PartsOf, PartsIn
    <3> QED
      BY <2>0, <2>6, <3>1 DEF Moves, Undisturbed
  <2>7. CASE h.step = "sweep"
    <3>0. y.step = "delete"
      BY <2>0, <2>7 DEF Moves
    <3>1. PICK a \in h.rest : y.part = a[1] /\ y.rest = h.rest \ {a}
      BY <2>0, <2>7 DEF Moves
    <3>2. ASSUME NEW b \in y.rest PROVE b[1] # a[1]
      <4>1. b \in h.rest /\ b # a
        BY <3>1
      <4>2. a = <<a[1], a[2]>> /\ b = <<b[1], b[2]>>
        BY <1>1, <4>1
      <4>3. part[a[1]].channel = a[2] /\ part[b[1]].channel = b[2]
        BY <1>1, <1>2, <4>1 DEF Sound, Undisturbed
      <4> QED
        BY <4>1, <4>2, <4>3
    <3>3. part'[y.part] # None /\ \A b \in y.rest : part'[b[1]] # None
      BY <1>7, <3>1
    <3> QED
      BY <3>0, <3>1, <3>2, <3>3 DEF Undisturbed
  <2>8. h.step \in {"find", "look", "create", "insert", "leave", "delete", "uncount", "list", "sweep"}
    BY <2>0 DEF Moves
  <2> QED
    BY <2>1, <2>2, <2>3, <2>4, <2>5, <2>6, <2>7, <2>8
<1>11. Trusted'
  <2>1. ASSUME NEW r \in Busy' PROVE r = t
    <3>1. r # t => r \in Busy
      BY <1>0, <1>1, <2>1 DEF Busy, TypeOK
    <3> QED
      BY <1>2, <3>1 DEF CalmInv, Alone
  <2>2. task'[t] = y
    BY <1>0, <1>1 DEF TypeOK
  <2>3. t \in Busy' => Undisturbed(task[t])'
    BY <1>10, <2>2 DEF Busy, Undisturbed
  <2> QED
    BY <2>1, <2>3 DEF Trusted
<1> QED
  BY <1>4, <1>7, <1>11

LEMMA CalmStep ==
  ASSUME VoiceInv, CalmInv, Next, Cardinality(Busy') <= 1
  PROVE  CalmInv'
<1>0. TypeOK /\ FiniteInv /\ TaskInv
  BY DEF VoiceInv
<1>1. Alone'
  <2>1. IsFiniteSet(Busy')
    BY VoiceStep DEF VoiceInv, FiniteInv
  <2>2. PICK B : B = Busy'
    OBVIOUS
  <2>3. \A r, q \in B : r = q
    BY <2>1, <2>2, AtMostOne
  <2> QED
    BY <2>2, <2>3 DEF Alone
<1>2. Settled'
  <2>1. ASSUME NEW t \in Tasks, Delete(t) PROVE Balanced
    <3>1. t \in Busy /\ task[t].step = "delete"
      BY <2>1 DEF Delete, At, Busy
    <3>2. part[task[t].part] # None
      BY <3>1 DEF CalmInv, Trusted, Undisturbed
    <3> QED
      BY <1>0, <2>1, <3>2, DeleteOwes
  <2>2. Balanced
    BY <1>0, <2>1, StepBalanced
  <2> QED
    BY <2>2 DEF Balanced, Settled, CalmInv
<1>3. UNCHANGED <<voice, part>> => OneCall' /\ OnePart'
  BY DEF CalmInv, OneCall, OnePart, CallsOf, PartsOf, PartsIn
<1>4. ASSUME NEW s \in Sockets,
             \/ HandleConnection(s) \/ HandleIdentity(s)
             \/ HandleJoinServer(s) \/ DisconnectAnonymous(s)
      PROVE  OneCall' /\ OnePart' /\ Trusted'
  <2>1. UNCHANGED <<voice, part, task>>
    BY <1>4 DEF HandleConnection, HandleIdentity, HandleJoinServer, DisconnectAnonymous
  <2>2. Trusted'
    BY <2>1 DEF CalmInv, Trusted, Busy, Undisturbed, CallsOf, PartsOf, PartsIn
  <2> QED
    BY <1>3, <2>1, <2>2
<1>5. ASSUME NEW t \in Tasks, Handle(t) PROVE OneCall' /\ OnePart' /\ Trusted'
  <2>1. PICK y : Begins(t, y)
    BY <1>0, <1>5, Begun
  <2>2. task'[t] = y /\ y # None /\ UNCHANGED <<voice, part>>
    BY <1>0, <2>1, NoneAssumption DEF Begins, TypeOK
  <2>3. Undisturbed(task[t])'
    BY <2>1, <2>2 DEF Begins, Undisturbed
  <2>4. \A r \in Busy' : r = t
    BY <1>1, <2>2 DEF Alone, Busy
  <2> QED
    BY <1>3, <2>2, <2>3, <2>4 DEF Trusted
<1> QED
  BY <1>1, <1>2, <1>4, <1>5, CalmProceeds DEF Next, CalmInv

(* No two steps of an event see another event between them.                  *)
LEMMA SceneStep ==
  ASSUME VoiceInv, calm => CalmInv, [SceneNext]_<<vars, calm>>
  PROVE  VoiceInv' /\ (calm' => CalmInv')
<1>1. CASE SceneNext
  BY <1>1, VoiceStep, CalmStep DEF SceneNext
<1>2. CASE UNCHANGED <<vars, calm>>
  <2>1. VoiceInv'
    BY <1>2, VoiceStep
  <2>2. UNCHANGED <<voice, part, meta, task, calm>>
    BY <1>2 DEF vars
  <2>3. \A ch \in Channels : Slack(ch)' = Slack(ch)
    BY <2>2, Unchanged DEF Balanced, VoiceInv, TypeOK
  <2>4. CalmInv => CalmInv'
    BY <2>2, <2>3 DEF CalmInv, Alone, Settled, OneCall, OnePart, Trusted, Undisturbed, Busy,
                      CallsOf, PartsOf, PartsIn
  <2> QED
    BY <2>1, <2>2, <2>4
<1> QED
  BY <1>1, <1>2

LEMMA SceneStart ==
  ASSUME SceneInit
  PROVE  VoiceInv /\ CalmInv
<1>1. VoiceInv /\ Settled
  BY VoiceStart DEF SceneInit, Settled
<1>2. Busy = {} /\ \A ch : CallsOf(ch) = {} /\ PartsIn(ch) = {}
  BY DEF SceneInit, Init, Busy, CallsOf, PartsIn
<1> QED
  BY <1>1, <1>2 DEF CalmInv, Alone, OneCall, OnePart, Trusted, PartsOf

SceneInv == VoiceInv /\ (calm => CalmInv)

LEMMA SceneInvariant == SceneSpec => []SceneInv
<1>1. SceneInit => SceneInv
  BY SceneStart DEF SceneInv
<1>2. SceneInv /\ [SceneNext]_<<vars, calm>> => SceneInv'
  BY SceneStep DEF SceneInv
<1> QED
  BY <1>1, <1>2, PTL DEF SceneSpec

(* joinChannel, leaveChannel and handleUserDisconnect, one service call at a *)
(* time, for any number of users, channels and sockets: when none is in      *)
(* flight the counts of a channel add up to the number of its participants.  *)
THEOREM CountsMatchOneByOne == SceneSpec => []CalmCountsMatch
<1>1. SceneInv => CalmCountsMatch
  <2> SUFFICES ASSUME SceneInv, calm, Quiet, NEW ch \in Channels
               PROVE  Counted(ch) = Cardinality(PartsIn(ch))
    BY DEF CalmCountsMatch, CountsMatch
  <2>1. TypeOK /\ FiniteInv /\ Slack(ch) = 0
    BY DEF SceneInv, VoiceInv, CalmInv, Settled
  <2>2. Counted(ch) \in Int
    BY <2>1, CountedTyped
  <2> QED
    BY <2>1, <2>2, QuietSlack
<1> QED
  BY <1>1, SceneInvariant, PTL

(* Under the same scheduling a channel has at most one CONNECTED call and a  *)
(* user at most one participant in it: the look-ups of joinChannel do what   *)
(* no unique index does.                                                     *)
THEOREM NoDoublesOneByOne == SceneSpec => []CalmNoDoubles
<1>1. SceneInv => CalmNoDoubles
  <2> SUFFICES ASSUME SceneInv, calm PROVE NoDoubles
    BY DEF CalmNoDoubles
  <2>1. \A ch \in Channels : Cardinality(CallsOf(ch)) <= 1
    BY OneAtMost DEF SceneInv, CalmInv, OneCall
  <2>2. \A ch \in Channels, u \in Users : Cardinality(PartsOf(ch, u)) <= 1
    BY OneAtMost DEF SceneInv, CalmInv, OnePart
  <2> QED
    BY <2>1, <2>2 DEF NoDoubles
<1> QED
  BY <1>1, SceneInvariant, PTL

-----------------------------------------------------------------------------
(* The entries of the sockets, still one event at a time.                    *)

JoinSteps == {"find", "create", "look", "insert", "count"}

(* For whom a service call runs: a socket of its user, or one that is gone.  *)
Behalf(h) ==
  /\ h.step \in JoinSteps \cup {"leave", "delete", "uncount"} /\ h.channel # None =>
       h.sock \in Sockets /\ h.user = Account[h.sock]
  /\ h.step \in {"list", "sweep"} => h.channel = None
  /\ h.channel = None =>
       h.sock = None /\ \A s \in Sockets : Account[s] = h.user => meta[s].channelId = None
  /\ h.step = "count" => PartsOf(h.channel, h.user) # {}
  /\ h.step = "delete" => part[h.part].user = h.user
  /\ \A a \in h.rest : part[a[1]].user = h.user

(* The socket is about to be given a channel, or to lose its own.            *)
Waits(s) ==
  \E t \in Busy : task[t].sock = s /\ task[t].step \in JoinSteps \cup {"uncount"}

Held(s) ==
  meta[s].channelId # None => PartsOf(meta[s].channelId, Account[s]) # {} \/ Waits(s)

ClosedEmpty == \A s \in Sockets : meta[s].state = "closed" => meta[s].channelId = None

MetaInv ==
  /\ \A t \in Busy : Behalf(task[t])
  /\ ClosedEmpty
  /\ \A s \in Sockets : Held(s)

OneSocketPerUser == \A r, s \in Sockets : Account[r] = Account[s] => r = s

LEMMA MetaOf ==
  ASSUME TypeOK, NEW s \in Sockets
  PROVE  /\ meta[s].channelId \in Channels \cup {None} /\ Account[s] \in Users
         /\ \A st \in {"closed", "open", "identified", "joined"} :
              /\ [meta EXCEPT ![s].state = st][s].channelId = meta[s].channelId
              /\ [meta EXCEPT ![s].state = st][s].state = st
         /\ \A ch :
              /\ [meta EXCEPT ![s].channelId = ch][s].channelId = ch
              /\ [meta EXCEPT ![s].channelId = ch][s].state = meta[s].state
BY ChannelAssumption DEF TypeOK, Meta

(* An event that begins no service call.                                     *)
LEMMA MetaSocket ==
  ASSUME TypeOK, MetaInv, NEW s \in Sockets,
         HandleConnection(s) \/ HandleIdentity(s) \/ HandleJoinServer(s) \/ DisconnectAnonymous(s)
  PROVE  MetaInv'
<1>1. UNCHANGED <<voice, part, task>>
  BY DEF HandleConnection, HandleIdentity, HandleJoinServer, DisconnectAnonymous
<1>2. \A r \in Sockets : /\ meta'[r].channelId \in {meta[r].channelId, None}
                         /\ meta'[r].state = "closed" => meta'[r].channelId = None
  <2>1. CASE \E st \in {"open", "identified", "joined"} : meta' = [meta EXCEPT ![s].state = st]
    BY <2>1, MetaOf DEF MetaInv, ClosedEmpty, TypeOK
  <2>2. CASE meta' = [meta EXCEPT ![s] = Closed]
    BY <2>2 DEF MetaInv, ClosedEmpty, TypeOK, Closed
  <2> QED
    BY <2>1, <2>2 DEF HandleConnection, HandleIdentity, HandleJoinServer, DisconnectAnonymous
<1>3. \A t \in Busy' : Behalf(task[t])'
  BY <1>1, <1>2 DEF MetaInv, Busy, Behalf, PartsOf, PartsIn
<1>4. ASSUME NEW r \in Sockets PROVE Held(r)'
  <2>1. Waits(r)' <=> Waits(r)
    BY <1>1 DEF Waits, Busy
  <2>2. \A ch, u : PartsOf(ch, u)' = PartsOf(ch, u)
    BY <1>1 DEF PartsOf, PartsIn
  <2> QED
    BY <1>2, <2>1, <2>2 DEF MetaInv, Held
<1> QED
  BY <1>2, <1>3, <1>4 DEF MetaInv, ClosedEmpty

(* One that does.                                                            *)
LEMMA MetaHandle ==
  ASSUME OneSocketPerUser, TypeOK, MetaInv, Alone', NEW t \in Tasks, Handle(t), ~ ByRest
  PROVE  MetaInv'
<1>1. PICK y : Begins(t, y)
  BY Begun
<1>2. /\ task'[t] = y /\ y # None /\ UNCHANGED <<voice, part>> /\ t \in Busy' /\ y.rest = {}
      /\ \A r \in Tasks \ {t} : task'[r] = task[r]
  BY <1>1, NoneAssumption DEF Begins, TypeOK, Busy
<1>3. Busy = {} /\ \A r \in Busy' : r = t
  BY <1>1, <1>2 DEF Alone, Busy, Begins
<1>4. \A r \in Sockets : /\ meta'[r].channelId \in {meta[r].channelId, None}
                         /\ meta'[r].state = "closed" => meta'[r].channelId = None
  BY <1>1 DEF Begins, MetaInv, ClosedEmpty, TypeOK, Closed
<1>5. Behalf(task[t])'
  <2>1. CASE /\ y.step \in {"find", "leave"} /\ y.channel \in Channels
             /\ y.sock \in Sockets /\ y.user = Account[y.sock]
    BY <1>2, <2>1, ChannelAssumption DEF Behalf
  <2>2. CASE /\ y.step = "list" /\ y.channel = None /\ y.sock = None
             /\ \E s \in Sockets : y.user = Account[s] /\ meta' = [meta EXCEPT ![s] = Closed]
    <3>1. PICK s \in Sockets : y.user = Account[s] /\ meta' = [meta EXCEPT ![s] = Closed]
      BY <2>2
    <3>2. meta'[s].channelId = None
      BY <3>1 DEF TypeOK, Closed
    <3>3. \A r \in Sockets : Account[r] = y.user => meta'[r].channelId = None
      BY <3>1, <3>2 DEF OneSocketPerUser
    <3> QED
      BY <1>2, <2>2, <3>3 DEF Behalf, JoinSteps
  <2>3. CASE y.step = "drop" /\ y.channel \in Channels
    BY <1>2, <2>3, ChannelAssumption DEF Behalf, JoinSteps
  <2> QED
    BY <1>1, <2>1, <2>2, <2>3 DEF Begins
<1>6. ASSUME NEW s \in Sockets PROVE Held(s)'
  <2>1. meta[s].channelId # None => PartsOf(meta[s].channelId, Account[s]) # {}
    BY <1>3 DEF MetaInv, Held, Waits
  <2>2. \A ch, u : PartsOf(ch, u)' = PartsOf(ch, u)
    BY <1>2 DEF PartsOf, PartsIn
  <2> QED
    BY <1>4, <2>1, <2>2 DEF Held
<1> QED
  BY <1>3, <1>4, <1>5, <1>6 DEF MetaInv, ClosedEmpty

(* A service call proceeds: who has a participant keeps it, but for the user *)
(* whose participant is deleted.                                             *)
LEMMA PartsStay ==
  ASSUME VoiceInv, CalmInv, NEW t \in Tasks, Proceed(t), NEW h, h = task[t], Behalf(h),
         NEW ch \in Channels, NEW u \in Users, PartsOf(ch, u) # {},
         h.step = "delete" => u # h.user
  PROVE  PartsOf(ch, u)' # {}
<1>1. CASE h.step = "insert"
  BY <1>1, PartsMove DEF Inserted
<1>2. CASE h.step = "delete"
  <2>1. h.part \notin PartsOf(ch, u)
    BY <1>2 DEF Behalf, PartsOf
  <2> QED
    BY <1>2, <2>1, PartsMove
<1>3. CASE h.step \notin {"insert", "delete"}
  BY <1>3, ByStep DEF PartsOf, PartsIn
<1> QED
  BY <1>1, <1>2, <1>3

LEMMA MetaProceeds ==
  ASSUME OneSocketPerUser, VoiceInv, CalmInv, MetaInv, NEW t \in Tasks, Proceed(t)
  PROVE  MetaInv'
<1>0. TypeOK /\ FiniteInv /\ TaskInv /\ Alone
  BY DEF VoiceInv, CalmInv
<1>1. PICK h \in Task, y \in Task \cup {None} :
        /\ h = task[t] /\ Sound(h) /\ h.rest \subseteq Places \X Channels
        /\ task' = [task EXCEPT ![t] = y]
        /\ y = None => Ends(t, h)
        /\ y # None => Moves(h, y) /\ UNCHANGED meta
  BY <1>0, Moved
<1>2. t \in Busy /\ Undisturbed(h) /\ Behalf(h) /\ \A r \in Busy : r = t
  BY <1>0, <1>1, ByStep DEF Busy, CalmInv, Trusted, MetaInv, Alone
<1>3. /\ task'[t] = y /\ \A r \in Tasks \ {t} : task'[r] = None
      /\ \A r \in Busy' : r = t
  BY <1>0, <1>1, <1>2 DEF Busy, TypeOK
<1>4. /\ \A s \in Sockets : meta[s].channelId \in Channels \cup {None} /\ Account[s] \in Users
      /\ h.user \in Users /\ None \notin Sockets /\ None \notin Channels
  BY <1>0, MetaOf, ChannelAssumption DEF Task
<1>5. h.step \in {"find", "create", "look", "insert", "count", "leave", "drop"} =>
        h.channel \in Channels
  BY <1>1 DEF Sound
<1>6. \A s \in Sockets : Waits(s) <=> h.sock = s /\ h.step \in JoinSteps \cup {"uncount"}
  BY <1>1, <1>2 DEF Waits
<1>7. \A ch \in Channels, u \in Users :
        PartsOf(ch, u) # {} /\ (h.step = "delete" => u # h.user) => PartsOf(ch, u)' # {}
  BY <1>1, <1>2, PartsStay
<1>8. CASE y = None
  <2>0. Ends(t, h) /\ Busy' = {} /\ h.step \in {"look", "count", "leave", "uncount", "drop", "sweep"}
    BY <1>1, <1>3, <1>8 DEF Ends, Busy
  <2>1. ASSUME NEW s \in Sockets, meta'[s] = meta[s], ~ Waits(s) PROVE Held(s)'
    BY <1>4, <1>7, <2>0, <2>1 DEF Held, MetaInv
  <2>2. CASE h.step \in {"leave", "drop", "sweep"}
    <3>1. \A s \in Sockets : ~ Waits(s) /\ meta'[s] = meta[s]
      BY <1>6, <2>0, <2>2 DEF JoinSteps, Ends
    <3> QED
      BY <2>0, <2>1, <3>1 DEF MetaInv, ClosedEmpty
  <2>3. ASSUME h.step \in {"look", "count", "uncount"}, h.channel # None,
               NEW ch \in Channels \cup {None}, SetChannel(t, ch),
               ch = None \/ (ch = h.channel /\ PartsOf(h.channel, h.user) # {})
        PROVE  MetaInv'
    <3>1. h.sock \in Sockets /\ h.user = Account[h.sock]
      BY <1>2, <2>3 DEF Behalf, JoinSteps
    <3>2. PICK s \in Sockets : s = h.sock
      BY <3>1
    <3>3. \A r \in Sockets \ {s} : meta'[r] = meta[r] /\ ~ Waits(r)
      BY <1>0, <1>1, <1>6, <2>3, <3>2 DEF SetChannel, TypeOK
    <3>4. /\ meta'[s].state = meta[s].state
          /\ meta[s].state = "closed" => meta'[s].channelId = None
          /\ meta[s].state # "closed" => meta'[s].channelId = ch
      <4>1. CASE meta[s].state = "closed"
        BY <1>1, <1>4, <2>3, <3>2, <4>1 DEF SetChannel, MetaInv, ClosedEmpty
      <4>2. CASE meta[s].state # "closed"
        <5>1. meta' = [meta EXCEPT ![s].channelId = ch]
          BY <1>1, <1>4, <2>3, <3>2, <4>2 DEF SetChannel
        <5> QED
          BY <1>0, <4>2, <5>1, MetaOf
      <4> QED
        BY <4>1, <4>2
    <3>5. Held(s)'
      BY <1>4, <1>7, <2>3, <3>1, <3>2, <3>4 DEF Held
    <3>6. \A r \in Sockets : Held(r)'
      BY <2>1, <3>3, <3>5
    <3>7. ClosedEmpty'
      BY <3>3, <3>4 DEF MetaInv, ClosedEmpty
    <3> QED
      BY <2>0, <3>6, <3>7 DEF MetaInv
  <2>4. CASE h.step \in {"look", "count"}
    <3>1. /\ SetChannel(t, h.channel) /\ h.channel \in Channels
          /\ PartsOf(h.channel, h.user) # {}
      BY <1>2, <1>5, <2>0, <2>4 DEF Ends, Behalf
    <3>2. PICK ch \in Channels : ch = h.channel
      BY <3>1
    <3> QED
      BY <1>4, <2>3, <2>4, <3>1, <3>2
  <2>5. CASE h.step = "uncount"
    <3>1. PICK ch \in Channels \cup {None} : ch = None
      OBVIOUS
    <3>2. SetChannel(t, ch) /\ h.channel # None
      BY <2>0, <2>5, <3>1 DEF Ends
    <3> QED
      BY <2>3, <2>5, <3>1, <3>2
  <2> QED
    BY <2>0, <2>2, <2>4, <2>5
<1>9. CASE y # None
  <2>0. Moves(h, y) /\ UNCHANGED meta /\ t \in Busy'
    BY <1>1, <1>3, <1>9 DEF Busy
  <2>1. \A a \in h.rest : part'[a[1]].user = h.user
    BY <1>1, <1>2, PartsMove DEF Behalf
  <2>2. h.step \notin {"insert", "delete"} => UNCHANGED part
    BY <1>1, ByStep
  <2>3. Behalf(y)'
    <3>1. CASE h.step \in {"find", "create", "look"}
      BY <1>2, <1>4, <1>5, <2>0, <2>1, <3>1 DEF Behalf, Moves, Keeps, JoinSteps
    <3>2. CASE h.step = "insert"
      <4>1. PICK p : Inserted(h.channel, h.user, p)
        BY <1>1, <3>2, PartsMove
      <4>2. PartsOf(h.channel, h.user)' # {}
        BY <1>4, <1>5, <3>2, <4>1 DEF Inserted
      <4>3. y.step = "count" /\ Keeps(h, y) /\ y.user = h.user /\ y.sock = h.sock
        BY <2>0, <3>2 DEF Moves
      <4>4. PartsOf(y.channel, y.user)' # {}
        BY <4>2, <4>3 DEF Keeps, PartsOf, PartsIn
      <4> QED
        BY <1>2, <1>4, <1>5, <2>1, <3>2, <4>3, <4>4 DEF Behalf, Keeps, JoinSteps
    <3>3. CASE h.step = "leave"
      <4>1. part'[y.part].user = y.user
        BY <2>0, <2>2, <3>3 DEF Moves, PartsOf
      <4> QED
        BY <1>2, <1>4, <1>5, <2>0, <2>1, <3>3, <4>1 DEF Behalf, Moves, Keeps, JoinSteps
    <3>4. CASE h.step = "delete"
      BY <1>2, <2>0, <2>1, <3>4 DEF Behalf, Moves, Keeps, JoinSteps
    <3>5. CASE h.step = "uncount"
      BY <1>2, <1>4, <2>0, <2>1, <3>5 DEF Behalf, Moves, Keeps, JoinSteps
    <3>6. CASE h.step = "list"
      <4>1. \A a \in y.rest : part'[a[1]].user = y.user
        BY <2>0, <2>2, <3>6 DEF Moves, PartsOf
      <4> QED
        BY <1>2, <2>0, <3>6, <4>1 DEF Behalf, Moves, JoinSteps
    <3>7. CASE h.step = "sweep"
      <4>1. PICK a \in h.rest : y.part = a[1] /\ y.rest = h.rest \ {a}
        BY <2>0, <3>7 DEF Moves
      <4>2. part'[y.part].user = y.user /\ \A b \in y.rest : part'[b[1]].user = y.user
        BY <2>0, <2>1, <4>1 DEF Moves
      <4> QED
        BY <1>2, <2>0, <3>7, <4>2 DEF Behalf, Moves, JoinSteps
    <3> QED
      BY <2>0, <3>1, <3>2, <3>3, <3>4, <3>5, <3>6, <3>7 DEF Moves
  <2>4. ASSUME NEW s \in Sockets PROVE Held(s)'
    <3>0. meta'[s].channelId = meta[s].channelId
      BY <2>0
    <3>1. CASE Waits(s)
      <4>1. y.sock = s /\ y.step \in JoinSteps
        BY <1>2, <1>4, <1>6, <2>0, <3>1 DEF Moves, JoinSteps, Behalf
      <4>2. Waits(s)'
        BY <1>3, <2>0, <4>1 DEF Waits
      <4> QED
        BY <4>2 DEF Held
    <3>2. CASE h.step = "delete" /\ Account[s] = h.user
      <4>1. CASE h.channel = None
        BY <1>2, <3>0, <3>2, <4>1 DEF Behalf, Held
      <4>2. CASE h.channel # None
        <5>1. h.sock = s
          BY <1>2, <3>2, <4>2 DEF Behalf, OneSocketPerUser
        <5>2. y.sock = s /\ y.step = "uncount"
          BY <2>0, <3>2, <5>1 DEF Moves
        <5>3. Waits(s)'
          BY <1>3, <2>0, <5>2 DEF Waits
        <5> QED
          BY <5>3 DEF Held
      <4> QED
        BY <4>1, <4>2
    <3>3. CASE ~ Waits(s) /\ (h.step = "delete" => Account[s] # h.user)
      <4>1. meta[s].channelId # None => PartsOf(meta[s].channelId, Account[s]) # {}
        BY <3>3 DEF MetaInv, Held
      <4>2. PICK ch \in Channels \cup {None}, u \in Users : ch = meta[s].channelId /\ u = Account[s]
        BY <1>4
      <4>3. ch # None => PartsOf(ch, u)' # {}
        BY <1>7, <3>3, <4>1, <4>2
      <4> QED
        BY <3>0, <4>2, <4>3 DEF Held
    <3> QED
      BY <3>1, <3>2, <3>3
  <2>5. \A r \in Busy' : Behalf(task[r])'
    BY <1>3, <2>3 DEF Behalf
  <2> QED
    BY <2>0, <2>4, <2>5 DEF MetaInv, ClosedEmpty
<1> QED
  BY <1>8, <1>9

LEMMA MetaStep ==
  ASSUME OneSocketPerUser, SceneInv, calm => MetaInv, [SceneNext]_<<vars, calm>>
  PROVE  calm' => MetaInv'
<1>1. ASSUME calm, SceneNext PROVE MetaInv'
  <2>1. VoiceInv /\ TypeOK /\ CalmInv /\ MetaInv /\ Next /\ ~ ByRest
    BY <1>1 DEF SceneInv, SceneNext, VoiceInv
  <2>2. Alone'
    BY <1>1, SceneStep DEF SceneInv, SceneNext, CalmInv
  <2>3. ASSUME NEW t \in Tasks, Handle(t) PROVE MetaInv'
    BY <2>1, <2>2, <2>3, MetaHandle
  <2>4. ASSUME NEW t \in Tasks, Proceed(t) PROVE MetaInv'
    BY <2>1, <2>4, MetaProceeds
  <2>5. ASSUME NEW s \in Sockets, HandleConnection(s) \/ HandleIdentity(s)
                                  \/ HandleJoinServer(s) \/ DisconnectAnonymous(s)
        PROVE  MetaInv'
    BY <2>1, <2>5, MetaSocket
  <2> QED
    BY <2>1, <2>3, <2>4, <2>5 DEF Next
<1>2. UNCHANGED <<vars, calm>> /\ MetaInv => MetaInv'
  BY DEF vars, MetaInv, ClosedEmpty, Held, Waits, Behalf, Busy, PartsOf, PartsIn
<1> QED
  BY <1>1, <1>2 DEF SceneNext

(* When each user has one socket and events come one at a time: once nothing *)
(* is in flight, a socket that holds a channel belongs to a participant of   *)
(* it, so that the auto-leave of handleJoinChannel finds what it leaves.     *)
THEOREM MetaTrueOneByOne ==
  ASSUME OneSocketPerUser
  PROVE  SceneSpec => []CalmMetaIsTrue
<1> DEFINE I == SceneInv /\ (calm => MetaInv)
<1>1. SceneInit => I
  <2> SUFFICES ASSUME SceneInit PROVE SceneInv /\ MetaInv
    OBVIOUS
  <2>1. Busy = {} /\ \A s \in Sockets : meta[s].channelId = None
    BY DEF SceneInit, Init, Busy, Closed
  <2> QED
    BY <2>1, SceneStart DEF SceneInv, MetaInv, ClosedEmpty, Held
<1>2. I /\ [SceneNext]_<<vars, calm>> => I'
  BY MetaStep, SceneStep DEF SceneInv
<1>3. I => CalmMetaIsTrue
  BY DEF CalmMetaIsTrue, MetaIsTrue, Quiet, MetaInv, Held, Waits
<1> HIDE DEF I
<1> QED
  BY <1>1, <1>2, <1>3, PTL DEF SceneSpec
=============================================================================
