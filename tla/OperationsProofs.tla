--------------------------- MODULE OperationsProofs ---------------------------
(***************************************************************************)
(* What the commands of an operator rest on: the files they share, the     *)
(* release and the panel.                                                  *)
(*                                                                         *)
(* Files, for any number of processes, commands and crashes: an entry is   *)
(* lost only for one of the causes that are named, and feedback.json has   *)
(* no engagement that was not saved with the content, where it still is    *)
(* but for one of those causes.  Both rest on an invariant of each file    *)
(* that two commands never worked on at once                               *)
(* (Alone): at most one process is between its read and its write; what    *)
(* that process is about to write is what is recorded and its own entry    *)
(* (Carries), and while no process has the file open, the file holds what  *)
(* is recorded (Rests).  A torn file gives this up, but then what is on    *)
(* disk, and what is about to go there, cannot be parsed.                  *)
(*                                                                         *)
(* Release and panel, for any gates, jobs, proposals, connectors, actions  *)
(* and any length of the history: the types are the invariant, and the     *)
(* rest holds of every typed state.  What takes work is to know the values *)
(* of the operators: which gates have failed, how a set of rows is counted *)
(* on both sides of a split, and which action stands at each place of the  *)
(* queue (its place is the number of the actions before it).               *)
(*                                                                         *)
(* What sorts and sums give, for any finite set, comes first: nothing in   *)
(* their definitions says that a sum is a number or a sort leaves nothing  *)
(* out.                                                                    *)
(***************************************************************************)
EXTENDS SharedFiles, ProductionOps, Sorting, FiniteSetTheorems, FunctionTheorems, SequenceTheorems, TLAPS

(* A process between two commands keeps nothing of the last; one between   *)
(* the two files of a feedback keeps its metric; and what becomes of an    *)
(* entry goes with the file.                                               *)
Forgotten ==
  \A p \in Procs :
    /\ pc[p] = "idle" => file[p] = Nothing /\ op[p] = "add" /\ text[p] = Blank
    /\ pc[p] = "loaded" => file[p] = "content" /\ op[p] = "add"
    /\ pc[p] = "fetched" => file[p] = "feedback.json" /\ text[p] = Blank
    /\ op[p] = "remove" => file[p] = "personas.json"
    /\ op[p] = "save" => file[p] = "content"
    /\ op[p] = "none" => file[p] \in {"content", "feedback.json"}

(* What is in feedback.json, or about to go there, was saved before.       *)
Saved ==
  /\ disk["feedback.json"].entries \subseteq recorded["content"]
  /\ \A p \in Procs : file[p] = "feedback.json" =>
       /\ text[p].entries \subseteq recorded["content"]
       /\ op[p] = "add" => mine[p] \in recorded["content"]

SavedInv == FilesTypeOK /\ Forgotten /\ Saved

(* The process p works on what it read of f.                               *)
Active(p, f) == pc[p] \in {"loaded", "read", "open"} /\ file[p] = f

(* The process p is done with its file, for good or for another.           *)
Leaves(p) ==
  /\ pc' = [pc EXCEPT ![p] = pc'[p]] /\ pc'[p] \in {"idle", "fetched"}
  /\ \A q \in Procs \ {p} :
       file'[q] = file[q] /\ op'[q] = op[q] /\ mine'[q] = mine[q] /\ text'[q] = text[q]

(* The set s is what a file may hold when r was recorded.                  *)
Holds(f, s, r) ==
  /\ s \subseteq r
  /\ IF f = "feedback.json" THEN filterByWindow(r, now) \subseteq s ELSE r \subseteq s

(* What will have been recorded when p has written.                        *)
After(p, f) ==
  CASE pc[p] # "loaded" /\ op[p] = "add" -> recorded[f] \cup {mine[p]}
    [] op[p] = "remove"                  -> recorded[f] \ {mine[p]}
    [] pc[p] = "loaded" /\ op[p] = "add" -> recorded[f]
    [] op[p] \in {"none", "save"}        -> recorded[f]

OneActive(f) == \A p, q \in Procs : Active(p, f) /\ Active(q, f) => p = q

OpenedBlank(f) == \A p \in Procs : pc[p] = "open" /\ file[p] = f => disk[f] = Blank

Carries(p, f) ==
  /\ torn[f] = "no" =>
       text[p] = Clean(text[p].entries) /\ Holds(f, text[p].entries, After(p, f))
  /\ torn[f] = "half" /\ f \notin Resettable => f \in Lines /\ text[p].bad

Rests(f) ==
  /\ torn[f] = "no" =>
       disk[f] = Clean(disk[f].entries) /\ Holds(f, disk[f].entries, recorded[f])
  /\ torn[f] = "half" /\ f \notin Resettable => disk[f].bad

Alone(f) ==
  /\ OneActive(f)
  /\ OpenedBlank(f)
  /\ \A p \in Procs : Active(p, f) => Carries(p, f)
  /\ Settled(f) => Rests(f)

LossInv ==
  /\ SavedInv
  /\ \A f \in Files : overlap[f] \/ Alone(f)

-----------------------------------------------------------------------------
(* Sums and sorts.  SumFunctionOnSet is a recursive function chosen with   *)
(* CHOOSE: that there is one, and what it sums to, is shown by the least   *)
(* counterexample.                                                         *)

(* Of a set of numbers that is not empty one is the least.                 *)
LEMMA LeastExists ==
  ASSUME NEW S \in SUBSET Nat, S # {}
  PROVE  \E x \in S : \A y \in S : x <= y
<1>1. PICK x \in S : \A y \in S : ~ (<<y, x>> \in OpToRel(<, Nat))
  BY WFMin, NatLessThanWellFounded
<1>2. ASSUME NEW y \in S PROVE x <= y
  <2>1. ~ y < x
    BY <1>1 DEF OpToRel
  <2> QED BY <2>1
<1> QED BY <1>2

(* What SumFunctionOnSet recurs on: it takes one element of a set after    *)
(* the other.  Sums says so of a function on the subsets of S that have at *)
(* most n elements.                                                        *)
OneOf(s) == CHOOSE x \in s : TRUE
UpTo(S, n) == {s \in SUBSET S : Cardinality(s) <= n}
Sums(fun, D, f) == f = [s \in D |-> IF s = {} THEN 0 ELSE fun[OneOf(s)] + f[s \ {OneOf(s)}]]

(* A set without that element is smaller.                                  *)
LEMMA WithoutOne ==
  ASSUME NEW S, IsFiniteSet(S), NEW n \in Nat, NEW s \in UpTo(S, n), s # {}
  PROVE  /\ OneOf(s) \in S /\ n > 0
         /\ s \ {OneOf(s)} \in UpTo(S, n - 1)
         /\ IsFiniteSet(s) /\ Cardinality(s) \in Nat
         /\ Cardinality(s \ {OneOf(s)}) = Cardinality(s) - 1
<1>1. s \in SUBSET S /\ OneOf(s) \in s
  BY DEF UpTo, OneOf
<1>2. IsFiniteSet(s) /\ Cardinality(s) \in Nat
  BY <1>1, FS_Subset, FS_CardinalityType
<1>3. Cardinality(s \ {OneOf(s)}) = Cardinality(s) - 1
  BY <1>1, <1>2, FS_RemoveElement
<1>4. Cardinality(s \ {OneOf(s)}) \in Nat
  BY <1>1, <1>2, FS_RemoveElement, FS_CardinalityType
<1> QED BY <1>1, <1>2, <1>3, <1>4 DEF UpTo

(* There is such a function: of n elements it is made of that of n - 1.    *)
LEMMA SumsExist ==
  ASSUME NEW S, IsFiniteSet(S), NEW fun, \A x \in S : fun[x] \in Nat, NEW n \in Nat
  PROVE  \E f \in [UpTo(S, n) -> Nat] : Sums(fun, UpTo(S, n), f)
<1> DEFINE Q == {m \in Nat : ~ \E f \in [UpTo(S, m) -> Nat] : Sums(fun, UpTo(S, m), f)}
<1>1. SUFFICES ASSUME Q # {} PROVE FALSE
  OBVIOUS
<1>2. PICK m \in Q : \A k \in Q : m <= k
  <2>1. Q \in SUBSET Nat
    OBVIOUS
  <2> HIDE DEF Q
  <2> QED BY <1>1, <2>1, LeastExists
<1>3. m # 0
  <2> DEFINE zero == [s \in UpTo(S, 0) |-> 0]
  <2>1. ASSUME NEW s \in UpTo(S, 0), s # {} PROVE FALSE
    <3>1. 0 \in Nat
      OBVIOUS
    <3>2. 0 > 0
      BY <2>1, <3>1, WithoutOne
    <3> QED BY <3>2
  <2>2. zero = [s \in UpTo(S, 0) |-> IF s = {} THEN 0 ELSE fun[OneOf(s)] + zero[s \ {OneOf(s)}]]
    BY <2>1
  <2>3. zero \in [UpTo(S, 0) -> Nat]
    OBVIOUS
  <2>4. Sums(fun, UpTo(S, 0), zero)
    BY <2>2 DEF Sums
  <2> QED BY <2>3, <2>4
<1>4. m - 1 \in Nat /\ m - 1 \notin Q /\ m \in Nat
  <2>1. m - 1 \in Nat /\ m \in Nat
    BY <1>3
  <2>2. ~ m <= m - 1
    BY <2>1
  <2> HIDE DEF Q
  <2> QED BY <1>2, <2>1, <2>2
<1>5. PICK f \in [UpTo(S, m - 1) -> Nat] : Sums(fun, UpTo(S, m - 1), f)
  BY <1>4
<1> DEFINE g == [s \in UpTo(S, m) |-> IF s = {} THEN 0 ELSE fun[OneOf(s)] + f[s \ {OneOf(s)}]]
<1>6. g \in [UpTo(S, m) -> Nat]
  <2>1. ASSUME NEW s \in UpTo(S, m), s # {}
        PROVE  fun[OneOf(s)] \in Nat /\ f[s \ {OneOf(s)}] \in Nat
    <3>1. OneOf(s) \in S /\ s \ {OneOf(s)} \in UpTo(S, m - 1)
      BY <1>4, <2>1, WithoutOne
    <3> QED BY <3>1
  <2>2. \A s \in UpTo(S, m) : (IF s = {} THEN 0 ELSE fun[OneOf(s)] + f[s \ {OneOf(s)}]) \in Nat
    BY <2>1
  <2> QED BY <2>2
<1>7. ASSUME NEW s \in UpTo(S, m), s # {}
      PROVE  g[s \ {OneOf(s)}] = f[s \ {OneOf(s)}]
  <2> DEFINE r == s \ {OneOf(s)}
  <2>1. r \in UpTo(S, m - 1)
    BY <1>4, <1>7, WithoutOne
  <2>2. r \in UpTo(S, m)
    <3>1. Cardinality(r) \in Nat
      BY <1>4, <2>1, FS_Subset, FS_CardinalityType DEF UpTo
    <3> QED BY <1>4, <2>1, <3>1 DEF UpTo
  <2>3. f[r] = IF r = {} THEN 0 ELSE fun[OneOf(r)] + f[r \ {OneOf(r)}]
    BY <1>5, <2>1 DEF Sums
  <2> QED BY <2>2, <2>3
<1>8. Sums(fun, UpTo(S, m), g)
  <2>1. g = [s \in UpTo(S, m) |-> IF s = {} THEN 0 ELSE fun[OneOf(s)] + g[s \ {OneOf(s)}]]
    BY <1>7
  <2> QED BY <2>1 DEF Sums
<1> QED BY <1>6, <1>8

(* A function that sums is natural wherever its summands are.              *)
LEMMA SumsAreNat ==
  ASSUME NEW S, IsFiniteSet(S), NEW fun, \A x \in S : fun[x] \in Nat,
         NEW f, Sums(fun, SUBSET S, f)
  PROVE  \A s \in SUBSET S : f[s] \in Nat
<1> DEFINE Q == {n \in Nat : \E s \in SUBSET S : Cardinality(s) = n /\ f[s] \notin Nat}
<1>1. SUFFICES ASSUME NEW t \in SUBSET S, f[t] \notin Nat PROVE FALSE
  OBVIOUS
<1>2. Cardinality(t) \in Q
  <2>1. Cardinality(t) \in Nat
    BY FS_Subset, FS_CardinalityType
  <2> QED BY <1>1, <2>1
<1>3. PICK m \in Q : \A k \in Q : m <= k
  <2>1. Q \in SUBSET Nat /\ Q # {}
    BY <1>2
  <2> HIDE DEF Q
  <2> QED BY <2>1, LeastExists
<1>4. PICK s \in SUBSET S : Cardinality(s) = m /\ f[s] \notin Nat
  OBVIOUS
<1>5. f[s] = IF s = {} THEN 0 ELSE fun[OneOf(s)] + f[s \ {OneOf(s)}]
  BY DEF Sums
<1>6. s # {} /\ s \in UpTo(S, m)
  BY <1>4, <1>5 DEF UpTo
<1>7. /\ OneOf(s) \in S /\ s \ {OneOf(s)} \in SUBSET S
      /\ Cardinality(s \ {OneOf(s)}) = m - 1 /\ m - 1 \in Nat
  <2>1. m \in Nat
    OBVIOUS
  <2> HIDE DEF Q
  <2>2. OneOf(s) \in S /\ Cardinality(s \ {OneOf(s)}) = Cardinality(s) - 1 /\ m > 0
    BY <1>6, <2>1, WithoutOne
  <2> QED BY <1>4, <2>1, <2>2
<1>8. m - 1 \notin Q
  <2>1. ~ m <= m - 1
    BY <1>7
  <2> HIDE DEF Q
  <2> QED BY <1>3, <2>1
<1>9. f[s \ {OneOf(s)}] \in Nat
  BY <1>7, <1>8
<1> QED BY <1>4, <1>5, <1>6, <1>7, <1>9

(* The sum of natural numbers is one.                                      *)
LEMMA SumIsNat ==
  ASSUME NEW S, IsFiniteSet(S), NEW fun, \A x \in S : fun[x] \in Nat
  PROVE  SumFunctionOnSet(fun, S) \in Nat
<1> DEFINE iter == CHOOSE f : Sums(fun, SUBSET S, f)
<1>1. Sums(fun, SUBSET S, iter)
  <2>1. Cardinality(S) \in Nat
    BY FS_CardinalityType
  <2>2. UpTo(S, Cardinality(S)) = SUBSET S
    BY FS_Subset DEF UpTo
  <2>3. \E f \in [UpTo(S, Cardinality(S)) -> Nat] : Sums(fun, UpTo(S, Cardinality(S)), f)
    BY <2>1, SumsExist
  <2>4. \E f : Sums(fun, SUBSET S, f)
    BY <2>2, <2>3
  <2> QED BY <2>4
<1>2. SumFunctionOnSet(fun, S) = iter[S]
  BY DEF SumFunctionOnSet, FoldFunctionOnSet, MapThenFoldSet, Sums, OneOf
<1> HIDE DEF iter
<1> QED BY <1>1, <1>2, SumsAreNat

(* The pairs in order make a strict order of S.                            *)
Orders(order, S) ==
  /\ \A a \in S : <<a, a>> \notin order
  /\ \A a, b \in S : a # b => <<a, b>> \in order \/ <<b, a>> \in order
  /\ \A a, b, c \in S : <<a, b>> \in order /\ <<b, c>> \in order => <<a, c>> \in order

(* Those before a, and how many they are.                                  *)
Ahead(a, S, order) == {b \in S : <<b, a>> \in order}
Place(a, S, order) == Cardinality(Ahead(a, S, order))

(* Each element has a place of its own, and every place is taken.          *)
LEMMA PlacesAre ==
  ASSUME NEW S, IsFiniteSet(S), NEW order, Orders(order, S)
  PROVE  /\ \A a \in S : Place(a, S, order) \in 0 .. Cardinality(S) - 1
         /\ \A a, b \in S : <<a, b>> \in order => Place(a, S, order) < Place(b, S, order)
         /\ \A a, b \in S : Place(a, S, order) = Place(b, S, order) => a = b
         /\ \A i \in 1 .. Cardinality(S) : \E a \in S : Place(a, S, order) = i - 1
<1> DEFINE n == Cardinality(S)
           Below(a) == Ahead(a, S, order)
           Rk(a) == Place(a, S, order)
<1>1. n \in Nat
  BY FS_CardinalityType
<1>2. ASSUME NEW a \in S
      PROVE  IsFiniteSet(Below(a)) /\ Rk(a) \in Nat /\ Rk(a) < n
  <2>1. Below(a) \in SUBSET S /\ a \notin Below(a)
    BY DEF Orders, Ahead
  <2>2. Rk(a) = Cardinality(Below(a))
    BY DEF Place
  <2> HIDE DEF Below, Rk
  <2>3. IsFiniteSet(Below(a)) /\ Rk(a) <= n /\ (n = Rk(a) => S = Below(a))
    BY <1>1, <2>1, <2>2, FS_Subset
  <2>4. Rk(a) \in Nat
    BY <2>2, <2>3, FS_CardinalityType
  <2> QED BY <1>1, <2>1, <2>2, <2>3, <2>4
<1>3. ASSUME NEW a \in S, NEW b \in S, <<a, b>> \in order
      PROVE  Rk(a) < Rk(b)
  <2>1. Below(a) \in SUBSET Below(b) /\ a \in Below(b) /\ a \notin Below(a)
    BY <1>3 DEF Orders, Ahead
  <2>2. Rk(a) = Cardinality(Below(a)) /\ Rk(b) = Cardinality(Below(b))
    BY DEF Place
  <2>3. Rk(a) \in Nat /\ Rk(b) \in Nat /\ IsFiniteSet(Below(b))
    BY <1>2
  <2> HIDE DEF Below, Rk
  <2>4. Rk(a) <= Rk(b) /\ (Rk(b) = Rk(a) => Below(b) = Below(a))
    BY <2>1, <2>2, <2>3, FS_Subset
  <2> QED BY <2>1, <2>3, <2>4
<1>4. \A a, b \in S : Rk(a) = Rk(b) => a = b
  <2> SUFFICES ASSUME NEW a \in S, NEW b \in S, Rk(a) = Rk(b), a # b PROVE FALSE
    OBVIOUS
  <2>1. Rk(a) < Rk(b) \/ Rk(b) < Rk(a)
    BY <1>3 DEF Orders
  <2>2. Rk(a) \in Nat /\ Rk(b) \in Nat
    BY <1>2
  <2> QED BY <2>1, <2>2
<1>5. \A i \in 1 .. n : \E a \in S : Rk(a) = i - 1
  <2> DEFINE f == [a \in S |-> Rk(a)]
  <2> HIDE DEF n, Below, Rk
  <2>1. f \in [S -> 0 .. n - 1]
    BY <1>1, <1>2
  <2>2. f \in Injection(S, 0 .. n - 1)
    BY <1>4, <2>1 DEF Injection, IsInjective
  <2>3. IsFiniteSet(0 .. n - 1) /\ Cardinality(0 .. n - 1) = n
    <3>1. /\ IsFiniteSet(0 .. n - 1)
          /\ Cardinality(0 .. n - 1) = IF 0 > n - 1 THEN 0 ELSE n - 1 - 0 + 1
      BY <1>1, FS_Interval
    <3> QED BY <1>1, <3>1
  <2>4. f \in Surjection(S, 0 .. n - 1)
    BY <2>2, <2>3, FS_Injection DEF n
  <2>5. \A k \in 0 .. n - 1 : \E a \in S : f[a] = k
    BY <2>4 DEF Surjection
  <2> QED BY <1>1, <2>5
<1> HIDE DEF n, Below, Rk
<1>6. \A a \in S : Rk(a) \in 0 .. n - 1
  BY <1>1, <1>2
<1> QED BY <1>3, <1>4, <1>5, <1>6 DEF n, Rk

(* So a sorted set lists it, once, in its order.                           *)
LEMMA SortedIs ==
  ASSUME NEW S, IsFiniteSet(S), NEW order, Orders(order, S)
  PROVE  LET s == Sorted(S, order) n == Cardinality(S)
         IN  /\ n \in Nat /\ s \in [1 .. n -> S]
             /\ \A a \in S : \E i \in 1 .. n : s[i] = a
             /\ \A i, j \in 1 .. n : i < j <=> <<s[i], s[j]>> \in order
             /\ \A i, j \in 1 .. n : s[i] = s[j] => i = j
<1> DEFINE s == Sorted(S, order)
           n == Cardinality(S)
           Rk(a) == Place(a, S, order)
<1>1. n \in Nat
  BY FS_CardinalityType
<1>2. /\ \A a \in S : Rk(a) \in 0 .. n - 1
      /\ \A a, b \in S : <<a, b>> \in order => Rk(a) < Rk(b)
      /\ \A a, b \in S : Rk(a) = Rk(b) => a = b
      /\ \A i \in 1 .. n : \E a \in S : Rk(a) = i - 1
  BY PlacesAre
<1>3. s = [i \in 1 .. n |-> CHOOSE a \in S : Rk(a) = i - 1]
  BY DEF Sorted, Place, Ahead
<1> HIDE DEF Rk, s, n
<1>4. ASSUME NEW i \in 1 .. n PROVE s[i] \in S /\ Rk(s[i]) = i - 1
  BY <1>2, <1>3
<1>5. ASSUME NEW i \in 1 .. n, NEW j \in 1 .. n
      PROVE  i < j <=> <<s[i], s[j]>> \in order
  <2>1. s[i] \in S /\ s[j] \in S /\ Rk(s[i]) = i - 1 /\ Rk(s[j]) = j - 1
    BY <1>4
  <2>2. CASE s[i] = s[j]
    BY <1>1, <2>1, <2>2 DEF Orders
  <2>3. CASE s[i] # s[j]
    <3>1. <<s[i], s[j]>> \in order \/ <<s[j], s[i]>> \in order
      BY <2>1, <2>3 DEF Orders
    <3>2. <<s[i], s[j]>> \in order => i - 1 < j - 1
      BY <1>2, <2>1
    <3>3. <<s[j], s[i]>> \in order => j - 1 < i - 1
      BY <1>2, <2>1
    <3> QED BY <1>1, <3>1, <3>2, <3>3
  <2> QED BY <2>2, <2>3
<1>6. \A a \in S : \E i \in 1 .. n : s[i] = a
  <2> TAKE a \in S
  <2>1. Rk(a) + 1 \in 1 .. n /\ Rk(a) \in Int
    BY <1>1, <1>2
  <2>2. s[Rk(a) + 1] \in S /\ Rk(s[Rk(a) + 1]) = Rk(a)
    BY <1>4, <2>1
  <2> QED BY <1>2, <2>1, <2>2
<1>7. \A i, j \in 1 .. n : s[i] = s[j] => i = j
  BY <1>1, <1>4
<1>8. s \in [1 .. n -> S]
  BY <1>3, <1>4
<1> QED BY <1>1, <1>5, <1>6, <1>7, <1>8 DEF s, n

-----------------------------------------------------------------------------
(* Types                                                                   *)

LEMMA CleanTypes ==
  ASSUME NEW s \in SUBSET Entries
  PROVE  Clean(s) \in FileTexts
BY DEF Clean, FileTexts

LEMMA ChangedTypes ==
  ASSUME NEW f \in Files \ {"content", "feedback.json"}, NEW c \in FileTexts, NEW o, NEW e \in Entries
  PROVE  Changed(f, loaded(f, c), o, e) \in FileTexts
<1>1. Blank \in FileTexts
  BY CleanTypes DEF Blank
<1>2. loaded(f, c) \in FileTexts
  BY <1>1 DEF loaded, loadPersonas, readVault, Files, Resettable, Lines
<1>3. PICK d \in FileTexts : d = loaded(f, c)
  BY <1>2
<1>4. /\ appendEvent(d, e) \in FileTexts
      /\ appendAuditJsonl(d, e) \in FileTexts
  BY DEF appendEvent, appendAuditJsonl, FileTexts
<1>5. /\ savePersonas(d, o, e) \in FileTexts
      /\ setSecret(d, e) \in FileTexts
  BY CleanTypes DEF savePersonas, setSecret, FileTexts
<1> QED
  BY <1>3, <1>4, <1>5 DEF Changed, Files, Resettable, Lines

LEMMA FilterTypes ==
  ASSUME NEW s, NEW t
  PROVE  filterByWindow(s, t) \subseteq s
BY DEF filterByWindow

LEMMA NewTypes ==
  ASSUME FilesTypeOK, count < MaxCommands
  PROVE  New \in Entries /\ count + 1 \in 0 .. MaxCommands
BY FilesAssumption DEF FilesTypeOK, New, Entries

LEMMA DoneTypes ==
  ASSUME FilesTypeOK, NEW p \in Procs, Done(p)
  PROVE  /\ pc' \in [Procs -> {"idle", "loaded", "fetched", "read", "open"}]
         /\ file' \in [Procs -> Files \cup {Nothing}]
         /\ op' \in [Procs -> {"add", "remove", "none", "save"}]
         /\ mine' \in [Procs -> Entries \cup {Nothing}]
         /\ text' \in [Procs -> FileTexts]
         /\ \A q \in Procs : pc'[q] # "idle" => file'[q] \in Files /\ mine'[q] \in Entries
<1>1. Blank \in FileTexts
  BY CleanTypes DEF Blank
<1> QED
  BY <1>1 DEF FilesTypeOK, Done

LEMMA WrittenTypes ==
  ASSUME NEW f \in Files, NEW t \in FileTexts
  PROVE  /\ Written(f, t) \subseteq FileTexts
         /\ Beginnings(f, t) \subseteq FileTexts
         /\ f = "feedback.json" => /\ \A c \in Written(f, t) : c.entries \subseteq t.entries
                                   /\ \A c \in Beginnings(f, t) : c.entries = {}
         /\ \A c \in Beginnings(f, t) : c.bad
<1>1. ASSUME NEW u \in SUBSET t.entries, NEW b \in BOOLEAN
      PROVE  /\ Unparsable(f, u, b) \in FileTexts
             /\ Unparsable(f, u, b).bad
             /\ f = "feedback.json" => Unparsable(f, u, b).entries = {}
  BY DEF Unparsable, FileTexts, Lines
<1>2. ASSUME NEW c \in Beginnings(f, t)
      PROVE  c \in FileTexts /\ c.bad /\ (f = "feedback.json" => c.entries = {})
  <2>1. PICK n \in t.entries \cup {Post} : c = Unparsable(f, {e \in t.entries : e.id < n.id}, TRUE)
    BY DEF Beginnings
  <2>2. {e \in t.entries : e.id < n.id} \in SUBSET t.entries
    OBVIOUS
  <2> QED
    BY <1>1, <2>1, <2>2
<1>3. ASSUME NEW c \in Written(f, t)
      PROVE  c \in FileTexts /\ (f = "feedback.json" => c.entries \subseteq t.entries)
  <2>1. c = t \/ c = Unparsable(f, t.entries, FALSE)
    BY DEF Written
  <2>2. t.entries \in SUBSET t.entries
    OBVIOUS
  <2> QED
    BY <1>1, <2>1, <2>2
<1> QED
  BY <1>2, <1>3

-----------------------------------------------------------------------------
(* feedback.json and the content                                           *)

LEMMA InitSavedInv == FilesInit => SavedInv
<1> SUFFICES ASSUME FilesInit PROVE SavedInv
  OBVIOUS
<1>1. Blank \in FileTexts /\ Blank.entries = {}
  BY CleanTypes DEF Blank, Clean
<1>2. Post \in Entries
  BY FilesAssumption DEF Post, Entries
<1>3. FilesTypeOK
  <2>1. recorded \in [Files -> SUBSET Entries]
    BY <1>2 DEF FilesInit
  <2>2. disk \in [Files -> FileTexts]
    BY <2>1, CleanTypes DEF FilesInit
  <2> QED
    BY <1>1, <2>1, <2>2, FilesAssumption DEF FilesInit, FilesTypeOK
<1>4. ASSUME NEW p \in Procs
      PROVE  /\ pc[p] = "idle" => file[p] = Nothing /\ op[p] = "add" /\ text[p] = Blank
             /\ pc[p] = "loaded" => file[p] = "content" /\ op[p] = "add"
             /\ pc[p] = "fetched" => file[p] = "feedback.json" /\ text[p] = Blank
             /\ op[p] = "remove" => file[p] = "personas.json"
             /\ op[p] = "save" => file[p] = "content"
             /\ op[p] = "none" => file[p] \in {"content", "feedback.json"}
  <2>1. pc[p] = "idle" /\ file[p] = Nothing /\ op[p] = "add" /\ text[p] = Blank
    BY DEF FilesInit
  <2> QED
    BY <2>1
<1>5. Saved
  <2>1. disk["feedback.json"].entries = {}
    BY DEF FilesInit, Clean, Files
  <2> QED
    BY <1>1, <2>1, FilesAssumption DEF FilesInit, Saved, Files
<1> QED
  BY <1>3, <1>4, <1>5, Zenon DEF SavedInv, Forgotten

LEMMA LoadContentsSaved ==
  ASSUME SavedInv, NEW p \in Procs, LoadContents(p)
  PROVE  SavedInv'
<1>1. New \in Entries /\ count + 1 \in 0 .. MaxCommands
  BY NewTypes DEF LoadContents, SavedInv
<1>2. disk["content"] \in FileTexts
  BY DEF SavedInv, FilesTypeOK, Files
<1>3. Blank.entries = {}
  BY DEF Blank, Clean
<1>4. overlap' \in [Files -> BOOLEAN]
  BY DEF LoadContents, Enter, SavedInv, FilesTypeOK
<1>5. FilesTypeOK'
  BY <1>1, <1>2, <1>4 DEF LoadContents, SavedInv, FilesTypeOK, Files
<1>6. Forgotten'
  BY DEF LoadContents, SavedInv, FilesTypeOK, Forgotten
<1>7. Saved'
  BY <1>3 DEF LoadContents, SavedInv, FilesTypeOK, Forgotten, Saved
<1> QED
  BY <1>5, <1>6, <1>7 DEF SavedInv

LEMMA FetchSaved ==
  ASSUME SavedInv, NEW p \in Procs, Fetch(p)
  PROVE  /\ SavedInv'
         /\ \/ /\ mine'[p] \in Entries /\ op'[p] = "add"
               /\ text'[p] = [entries |-> text[p].entries \cup {mine'[p]},
                              bad |-> text[p].bad, tail |-> text[p].tail]
            \/ op'[p] = "none" /\ text'[p] = text[p]
<1>1. file[p] = "content" /\ mine[p] \in Entries /\ text[p] \in FileTexts /\ op[p] = "add"
  BY DEF Fetch, SavedInv, FilesTypeOK, Forgotten
<1>2. CASE /\ mine' = [mine EXCEPT ![p].at = now]
           /\ text' = [text EXCEPT ![p].entries = @ \cup {mine'[p]}]
           /\ UNCHANGED op
  <2>1. mine'[p] = [mine[p] EXCEPT !.at = now] /\ mine' \in [Procs -> Entries \cup {Nothing}]
        /\ mine'[p] \in Entries
    <3>1. [mine[p] EXCEPT !.at = now] \in Entries
      BY <1>1 DEF Entries, SavedInv, FilesTypeOK
    <3> QED
      BY <1>2, <3>1 DEF SavedInv, FilesTypeOK
  <2>2. text'[p] = [entries |-> text[p].entries \cup {mine'[p]},
                    bad |-> text[p].bad, tail |-> text[p].tail]
    <3>1. text'[p] = [text[p] EXCEPT !.entries = @ \cup {mine'[p]}]
      BY <1>2 DEF SavedInv, FilesTypeOK
    <3> QED
      BY <1>1, <3>1 DEF FileTexts
  <2>3. text'[p] \in FileTexts
    BY <1>1, <2>1, <2>2 DEF FileTexts
  <2>4. FilesTypeOK'
    <3>1. text' \in [Procs -> FileTexts]
      BY <1>2, <2>2, <2>3 DEF SavedInv, FilesTypeOK
    <3>2. \A q \in Procs : pc'[q] # "idle" => file'[q] \in Files /\ mine'[q] \in Entries
      BY <1>2, <2>1 DEF Fetch, SavedInv, FilesTypeOK
    <3> QED
      BY <1>2, <2>1, <3>1, <3>2 DEF Fetch, SavedInv, FilesTypeOK, marks
  <2>5. Forgotten'
    BY <1>1, <1>2 DEF Fetch, SavedInv, FilesTypeOK, Forgotten
  <2>6. Saved'
    BY <1>1, <1>2 DEF Fetch, SavedInv, FilesTypeOK, Saved, marks
  <2> QED
    BY <1>1, <1>2, <2>1, <2>2, <2>4, <2>5, <2>6 DEF SavedInv
<1>3. CASE op' = [op EXCEPT ![p] = "none"] /\ UNCHANGED <<mine, text>>
  <2>1. FilesTypeOK'
    BY <1>3 DEF Fetch, SavedInv, FilesTypeOK, marks
  <2>2. Forgotten'
    BY <1>1, <1>3 DEF Fetch, SavedInv, FilesTypeOK, Forgotten
  <2>3. Saved'
    BY <1>1, <1>3 DEF Fetch, SavedInv, FilesTypeOK, Saved, marks
  <2> QED
    BY <1>3, <2>1, <2>2, <2>3 DEF SavedInv, FilesTypeOK
<1> QED
  BY <1>2, <1>3 DEF Fetch

LEMMA ReadFeedbackSaved ==
  ASSUME SavedInv, NEW p \in Procs, ReadFeedback(p)
  PROVE  SavedInv'
<1> DEFINE m == {e \in {mine[p]} : op[p] = "add"}
           t == appendFeedback(disk["feedback.json"], m, now)
<1>1. file[p] = "feedback.json" /\ m \subseteq Entries /\ m \subseteq recorded["content"]
  BY DEF ReadFeedback, SavedInv, Forgotten, FilesTypeOK, Saved
<1>2. disk["feedback.json"].entries \in SUBSET Entries
  BY DEF SavedInv, FilesTypeOK, Files, FileTexts
<1>3. t \in FileTexts /\ t.entries \subseteq disk["feedback.json"].entries \cup m
  <2>1. filterByWindow(disk["feedback.json"].entries \cup m, now)
          \subseteq disk["feedback.json"].entries \cup m
    BY FilterTypes
  <2> QED
    BY <1>1, <1>2, <2>1, CleanTypes DEF appendFeedback, Clean
<1>4. overlap' \in [Files -> BOOLEAN]
  BY DEF ReadFeedback, Enter, SavedInv, FilesTypeOK
<1>5. text' = [text EXCEPT ![p] = t]
  BY DEF ReadFeedback
<1> HIDE DEF t, m
<1>6. FilesTypeOK'
  BY <1>1, <1>3, <1>4, <1>5 DEF ReadFeedback, SavedInv, FilesTypeOK
<1>7. Forgotten'
  BY <1>1, <1>5 DEF ReadFeedback, SavedInv, FilesTypeOK, Forgotten
<1>8. Saved'
  BY <1>1, <1>3, <1>5 DEF ReadFeedback, SavedInv, FilesTypeOK, Saved
<1> QED
  BY <1>6, <1>7, <1>8 DEF SavedInv

(* A command that ends is forgotten.                                       *)
LEMMA DoneSaved ==
  ASSUME SavedInv, NEW p \in Procs, Done(p),
         disk' \in [Files -> FileTexts], recorded["content"] \subseteq recorded'["content"],
         disk'["feedback.json"].entries \subseteq recorded["content"]
  PROVE  Forgotten' /\ Saved'
<1>1. Forgotten'
  BY DEF SavedInv, FilesTypeOK, Forgotten, Done
<1>2. Saved'
  BY FilesAssumption DEF SavedInv, FilesTypeOK, Saved, Done, Files
<1> QED
  BY <1>1, <1>2

LEMMA ReadThrowsSaved ==
  ASSUME SavedInv, NEW p \in Procs, ReadThrows(p)
  PROVE  SavedInv'
<1>1. /\ disk' \in [Files -> FileTexts] /\ disk'["feedback.json"].entries \subseteq recorded["content"]
      /\ Done(p) /\ UNCHANGED recorded
  BY DEF ReadThrows, SavedInv, FilesTypeOK, Saved, marks
<1>2. FilesTypeOK'
  BY <1>1, DoneTypes DEF ReadThrows, SavedInv, FilesTypeOK, marks
<1> QED
  BY <1>1, <1>2, DoneSaved DEF SavedInv

LEMMA ReadSaved ==
  ASSUME SavedInv, NEW p \in Procs, NEW f \in Files, Read(p, f)
  PROVE  /\ SavedInv'
         /\ op'[p] \in {"add", "remove"} /\ mine'[p] \in Entries
         /\ op'[p] = "remove" => f = "personas.json"
         /\ text'[p] = Changed(f, loaded(f, disk[f]), op'[p], mine'[p])
<1>1. New \in Entries /\ count + 1 \in 0 .. MaxCommands
  BY NewTypes DEF Read, SavedInv
<1>2. disk[f] \in FileTexts
  BY DEF SavedInv, FilesTypeOK
<1>3. loaded("personas.json", disk[f]).entries \subseteq Entries
  BY <1>2, CleanTypes DEF loaded, loadPersonas, Blank, FileTexts, Clean
<1>4. /\ mine' \in [Procs -> Entries \cup {Nothing}] /\ mine'[p] \in Entries
      /\ op' \in [Procs -> {"add", "remove", "none", "save"}] /\ op'[p] \in {"add", "remove"}
      /\ op'[p] = "remove" => f = "personas.json"
      /\ \A q \in Procs \ {p} : mine'[q] = mine[q] /\ op'[q] = op[q]
  <2>1. CASE mine' = [mine EXCEPT ![p] = New] /\ UNCHANGED op
    <3>1. op[p] = "add"
      BY DEF Read, SavedInv, Forgotten
    <3> QED
      BY <1>1, <2>1, <3>1 DEF SavedInv, FilesTypeOK
  <2>2. CASE /\ f = "personas.json"
             /\ op' = [op EXCEPT ![p] = "remove"]
             /\ \E e \in loaded(f, disk[f]).entries : mine' = [mine EXCEPT ![p] = e]
    BY <1>3, <2>2 DEF SavedInv, FilesTypeOK
  <2> QED
    BY <2>1, <2>2 DEF Read
<1>5. Changed(f, loaded(f, disk[f]), op'[p], mine'[p]) \in FileTexts
  BY <1>2, <1>4, ChangedTypes DEF Read
<1>6. text' = [text EXCEPT ![p] = Changed(f, loaded(f, disk[f]), op'[p], mine'[p])]
  BY DEF Read
<1>7. overlap' \in [Files -> BOOLEAN]
  BY DEF Read, Enter, SavedInv, FilesTypeOK
<1>8. FilesTypeOK'
  BY <1>1, <1>4, <1>5, <1>6, <1>7 DEF Read, SavedInv, FilesTypeOK
<1>9. Forgotten'
  BY <1>4, <1>6 DEF Read, SavedInv, FilesTypeOK, Forgotten
<1>10. Saved'
  BY <1>4, <1>6 DEF Read, SavedInv, FilesTypeOK, Saved
<1> QED
  BY <1>4, <1>6, <1>8, <1>9, <1>10 DEF SavedInv, FilesTypeOK

LEMMA ReadContentSaved ==
  ASSUME SavedInv, NEW p \in Procs, ReadContent(p)
  PROVE  SavedInv'
<1>1. New \in Entries /\ count + 1 \in 0 .. MaxCommands
  BY NewTypes DEF ReadContent, SavedInv
<1>2. disk["content"] \in FileTexts
  BY DEF SavedInv, FilesTypeOK, Files
<1>3. overlap' \in [Files -> BOOLEAN]
  BY DEF ReadContent, Enter, SavedInv, FilesTypeOK
<1>4. FilesTypeOK'
  BY <1>1, <1>2, <1>3 DEF ReadContent, SavedInv, FilesTypeOK, Files
<1>5. Forgotten'
  BY DEF ReadContent, SavedInv, FilesTypeOK, Forgotten
<1>6. Saved'
  BY DEF ReadContent, SavedInv, FilesTypeOK, Saved
<1> QED
  BY <1>4, <1>5, <1>6 DEF SavedInv

LEMMA OpenSaved ==
  ASSUME SavedInv, NEW p \in Procs, Open(p)
  PROVE  SavedInv'
<1>1. Blank \in FileTexts /\ Blank.entries = {}
  BY CleanTypes DEF Blank, Clean
<1>2. FilesTypeOK'
  BY <1>1 DEF Open, SavedInv, FilesTypeOK, marks
<1>3. Forgotten'
  BY DEF Open, SavedInv, FilesTypeOK, Forgotten
<1>4. Saved'
  BY <1>1 DEF Open, SavedInv, FilesTypeOK, Saved, Files, marks
<1> QED
  BY <1>2, <1>3, <1>4 DEF SavedInv

LEMMA WriteSaved ==
  ASSUME SavedInv, NEW p \in Procs, Write(p)
  PROVE  SavedInv'
<1>1. file[p] \in Files /\ mine[p] \in Entries /\ text[p] \in FileTexts
  BY DEF Write, SavedInv, FilesTypeOK
<1>2. PICK c \in Written(file[p], text[p]) : disk' = [disk EXCEPT ![file[p]] = c]
  BY DEF Write
<1>3. c \in FileTexts /\ (file[p] = "feedback.json" => c.entries \subseteq text[p].entries)
  BY <1>1, <1>2, WrittenTypes
<1>4. disk' \in [Files -> FileTexts]
  BY <1>2, <1>3 DEF SavedInv, FilesTypeOK
<1>5. disk'["feedback.json"].entries \subseteq recorded["content"]
  BY <1>1, <1>2, <1>3 DEF SavedInv, FilesTypeOK, Saved, Files
<1> DEFINE r == CASE op[p] = "add"             -> recorded[file[p]] \cup {mine[p]}
                  [] op[p] = "remove"          -> recorded[file[p]] \ {mine[p]}
                  [] op[p] \in {"none", "save"} -> recorded[file[p]]
<1>6. r \subseteq Entries /\ (file[p] = "content" => recorded["content"] \subseteq r)
  BY <1>1 DEF SavedInv, FilesTypeOK, Forgotten
<1>7. recorded' = [recorded EXCEPT ![file[p]] = r]
  BY <1>1 DEF Write, SavedInv, FilesTypeOK
<1>8. r = recorded'[file[p]]
  BY <1>1, <1>7 DEF SavedInv, FilesTypeOK
<1>9. op[p] = "add" => mine[p] \in r
  OBVIOUS
<1> HIDE DEF r
<1>10. recorded' \in [Files -> SUBSET Entries] /\ recorded["content"] \subseteq recorded'["content"]
  BY <1>1, <1>6, <1>7 DEF SavedInv, FilesTypeOK, Files
<1>11. UNCHANGED <<now, count, faults, overlap, torn>>
  BY DEF Write
<1>12. CASE Done(p)
  <2>1. FilesTypeOK'
    BY <1>4, <1>10, <1>11, <1>12, DoneTypes DEF SavedInv, FilesTypeOK
  <2> QED
    BY <1>4, <1>5, <1>10, <1>12, <2>1, DoneSaved DEF SavedInv
<1>13. CASE /\ file[p] = "content" /\ op[p] # "save"
            /\ pc'   = [pc EXCEPT ![p] = "fetched"]
            /\ file' = [file EXCEPT ![p] = "feedback.json"]
            /\ text' = [text EXCEPT ![p] = Blank]
            /\ UNCHANGED <<op, mine>>
  <2>1. Blank \in FileTexts /\ Blank.entries = {}
    BY CleanTypes DEF Blank, Clean
  <2>2. FilesTypeOK'
    BY <1>1, <1>4, <1>10, <1>11, <1>13, <2>1 DEF SavedInv, FilesTypeOK, Files
  <2>3. Forgotten'
    BY <1>13 DEF SavedInv, FilesTypeOK, Forgotten
  <2>4. Saved'
    BY <1>5, <1>8, <1>9, <1>10, <1>13, <2>1 DEF SavedInv, FilesTypeOK, Saved
  <2> QED
    BY <2>2, <2>3, <2>4 DEF SavedInv
<1> QED
  BY <1>12, <1>13 DEF Write

LEMMA KillSaved ==
  ASSUME SavedInv, NEW p \in Procs, Kill(p)
  PROVE  SavedInv'
<1>1. file[p] \in Files /\ text[p] \in FileTexts
  BY DEF Kill, SavedInv, FilesTypeOK
<1>2. disk' \in [Files -> FileTexts] /\ disk'["feedback.json"].entries \subseteq recorded["content"]
  <2>1. CASE UNCHANGED disk
    BY <2>1 DEF SavedInv, FilesTypeOK, Saved
  <2>2. CASE \E c \in Beginnings(file[p], text[p]) : disk' = [disk EXCEPT ![file[p]] = c]
    <3>1. PICK c \in Beginnings(file[p], text[p]) : disk' = [disk EXCEPT ![file[p]] = c]
      BY <2>2
    <3>2. c \in FileTexts /\ (file[p] = "feedback.json" => c.entries = {})
      BY <1>1, <3>1, WrittenTypes
    <3> QED
      BY <1>1, <3>1, <3>2 DEF SavedInv, FilesTypeOK, Saved, Files
  <2> QED
    BY <2>1, <2>2 DEF Kill
<1>3. torn' \in [Files -> {"no", "blank", "half"}] /\ faults' \in 0 .. MaxFaults
  BY FilesAssumption DEF Kill, SavedInv, FilesTypeOK
<1>4. Done(p) /\ UNCHANGED <<now, count, recorded, overlap>>
  BY DEF Kill
<1>5. FilesTypeOK'
  BY <1>2, <1>3, <1>4, DoneTypes DEF SavedInv, FilesTypeOK
<1> QED
  BY <1>2, <1>4, <1>5, DoneSaved DEF SavedInv

LEMMA TickSaved ==
  ASSUME SavedInv, Tick
  PROVE  SavedInv'
<1>1. now' \in 0 .. MaxTime
  BY FilesAssumption DEF Tick, SavedInv, FilesTypeOK
<1> QED
  BY <1>1 DEF Tick, SavedInv, FilesTypeOK, Forgotten, Saved, locals, marks

LEMMA NextSaved == SavedInv /\ [FilesNext]_filesVars => SavedInv'
<1> SUFFICES ASSUME SavedInv, [FilesNext]_filesVars PROVE SavedInv'
  OBVIOUS
<1>1. ASSUME NEW p \in Procs, Command(p) PROVE SavedInv'
  BY <1>1, LoadContentsSaved, FetchSaved, ReadFeedbackSaved, ReadThrowsSaved, ReadSaved,
     ReadContentSaved, OpenSaved, WriteSaved, KillSaved DEF Command
<1>2. CASE UNCHANGED filesVars
  BY <1>2 DEF SavedInv, FilesTypeOK, Forgotten, Saved, filesVars, locals, marks
<1> QED
  BY <1>1, <1>2, TickSaved DEF FilesNext

(* The files are well typed, for any number of processes, commands, faults *)
(* and any window.                                                         *)
THEOREM FilesTypeCorrect == FilesSpec => []FilesTypeOK
<1>1. SavedInv => FilesTypeOK
  BY DEF SavedInv
<1> QED
  BY <1>1, InitSavedInv, NextSaved, PTL DEF FilesSpec

-----------------------------------------------------------------------------
(* What is lost, and why                                                   *)

(* The window only moves on.                                               *)
LEMMA WindowMoves ==
  ASSUME NEW s \in SUBSET Entries, NEW t \in 0 .. MaxTime
  PROVE  filterByWindow(s, t + 1) \subseteq filterByWindow(s, t)
BY FilesAssumption DEF filterByWindow, Entries

(* A file on which a step did nothing: neither its contents nor a process  *)
(* that works on it changed, although some may have left.                  *)
LEMMA Untouched ==
  ASSUME NEW f \in Files, Alone(f), UNCHANGED now,
         disk'[f] = disk[f], recorded'[f] = recorded[f], torn'[f] = torn[f],
         \A q \in Procs : Active(q, f)' =>
           /\ Active(q, f)
           /\ pc'[q] = pc[q] /\ text'[q] = text[q] /\ mine'[q] = mine[q] /\ op'[q] = op[q],
         Settled(f)' => Settled(f)
  PROVE  Alone(f)'
<1>1. OneActive(f)' /\ OpenedBlank(f)'
  BY DEF Alone, OneActive, OpenedBlank, Active
<1>2. ASSUME NEW q \in Procs, Active(q, f)' PROVE Carries(q, f)'
  BY <1>2 DEF Alone, Carries, Holds, After
<1>3. Settled(f)' => Rests(f)'
  BY DEF Alone, Rests, Holds
<1> QED
  BY <1>1, <1>2, <1>3 DEF Alone

(* What a command makes of a clean file, and of one that does not parse.   *)
LEMMA ChangedClean ==
  ASSUME NEW f \in Files \ {"content", "feedback.json"}, NEW s \in SUBSET Entries, NEW e \in Entries,
         NEW o \in {"add", "remove"}, o = "remove" => f = "personas.json"
  PROVE  Changed(f, loaded(f, Clean(s)), o, e)
           = Clean(IF o = "add" THEN s \cup {e} ELSE s \ {e})
<1>1. loaded(f, Clean(s)) = Clean(s)
  BY DEF loaded, loadPersonas, readVault, Clean, Files, Resettable, Lines
<1>2. /\ appendEvent(Clean(s), e) = Clean(s \cup {e})
      /\ appendAuditJsonl(Clean(s), e) = Clean(s \cup {e})
      /\ setSecret(Clean(s), e) = Clean(s \cup {e})
      /\ savePersonas(Clean(s), o, e) = Clean(IF o = "add" THEN s \cup {e} ELSE s \ {e})
  BY DEF appendEvent, appendAuditJsonl, setSecret, savePersonas, Clean
<1> QED
  BY <1>1, <1>2 DEF Changed, Files, Resettable, Lines

LEMMA ChangedBad ==
  ASSUME NEW f \in Lines, NEW c \in FileTexts, c.bad, NEW o, NEW e
  PROVE  Changed(f, loaded(f, c), o, e).bad
<1>1. loaded(f, c) = c
  BY DEF loaded, Resettable, Lines
<1>2. appendEvent(c, e).bad /\ appendAuditJsonl(c, e).bad
  BY DEF appendEvent, appendAuditJsonl
<1> QED
  BY <1>1, <1>2 DEF Changed, Lines

LEMMA CleanEntries ==
  ASSUME NEW s
  PROVE  Clean(s).entries = s /\ ~ Clean(s).bad /\ Clean(s) = Clean(Clean(s).entries)
BY DEF Clean

(* A process that begins to work on a file that nobody else works on.      *)
LEMMA EnterAlone ==
  ASSUME NEW p \in Procs, NEW f \in Files, FilesTypeOK, Alone(f),
         Enter(p, f), ~ overlap'[f], pc[p] \in {"idle", "fetched"},
         NEW w \in {"loaded", "read"}, pc' = [pc EXCEPT ![p] = w], file'[p] = f,
         \A q \in Procs \ {p} : file'[q] = file[q],
         UNCHANGED <<disk, now, recorded, torn>>,
         Rests(f) => Carries(p, f)'
  PROVE  Alone(f)'
<1>1. \A q \in Procs : ~ Active(q, f)
  BY DEF Enter, FilesTypeOK, Active
<1>2. Settled(f)
  BY <1>1 DEF Settled, Active
<1>3. \A q \in Procs : Active(q, f)' => q = p
  BY <1>1 DEF Active, FilesTypeOK
<1>4. OneActive(f)' /\ OpenedBlank(f)'
  BY <1>3 DEF OneActive, OpenedBlank, Active, FilesTypeOK
<1>5. Rests(f) /\ Rests(f)'
  BY <1>2 DEF Alone, Rests, Holds
<1> QED
  BY <1>3, <1>4, <1>5 DEF Alone

LEMMA InitLossInv == FilesInit => LossInv
<1> SUFFICES ASSUME FilesInit PROVE LossInv
  OBVIOUS
<1>1. ASSUME NEW f \in Files PROVE Alone(f)
  <2>1. OneActive(f) /\ OpenedBlank(f) /\ \A p \in Procs : ~ Active(p, f)
    BY DEF FilesInit, OneActive, OpenedBlank, Active
  <2>2. Rests(f)
    BY DEF FilesInit, Rests, Holds, Blank, Clean, filterByWindow
  <2> QED
    BY <2>1, <2>2 DEF Alone
<1> QED
  BY <1>1, InitSavedInv DEF LossInv, SavedInv

(* Steps that leave every file alone but for a process that comes or goes. *)
LEMMA DoneLeaves ==
  ASSUME FilesTypeOK, NEW p \in Procs, Done(p)
  PROVE  Leaves(p)
BY DEF FilesTypeOK, Done, Leaves

LEMMA WriteLeaves ==
  ASSUME FilesTypeOK, NEW p \in Procs, Write(p)
  PROVE  Leaves(p)
BY DoneLeaves DEF FilesTypeOK, Write, Leaves

(* A process that leaves a file it did not have open.                      *)
LEMMA LeftAlone ==
  ASSUME FilesTypeOK, NEW p \in Procs, NEW f \in Files, Alone(f), Leaves(p),
         pc[p] # "open" \/ file[p] # f, disk'[f] = disk[f], torn'[f] = torn[f],
         recorded'[f] = recorded[f], UNCHANGED now
  PROVE  Alone(f)'
<1>1. \A q \in Procs : Active(q, f)' =>
        /\ q # p /\ Active(q, f)
        /\ pc'[q] = pc[q] /\ text'[q] = text[q] /\ mine'[q] = mine[q] /\ op'[q] = op[q]
  BY DEF Leaves, FilesTypeOK, Active
<1>2. Settled(f)' => Settled(f)
  BY DEF Settled, Leaves, FilesTypeOK
<1> QED
  BY <1>1, <1>2, Untouched

(* A command that saves the whole content begins to work on what it reads. *)
LEMMA ContentRead ==
  ASSUME LossInv, NEW p \in Procs, NEW w \in {"loaded", "read"}, pc[p] = "idle",
         ~ throws("content", disk["content"]),
         Enter(p, "content"), ~ overlap'["content"],
         pc' = [pc EXCEPT ![p] = w], file'[p] = "content",
         (w = "loaded" /\ op'[p] = "add") \/ op'[p] = "save",
         text' = [text EXCEPT ![p] = disk["content"]],
         \A q \in Procs \ {p} : file'[q] = file[q],
         UNCHANGED <<disk, now, recorded, torn>>, Alone("content")
  PROVE  Alone("content")'
<1>1. text'[p] = disk["content"] /\ ~ disk["content"].bad /\ "content" \in Files
  BY DEF LossInv, SavedInv, FilesTypeOK, throws, Files
<1>2. After(p, "content")' = recorded["content"]
  BY DEF After, LossInv, SavedInv, FilesTypeOK
<1>3. Rests("content") => Carries(p, "content")'
  BY <1>1, <1>2 DEF Rests, Carries, Holds, Resettable
<1> QED
  BY <1>1, <1>3, EnterAlone DEF LossInv, SavedInv

LEMMA LoadContentsAlone ==
  ASSUME LossInv, NEW p \in Procs, LoadContents(p), NEW f \in Files, Alone(f), ~ overlap'[f]
  PROVE  Alone(f)'
<1>1. CASE disk["content"] # Blank /\ f = "content"
  <2>1. /\ pc' = [pc EXCEPT ![p] = "loaded"] /\ file'[p] = "content" /\ op'[p] = "add"
        /\ text' = [text EXCEPT ![p] = disk["content"]] /\ Enter(p, "content")
        /\ \A q \in Procs \ {p} : file'[q] = file[q]
        /\ UNCHANGED <<disk, now, recorded, torn>>
        /\ pc[p] = "idle" /\ ~ throws("content", disk["content"])
    BY <1>1 DEF LoadContents, LossInv, SavedInv, FilesTypeOK, Forgotten
  <2> QED
    BY <1>1, <2>1, ContentRead
<1>2. CASE disk["content"] = Blank \/ f # "content"
  <2>1. \A q \in Procs : Active(q, f)' =>
          /\ q # p /\ Active(q, f)
          /\ pc'[q] = pc[q] /\ text'[q] = text[q] /\ mine'[q] = mine[q] /\ op'[q] = op[q]
    BY <1>2 DEF LoadContents, LossInv, SavedInv, FilesTypeOK, Active
  <2>2. Settled(f)' => Settled(f)
    BY DEF Settled, LoadContents, LossInv, SavedInv, FilesTypeOK
  <2> QED
    BY <2>1, <2>2, Untouched DEF LoadContents
<1> QED
  BY <1>1, <1>2

LEMMA FetchAlone ==
  ASSUME LossInv, NEW p \in Procs, Fetch(p), NEW f \in Files, Alone(f)
  PROVE  Alone(f)'
<1>1. /\ file[p] = "content" /\ file' = file /\ op[p] = "add" /\ pc[p] = "loaded"
      /\ pc' = [pc EXCEPT ![p] = "read"]
      /\ \A q \in Procs \ {p} : text'[q] = text[q] /\ mine'[q] = mine[q] /\ op'[q] = op[q]
      /\ UNCHANGED <<disk, now, recorded, torn>>
  BY DEF Fetch, LossInv, SavedInv, FilesTypeOK, Forgotten, marks
<1>2. \A q \in Procs : Active(q, f)' => Active(q, f) /\ (q # p => pc'[q] = pc[q])
  BY <1>1 DEF LossInv, SavedInv, FilesTypeOK, Active
<1>3. Settled(f)' => Settled(f)
  BY <1>1 DEF Settled, LossInv, SavedInv, FilesTypeOK
<1>4. CASE f # "content"
  <2>1. \A q \in Procs : Active(q, f)' => q # p
    BY <1>1, <1>4 DEF Active
  <2> QED
    BY <1>1, <1>2, <1>3, <2>1, Untouched
<1>5. CASE f = "content"
  <2>1. OneActive(f)' /\ OpenedBlank(f)'
    BY <1>1, <1>2 DEF Alone, OneActive, OpenedBlank, LossInv, SavedInv, FilesTypeOK
  <2>2. Settled(f)' => Rests(f)'
    BY <1>1, <1>3 DEF Alone, Rests, Holds
  <2>3. Active(p, f)
    BY <1>1, <1>5 DEF Active
  <2>4. \A q \in Procs : Active(q, f)' => q = p
    BY <1>2, <2>3 DEF Alone, OneActive
  <2>5. Carries(p, f) /\ After(p, f) = recorded[f]
    BY <1>1, <2>3 DEF Alone, After
  <2>6. text[p] \in FileTexts
    BY DEF LossInv, SavedInv, FilesTypeOK
  <2>7. Carries(p, f)'
    <3>1. CASE /\ mine'[p] \in Entries /\ op'[p] = "add"
               /\ text'[p] = [entries |-> text[p].entries \cup {mine'[p]},
                              bad |-> text[p].bad, tail |-> text[p].tail]
      <4>1. After(p, f)' = recorded[f] \cup {mine'[p]}
        BY <1>1, <3>1 DEF After, LossInv, SavedInv, FilesTypeOK
      <4>2. /\ text'[p].entries = text[p].entries \cup {mine'[p]}
            /\ text'[p].bad = text[p].bad
        BY <3>1
      <4>3. text[p] = Clean(text[p].entries) => text'[p] = Clean(text'[p].entries)
        <5>1. text[p] = Clean(text[p].entries) => text[p].bad = FALSE /\ text[p].tail = FALSE
          BY <2>6 DEF Clean, FileTexts
        <5> QED
          BY <3>1, <4>2, <5>1 DEF Clean
      <4> QED
        BY <1>1, <1>5, <2>5, <4>1, <4>2, <4>3 DEF Carries, Holds
    <3>2. CASE op'[p] = "none" /\ text'[p] = text[p]
      <4>1. After(p, f)' = recorded[f]
        BY <1>1, <3>2 DEF After
      <4> QED
        BY <1>1, <1>5, <2>5, <3>2, <4>1 DEF Carries, Holds
    <3> QED
      BY <3>1, <3>2, FetchSaved DEF LossInv
  <2> QED
    BY <2>1, <2>2, <2>4, <2>7 DEF Alone
<1> QED
  BY <1>4, <1>5

LEMMA ReadContentAlone ==
  ASSUME LossInv, NEW p \in Procs, ReadContent(p), NEW f \in Files, Alone(f), ~ overlap'[f]
  PROVE  Alone(f)'
<1>1. /\ pc' = [pc EXCEPT ![p] = "read"] /\ file'[p] = "content" /\ op'[p] = "save"
      /\ text' = [text EXCEPT ![p] = disk["content"]] /\ Enter(p, "content")
      /\ \A q \in Procs \ {p} :
           file'[q] = file[q] /\ text'[q] = text[q] /\ mine'[q] = mine[q] /\ op'[q] = op[q]
      /\ UNCHANGED <<disk, now, recorded, torn>>
      /\ pc[p] = "idle" /\ ~ throws("content", disk["content"])
  BY DEF ReadContent, LossInv, SavedInv, FilesTypeOK
<1>2. CASE f = "content"
  BY <1>1, <1>2, ContentRead
<1>3. CASE f # "content"
  <2>1. \A q \in Procs : Active(q, f)' => q # p /\ Active(q, f) /\ pc'[q] = pc[q]
    BY <1>1, <1>3 DEF LossInv, SavedInv, FilesTypeOK, Active
  <2>2. Settled(f)' => Settled(f)
    BY <1>1, <1>3 DEF Settled, LossInv, SavedInv, FilesTypeOK
  <2> QED
    BY <1>1, <2>1, <2>2, Untouched
<1> QED
  BY <1>2, <1>3

LEMMA ReadFeedbackAlone ==
  ASSUME LossInv, NEW p \in Procs, ReadFeedback(p), NEW f \in Files, Alone(f), ~ overlap'[f]
  PROVE  Alone(f)'
<1> DEFINE d == disk["feedback.json"].entries
           m == {e \in {mine[p]} : op[p] = "add"}
           t == filterByWindow(d \cup m, now)
<1>1. /\ file[p] = "feedback.json" /\ op[p] \in {"add", "none"}
      /\ mine[p] \in Entries /\ d \in SUBSET Entries /\ m \in SUBSET Entries
  BY DEF ReadFeedback, LossInv, SavedInv, Forgotten, FilesTypeOK, Files, FileTexts
<1>2. CASE f # "feedback.json"
  <2>1. \A q \in Procs : Active(q, f)' =>
          q # p /\ Active(q, f) /\ pc'[q] = pc[q] /\ text'[q] = text[q]
    BY <1>1, <1>2 DEF ReadFeedback, LossInv, SavedInv, FilesTypeOK, Active
  <2>2. Settled(f)' => Settled(f)
    BY <1>1, <1>2 DEF Settled, ReadFeedback, LossInv, SavedInv, FilesTypeOK
  <2> QED
    BY <2>1, <2>2, Untouched DEF ReadFeedback
<1>3. CASE f = "feedback.json"
  <2>1. text'[p] = Clean(t) /\ text'[p].entries = t
    BY CleanEntries DEF ReadFeedback, appendFeedback, LossInv, SavedInv, FilesTypeOK
  <2>2. ~ disk[f].bad
    BY <1>3 DEF ReadFeedback, throws
  <2>3. ASSUME Rests(f), torn[f] = "no"
        PROVE  Holds(f, t, recorded[f] \cup m)
    <3>1. d \subseteq recorded[f] /\ filterByWindow(recorded[f], now) \subseteq d
      BY <1>3, <2>3 DEF Rests, Holds
    <3>2. t \subseteq recorded[f] \cup m
      BY <3>1, FilterTypes
    <3>3. filterByWindow(recorded[f] \cup m, now) \subseteq t
      BY <3>1 DEF filterByWindow
    <3> QED
      BY <1>3, <3>2, <3>3 DEF Holds
  <2>4. After(p, f)' = recorded[f] \cup m
    <3>1. pc'[p] = "read" /\ op'[p] = op[p] /\ mine'[p] = mine[p] /\ recorded'[f] = recorded[f]
      BY DEF ReadFeedback, LossInv, SavedInv, FilesTypeOK
    <3> QED
      BY <1>1, <3>1 DEF After
  <2>5. Rests(f) => Carries(p, f)'
    <3>1. Rests(f) /\ torn[f] = "no" => Holds(f, text[p].entries, After(p, f))'
      BY <2>1, <2>3, <2>4 DEF Holds, ReadFeedback
    <3>2. Rests(f) /\ torn[f] = "half" => f \in Resettable
      BY <2>2 DEF Rests
    <3> QED
      BY <2>1, <3>1, <3>2, CleanEntries DEF Carries, ReadFeedback
  <2> QED
    BY <1>1, <1>3, <2>5, EnterAlone DEF ReadFeedback, LossInv, SavedInv
<1> QED
  BY <1>2, <1>3

LEMMA ReadAlone ==
  ASSUME LossInv, NEW p \in Procs, NEW g \in Files, Read(p, g),
         NEW f \in Files, Alone(f), ~ overlap'[f]
  PROVE  Alone(f)'
<1>1. /\ op'[p] \in {"add", "remove"} /\ mine'[p] \in Entries
      /\ op'[p] = "remove" => g = "personas.json"
      /\ text'[p] = Changed(g, loaded(g, disk[g]), op'[p], mine'[p])
  BY ReadSaved DEF LossInv
<1>2. /\ g \notin {"content", "feedback.json"} /\ file'[p] = g /\ pc[p] = "idle" /\ Enter(p, g)
      /\ pc' = [pc EXCEPT ![p] = "read"]
      /\ \A q \in Procs \ {p} :
           file'[q] = file[q] /\ text'[q] = text[q] /\ mine'[q] = mine[q] /\ op'[q] = op[q]
      /\ UNCHANGED <<disk, now, recorded, torn>>
  BY DEF Read, LossInv, SavedInv, FilesTypeOK
<1>3. CASE f # g
  <2>1. \A q \in Procs : Active(q, f)' =>
          q # p /\ Active(q, f) /\ pc'[q] = pc[q] /\ text'[q] = text[q]
    BY <1>2, <1>3 DEF LossInv, SavedInv, FilesTypeOK, Active
  <2>2. Settled(f)' => Settled(f)
    BY <1>2, <1>3 DEF Settled, LossInv, SavedInv, FilesTypeOK
  <2> QED
    BY <1>2, <2>1, <2>2, Untouched
<1>4. CASE f = g
  <2> DEFINE d == disk[f].entries
  <2>1. disk[f] \in FileTexts /\ d \in SUBSET Entries
    BY DEF LossInv, SavedInv, FilesTypeOK, FileTexts
  <2>2. ASSUME Rests(f), torn[f] = "no"
        PROVE  text'[p] = Clean(text'[p].entries) /\ Holds(f, text[p].entries, After(p, f))'
    <3>1. disk[f] = Clean(d) /\ d = recorded[f]
      BY <1>2, <1>4, <2>2 DEF Rests, Holds
    <3>2. Changed(f, loaded(f, Clean(d)), op'[p], mine'[p])
            = Clean(IF op'[p] = "add" THEN d \cup {mine'[p]} ELSE d \ {mine'[p]})
      <4>1. PICK e \in Entries, o \in {"add", "remove"} : e = mine'[p] /\ o = op'[p]
        BY <1>1
      <4>2. o = "remove" => f = "personas.json"
        BY <1>1, <1>4, <4>1
      <4>3. f \in Files \ {"content", "feedback.json"}
        BY <1>2, <1>4
      <4>4. Changed(f, loaded(f, Clean(d)), o, e)
              = Clean(IF o = "add" THEN d \cup {e} ELSE d \ {e})
        BY <2>1, <4>2, <4>3, ChangedClean
      <4> QED
        BY <4>1, <4>4
    <3>3. text'[p] = Clean(After(p, f)')
      BY <1>1, <1>2, <1>4, <3>1, <3>2 DEF After
    <3>4. text'[p].entries = After(p, f)' /\ text'[p] = Clean(text'[p].entries)
      BY <3>3, CleanEntries
    <3> QED
      BY <1>2, <1>4, <3>4 DEF Holds
  <2>3. ASSUME Rests(f), torn[f] = "half", f \notin Resettable
        PROVE  f \in Lines /\ text'[p].bad
    <3>1. f \in Lines /\ disk[f].bad
      BY <1>2, <1>4, <2>3 DEF Rests, Files
    <3> QED
      BY <1>1, <1>4, <2>1, <3>1, ChangedBad
  <2>4. Rests(f) => Carries(p, f)'
    BY <1>2, <2>2, <2>3 DEF Carries
  <2> QED
    BY <1>2, <1>4, <2>4, EnterAlone DEF LossInv, SavedInv
<1> QED
  BY <1>3, <1>4

LEMMA OpenAlone ==
  ASSUME LossInv, NEW p \in Procs, Open(p), NEW f \in Files, Alone(f)
  PROVE  Alone(f)'
<1>1. file[p] \in Files
  BY DEF Open, LossInv, SavedInv, FilesTypeOK
<1>2. CASE f # file[p]
  <2>1. \A q \in Procs : Active(q, f)' => q # p /\ Active(q, f) /\ pc'[q] = pc[q]
    BY <1>2 DEF Open, LossInv, SavedInv, FilesTypeOK, Active
  <2>2. Settled(f)' => Settled(f)
    BY <1>2 DEF Settled, Open, LossInv, SavedInv, FilesTypeOK
  <2>3. disk'[f] = disk[f]
    BY <1>1, <1>2 DEF Open, LossInv, SavedInv, FilesTypeOK
  <2> QED
    BY <2>1, <2>2, <2>3, Untouched DEF Open, marks
<1>3. CASE f = file[p]
  <2>1. \A q \in Procs : Active(q, f)' => Active(q, f)
    BY DEF Open, LossInv, SavedInv, FilesTypeOK, Active
  <2>2. disk'[f] = Blank
    BY <1>3 DEF Open, LossInv, SavedInv, FilesTypeOK
  <2>3. OneActive(f)' /\ OpenedBlank(f)'
    BY <2>1, <2>2 DEF Alone, OneActive, OpenedBlank
  <2>4. ASSUME NEW q \in Procs, Active(q, f)' PROVE Carries(q, f)'
    BY <2>1, <2>4 DEF Open, marks, Alone, Carries, Holds, After, LossInv, SavedInv, FilesTypeOK
  <2>5. ~ Settled(f)'
    BY <1>3 DEF Open, Settled, LossInv, SavedInv, FilesTypeOK
  <2> QED
    BY <2>3, <2>4, <2>5 DEF Alone
<1> QED
  BY <1>2, <1>3

(* The last process to work on a file has left it.                         *)
LEMMA LeaveAlone ==
  ASSUME LossInv, NEW p \in Procs, NEW f \in Files, Alone(f), Leaves(p),
         pc[p] = "open", file[p] = f, Rests(f)'
  PROVE  Alone(f)'
<1>1. \A q \in Procs : ~ Active(q, f)'
  <2>1. \A q \in Procs : Active(q, f) => q = p
    BY DEF Alone, OneActive, Active
  <2> QED
    BY <2>1 DEF Leaves, LossInv, SavedInv, FilesTypeOK, Active
<1>2. OneActive(f)' /\ OpenedBlank(f)'
  BY <1>1 DEF OneActive, OpenedBlank, Active
<1> QED
  BY <1>1, <1>2 DEF Alone

LEMMA WriteAlone ==
  ASSUME LossInv, NEW p \in Procs, Write(p), NEW f \in Files, Alone(f)
  PROVE  Alone(f)'
<1>1. file[p] \in Files /\ mine[p] \in Entries
  BY DEF Write, LossInv, SavedInv, FilesTypeOK
<1>2. PICK c \in Written(file[p], text[p]) : disk' = [disk EXCEPT ![file[p]] = c]
  BY DEF Write
<1>3. Leaves(p) /\ UNCHANGED <<now, torn>>
  BY WriteLeaves DEF Write, LossInv, SavedInv
<1>4. CASE f # file[p]
  <2>1. disk'[f] = disk[f] /\ recorded'[f] = recorded[f]
    BY <1>1, <1>2, <1>4 DEF Write, LossInv, SavedInv, FilesTypeOK
  <2> QED
    BY <1>3, <1>4, <2>1, LeftAlone DEF LossInv, SavedInv
<1>5. CASE f = file[p]
  <2>1. Active(p, f) /\ pc[p] = "open"
    BY <1>5 DEF Write, Active
  <2>2. disk[f] = Blank /\ Carries(p, f)
    BY <1>5, <2>1 DEF Alone, OpenedBlank
  <2>3. disk'[f] = text[p]
    BY <1>2, <1>5, <2>2 DEF Written, LossInv, SavedInv, FilesTypeOK
  <2>4. recorded'[f] = After(p, f)
    <3>1. op[p] \in {"add", "remove", "none", "save"}
      BY DEF LossInv, SavedInv, FilesTypeOK
    <3>2. recorded'[f] = CASE op[p] = "add"             -> recorded[f] \cup {mine[p]}
                           [] op[p] = "remove"          -> recorded[f] \ {mine[p]}
                           [] op[p] \in {"none", "save"} -> recorded[f]
      BY <1>1, <1>5 DEF Write, LossInv, SavedInv, FilesTypeOK
    <3> QED
      BY <2>1, <3>1, <3>2 DEF After
  <2>5. Rests(f)'
    BY <1>3, <2>2, <2>3, <2>4 DEF Rests, Carries, Holds
  <2> QED
    BY <1>3, <1>5, <2>1, <2>5, LeaveAlone
<1> QED
  BY <1>4, <1>5

LEMMA KillAlone ==
  ASSUME LossInv, NEW p \in Procs, Kill(p), NEW f \in Files, Alone(f)
  PROVE  Alone(f)'
<1>1. file[p] \in Files /\ text[p] \in FileTexts
  BY DEF Kill, LossInv, SavedInv, FilesTypeOK
<1>2. Leaves(p) /\ UNCHANGED <<now, recorded>>
  BY DoneLeaves DEF Kill, LossInv, SavedInv
<1>3. CASE pc[p] # "open" \/ f # file[p]
  <2>1. disk'[f] = disk[f] /\ torn'[f] = torn[f]
    BY <1>1, <1>3 DEF Kill, LossInv, SavedInv, FilesTypeOK
  <2> QED
    BY <1>2, <1>3, <2>1, LeftAlone DEF LossInv, SavedInv
<1>4. CASE pc[p] = "open" /\ f = file[p]
  <2>1. disk[f] = Blank
    BY <1>4 DEF Alone, OpenedBlank
  <2>2. torn'[f] = IF disk'[f] = Blank THEN "blank" ELSE "half"
    BY <1>4 DEF Kill, LossInv, SavedInv, FilesTypeOK
  <2>3. disk'[f] = Blank \/ disk'[f].bad
    <3>1. CASE UNCHANGED disk
      BY <2>1, <3>1
    <3>2. CASE \E c \in Beginnings(file[p], text[p]) : disk' = [disk EXCEPT ![file[p]] = c]
      <4>1. PICK c \in Beginnings(file[p], text[p]) : disk' = [disk EXCEPT ![file[p]] = c]
        BY <3>2
      <4>2. c.bad
        BY <1>1, <4>1, WrittenTypes
      <4> QED
        BY <1>4, <4>1, <4>2 DEF LossInv, SavedInv, FilesTypeOK
    <3> QED
      BY <3>1, <3>2 DEF Kill
  <2>4. Rests(f)'
    BY <2>2, <2>3 DEF Rests
  <2> QED
    BY <1>2, <1>4, <2>4, LeaveAlone
<1> QED
  BY <1>3, <1>4

LEMMA TickAlone ==
  ASSUME LossInv, Tick, NEW f \in Files, Alone(f)
  PROVE  Alone(f)'
<1>1. ASSUME NEW s, NEW r \in SUBSET Entries, Holds(f, s, r)
      PROVE  Holds(f, s, r)'
  <2>1. filterByWindow(r, now') \subseteq filterByWindow(r, now)
    BY WindowMoves DEF Tick, LossInv, SavedInv, FilesTypeOK
  <2> QED
    BY <1>1, <2>1 DEF Holds
<1>2. recorded[f] \in SUBSET Entries
  BY DEF LossInv, SavedInv, FilesTypeOK
<1>3. ASSUME NEW p \in Procs, Active(p, f)' PROVE Carries(p, f)'
  <2>1. Active(p, f) /\ Carries(p, f)
    BY <1>3 DEF Alone, Tick, locals, Active
  <2>2. After(p, f) \in SUBSET Entries
    BY <1>2, <2>1 DEF After, Active, LossInv, SavedInv, FilesTypeOK
  <2>3. After(p, f)' = After(p, f)
    BY DEF After, Tick, locals, marks
  <2>4. ASSUME torn[f] = "no"
        PROVE  /\ text[p].entries \subseteq After(p, f)
               /\ IF f = "feedback.json"
                  THEN filterByWindow(After(p, f), now') \subseteq text[p].entries
                  ELSE After(p, f) \subseteq text[p].entries
    BY <1>1, <2>1, <2>2, <2>4 DEF Carries, Holds
  <2> QED
    BY <2>1, <2>3, <2>4 DEF Carries, Tick, locals, marks, Holds
<1>4. Rests(f) => Rests(f)'
  BY <1>1, <1>2 DEF Rests, Tick, locals, marks, Holds
<1>5. OneActive(f)' /\ OpenedBlank(f)' /\ (Settled(f)' => Settled(f))
  BY DEF Alone, OneActive, OpenedBlank, Settled, Active, Tick, locals
<1> QED
  BY <1>3, <1>4, <1>5 DEF Alone

LEMMA NextLossInv == LossInv /\ [FilesNext]_filesVars => LossInv'
<1> SUFFICES ASSUME LossInv, [FilesNext]_filesVars PROVE LossInv'
  OBVIOUS
<1>1. SavedInv'
  BY NextSaved DEF LossInv
<1>2. ASSUME NEW f \in Files, ~ overlap'[f] PROVE Alone(f)'
  <2>1. ASSUME NEW p \in Procs, NEW g \in Files, Enter(p, g)
        PROVE  ~ overlap[f]
    BY <1>2, <2>1 DEF Enter, LossInv, SavedInv, FilesTypeOK
  <2>2. ASSUME NEW p \in Procs, Command(p) PROVE ~ overlap[f]
    <3>1. overlap' = overlap \/ \E g \in Files : Enter(p, g)
      BY <2>2 DEF Command, LoadContents, Fetch, ReadFeedback, ReadThrows, Read, ReadContent, Open,
                  Write, Kill, marks, Files
    <3> QED
      BY <1>2, <2>1, <3>1
  <2>3. ASSUME NEW p \in Procs, Command(p) PROVE Alone(f)'
    <3>1. Alone(f)
      BY <2>2, <2>3 DEF LossInv
    <3>2. CASE ReadThrows(p)
      <4>1. Done(p) /\ pc[p] # "open" /\ UNCHANGED <<disk, torn, recorded, now>>
        BY <3>2 DEF ReadThrows, marks
      <4> QED
        BY <3>1, <4>1, DoneLeaves, LeftAlone DEF LossInv, SavedInv
    <3> QED
      BY <1>2, <2>3, <3>1, <3>2, LoadContentsAlone, FetchAlone, ReadFeedbackAlone, ReadAlone,
         ReadContentAlone, OpenAlone, WriteAlone, KillAlone DEF Command
  <2>4. CASE Tick
    <3>1. Alone(f)
      BY <1>2, <2>4 DEF Tick, marks, LossInv
    <3> QED
      BY <2>4, <3>1, TickAlone
  <2>5. CASE UNCHANGED filesVars
    <3>1. Alone(f)
      BY <1>2, <2>5 DEF filesVars, marks, LossInv
    <3>2. Alone(f)' <=> Alone(f)
      BY <2>5 DEF filesVars, locals, marks, Alone, OneActive, OpenedBlank, Carries, Rests, Holds,
                  After, Active, Settled
    <3> QED
      BY <3>1, <3>2
  <2> QED
    BY <2>3, <2>4, <2>5 DEF FilesNext
<1> QED
  BY <1>1, <1>2 DEF LossInv

LEMMA LossInvExplains == LossInv => LossesHaveACause
<1> SUFFICES ASSUME LossInv, NEW f \in Files, Settled(f), ~ overlap[f], torn[f] # "blank"
             PROVE  \/ HoldsAll(f) /\ (f \in Lines => readLines(disk[f]) \in {Nothing, recorded[f]})
                    \/ /\ torn[f] = "half"
                       /\ \/ f \in Resettable
                          \/ f \in Lines /\ readLines(disk[f]) = Nothing
                          \/ throws(f, disk[f])
  BY DEF LossesHaveACause
<1>1. Rests(f)
  BY DEF LossInv, Alone
<1>2. CASE torn[f] = "no"
  <2>1. Holds(f, disk[f].entries, recorded[f]) /\ disk[f] = Clean(disk[f].entries)
    BY <1>1, <1>2 DEF Rests
  <2>2. HoldsAll(f)
    BY <2>1 DEF HoldsAll, Holds
  <2>3. f \in Lines => readLines(disk[f]) = recorded[f]
    <3>1. ~ disk[f].bad
      BY <2>1, CleanEntries
    <3> QED
      BY <2>1, <3>1 DEF readLines, Holds, Lines
  <2> QED
    BY <2>2, <2>3
<1>3. CASE torn[f] = "half"
  BY <1>1, <1>3 DEF Rests, readLines, throws, Files
<1> QED
  BY <1>2, <1>3 DEF LossInv, SavedInv, FilesTypeOK

(* However many commands run, on whatever files, and wherever they are     *)
(* killed: an entry that was recorded is missing only where two commands   *)
(* overlapped or one was killed with the file open, and a report of a      *)
(* ledger is whole or there is none.                                       *)
THEOREM LossesExplained == FilesSpec => []LossesHaveACause
  BY InitLossInv, NextLossInv, LossInvExplains, PTL DEF FilesSpec

LEMMA LossInvBacks == LossInv => FeedbackBackedByContent
<1> SUFFICES ASSUME LossInv, Settled("content"), ~ overlap["content"], torn["content"] = "no"
             PROVE  recorded["content"] \subseteq disk["content"].entries
  BY DEF FeedbackBackedByContent, LossInv, SavedInv, Saved
<1>1. Rests("content")
  BY DEF LossInv, Alone, Files
<1> QED
  BY <1>1 DEF Rests, Holds

(* Whatever commands overlap, are killed or fail, every record of          *)
(* feedback.json was saved with its content first, and is there still but  *)
(* for commands that overlapped on the content or one that was killed with *)
(* the content open.                                                       *)
THEOREM FeedbackAlwaysBacked == FilesSpec => []FeedbackBackedByContent
  BY InitLossInv, NextLossInv, LossInvBacks, PTL DEF FilesSpec

-----------------------------------------------------------------------------
-----------------------------------------------------------------------------
(* What has failed.                                                        *)

(* The gates of one kind, one for each member of S.                        *)
AreGates(gs, kind, S, passed) == gs = {[name |-> <<kind, x>>, ok |-> passed[x]] : x \in S}

(* Those that failed are those that did not pass.                          *)
LEMMA FailedAre ==
  ASSUME NEW kind, NEW S, NEW passed, NEW n, NEW gs, AreGates(gs, kind, S, passed)
  PROVE  n \in failedGates(gs) <=> \E x \in S : ~ passed[x] /\ n = <<kind, x>>
<1>1. ASSUME NEW x \in S, ~ passed[x], n = <<kind, x>>
      PROVE  n \in failedGates(gs)
  <2>1. [name |-> <<kind, x>>, ok |-> passed[x]] \in {h \in gs : ~ h.ok}
    BY <1>1 DEF AreGates
  <2> QED BY <1>1, <2>1 DEF failedGates
<1>2. ASSUME n \in failedGates(gs)
      PROVE  \E x \in S : ~ passed[x] /\ n = <<kind, x>>
  <2>1. PICK h \in gs : ~ h.ok /\ n = h.name
    BY <1>2 DEF failedGates
  <2> QED BY <2>1 DEF AreGates
<1> QED BY <1>1, <1>2

(* The same of the two kinds of gates, and of both together.               *)
LEMMA FailedGatesAre ==
  ASSUME NEW n
  PROVE  /\ n \in evidence.failed <=>
              \/ \E g \in LocalGates : ~ gates[g] /\ n = <<"local", g>>
              \/ \E j \in DOMAIN ciRun :
                   ciRun[j] \notin {"success", "skipped"} /\ n = <<"github-actions", j>>
         /\ n \in failedGates(localEvidence.gates) <=>
              \E g \in LocalGates : ~ gates[g] /\ n = <<"local", g>>
         /\ n \in failedGates(parseCiRunSummary(ciRun)) <=>
              \E j \in DOMAIN ciRun :
                ciRun[j] \notin {"success", "skipped"} /\ n = <<"github-actions", j>>
<1>1. AreGates(localEvidence.gates, "local", LocalGates, gates)
  BY DEF localEvidence, buildAcceptanceEvidence, AreGates
<1>2. n \in failedGates(localEvidence.gates) <=>
        \E g \in LocalGates : ~ gates[g] /\ n = <<"local", g>>
  BY <1>1, FailedAre
<1>3. n \in failedGates(parseCiRunSummary(ciRun)) <=>
        \E j \in DOMAIN ciRun :
          ciRun[j] \notin {"success", "skipped"} /\ n = <<"github-actions", j>>
  <2> DEFINE passed == [j \in DOMAIN ciRun |-> ciRun[j] \in {"success", "skipped"}]
  <2>1. AreGates(parseCiRunSummary(ciRun), "github-actions", DOMAIN ciRun, passed)
    BY DEF parseCiRunSummary, AreGates
  <2>2. \A j \in DOMAIN ciRun : passed[j] <=> ciRun[j] \in {"success", "skipped"}
    OBVIOUS
  <2> HIDE DEF passed
  <2> QED BY <2>1, <2>2, FailedAre
<1>4. n \in evidence.failed <=> \/ n \in failedGates(localEvidence.gates)
                                \/ n \in failedGates(parseCiRunSummary(ciRun))
  BY DEF evidence, ingestCiEvidence, buildAcceptanceEvidence, failedGates
<1> QED BY <1>2, <1>3, <1>4

(* The evidence as a whole.                                                *)
LEMMA EvidenceIs ==
  /\ evidence.commit = Len(history)
  /\ evidence.failed = failedGates(evidence.gates)
  /\ evidence.web = web
  /\ evidence.ok <=> evidence.failed = {} /\ web \in {"absent", "verified"}
BY DEF evidence, ingestCiEvidence, localEvidence, buildAcceptanceEvidence, verified

(* The variables have their types.                                         *)
LEMMA DeliveryTypesInit == ReleaseInit => DeliveryTypeOK
<1> SUFFICES ASSUME ReleaseInit PROVE DeliveryTypeOK
  OBVIOUS
<1>1. gates \in [LocalGates -> BOOLEAN] /\ web \in WebChecks
  BY DEF ReleaseInit, WebChecks
<1>2. ciRun \in {<<>>} \cup [Jobs -> Conclusions]
  BY DEF ReleaseInit
<1>3. history \in Seq(Rows) /\ Len(history) <= MaxHistory
  BY DeliveryAssumption DEF ReleaseInit
<1> QED BY <1>1, <1>2, <1>3 DEF DeliveryTypeOK

(* A row that is entered is of the length the history had, and names gates.*)
LEMMA DeliveryTypesNext == DeliveryTypeOK /\ [ReleaseNext]_release => DeliveryTypeOK'
<1> SUFFICES ASSUME DeliveryTypeOK, [ReleaseNext]_release PROVE DeliveryTypeOK'
  OBVIOUS
<1> USE DeliveryAssumption
<1>1. ASSUME NEW g \in LocalGates, RunGate(g) PROVE DeliveryTypeOK'
  <2>1. gates' \in [LocalGates -> BOOLEAN]
    BY <1>1 DEF DeliveryTypeOK, RunGate
  <2> QED BY <1>1, <2>1 DEF DeliveryTypeOK, RunGate
<1>2. CASE LookAtWeb
  BY <1>2 DEF DeliveryTypeOK, LookAtWeb
<1>3. CASE CiRunEnds
  BY <1>3 DEF DeliveryTypeOK, CiRunEnds
<1>4. CASE EnterHistory
  <2> DEFINE row == [commit |-> evidence.commit, failed |-> evidence.failed, ok |-> evidence.ok]
  <2>1. history \in Seq(Rows) /\ Len(history) \in Nat /\ Len(history) < MaxHistory
    BY <1>4 DEF DeliveryTypeOK, EnterHistory
  <2>2. evidence.commit \in 0 .. MaxHistory
    BY <2>1, EvidenceIs
  <2>3. evidence.failed \in SUBSET GateNames
    <3>1. DOMAIN ciRun \subseteq Jobs
      BY DEF DeliveryTypeOK
    <3> QED BY <3>1, FailedGatesAre DEF GateNames
  <2>4. evidence.ok \in BOOLEAN
    BY DEF evidence, ingestCiEvidence, buildAcceptanceEvidence, verified
  <2>5. row \in Rows
    BY <2>2, <2>3, <2>4 DEF Rows
  <2>6. history' = Append(history, row)
    BY <1>4 DEF EnterHistory
  <2> HIDE DEF row
  <2>7. history' \in Seq(Rows) /\ Len(history') = Len(history) + 1
    BY <2>1, <2>5, <2>6
  <2> QED BY <1>4, <2>1, <2>7 DEF DeliveryTypeOK, EnterHistory
<1>5. CASE UNCHANGED release
  BY <1>5 DEF DeliveryTypeOK, release
<1> QED BY <1>1, <1>2, <1>3, <1>4, <1>5 DEF ReleaseNext

-----------------------------------------------------------------------------
(* Going forward.                                                          *)

(* The views agree on what is ready.                                       *)
LEMMA ReadyIs ==
  LET plan == buildSafeForwardPlan(evidence)
      board == buildReleaseOpsDashboard(evidence, plan, parseCiRunSummary(ciRun))
  IN  /\ plan.canAdvance <=> evidence.ok
      /\ evidence.ok => plan.nextStatuses = DeliveredPath
      /\ ~ evidence.ok => plan.nextStatuses = <<"test_failed">>
      /\ board.status = "ready" <=> evidence.ok
      /\ board.status = "blocked" <=> ~ evidence.ok
      /\ board.failedQueue = evidence.failed
      /\ board.primaryActionId = "copy-mcp-commands" <=> evidence.ok
<1> DEFINE plan == buildSafeForwardPlan(evidence)
           board == buildReleaseOpsDashboard(evidence, plan, parseCiRunSummary(ciRun))
<1>1. /\ plan.canAdvance <=> evidence.ok
      /\ evidence.ok => plan.nextStatuses = DeliveredPath
      /\ ~ evidence.ok => plan.nextStatuses = <<"test_failed">>
  BY DEF buildSafeForwardPlan
<1>2. evidence.ok => failedGates(parseCiRunSummary(ciRun)) = {}
  BY EvidenceIs, FailedGatesAre
<1> HIDE DEF plan
<1>3. /\ board.status = "ready" <=> evidence.ok
      /\ board.status = "blocked" <=> ~ evidence.ok
  BY <1>2 DEF buildReleaseOpsDashboard
<1>4. board.failedQueue = evidence.failed
  BY EvidenceIs DEF buildReleaseOpsDashboard, buildFailureChecklist
<1>5. board.primaryActionId = "copy-mcp-commands" <=> evidence.ok
  BY <1>1 DEF buildReleaseOpsDashboard, primaryAction
<1> QED BY <1>1, <1>3, <1>4, <1>5 DEF plan

(* What an operator can execute, and what that will do.                    *)
LEMMA ForwardIs ==
  ASSUME NEW p, NEW c
  PROVE  LET plan == buildSafeForwardPlan(evidence)
             forward == buildSafeForwardExecutionPlan(p, plan, c)
         IN  /\ forward.executable <=> evidence.ok /\ c = <<"EXECUTE", p>>
             /\ DOMAIN forward.steps = IF evidence.ok THEN 1 .. 4 ELSE 1 .. 1
             /\ \A i \in DOMAIN forward.steps :
                  /\ forward.steps[i].willExecute <=> forward.executable
                  /\ forward.steps[i].status = plan.nextStatuses[i]
                  /\ forward.steps[i].command = <<p, plan.nextStatuses[i]>>
<1> DEFINE plan == buildSafeForwardPlan(evidence)
           commandPlan == buildSafeForwardCommandPlan(p, plan, c)
           forward == buildSafeForwardExecutionPlan(p, plan, c)
<1>1. Len(plan.nextStatuses) = IF evidence.ok THEN 4 ELSE 1
  <2>1. CASE evidence.ok
    <3>1. plan.nextStatuses = <<"in_test_acceptance", "accepted", "deployed", "delivered">>
      BY <2>1, ReadyIs DEF DeliveredPath
    <3> HIDE DEF plan
    <3> QED BY <2>1, <3>1
  <2>2. CASE ~ evidence.ok
    <3>1. plan.nextStatuses = <<"test_failed">>
      BY <2>2, ReadyIs
    <3> HIDE DEF plan
    <3> QED BY <2>2, <3>1
  <2> QED BY <2>1, <2>2
<1>2. plan.canAdvance <=> evidence.ok
  BY ReadyIs
<1> HIDE DEF plan
<1>3. commandPlan.executable <=> plan.canAdvance /\ c = <<"EXECUTE", p>>
  BY DEF buildSafeForwardCommandPlan
<1>4. commandPlan.commands = [i \in 1 .. Len(plan.nextStatuses) |-> <<p, plan.nextStatuses[i]>>]
  BY DEF buildSafeForwardCommandPlan
<1> HIDE DEF commandPlan
<1>5. /\ forward.executable = commandPlan.executable
      /\ forward.steps = [i \in 1 .. Len(plan.nextStatuses) |->
           [status |-> plan.nextStatuses[i], command |-> commandPlan.commands[i],
            willExecute |-> commandPlan.executable]]
  BY DEF buildSafeForwardExecutionPlan, commandPlan
<1> HIDE DEF forward
<1>6. forward.executable <=> evidence.ok /\ c = <<"EXECUTE", p>>
  BY <1>2, <1>3, <1>5
<1>7. DOMAIN forward.steps = IF evidence.ok THEN 1 .. 4 ELSE 1 .. 1
  BY <1>1, <1>5
<1>8. \A i \in DOMAIN forward.steps :
        /\ forward.steps[i].willExecute <=> forward.executable
        /\ forward.steps[i].status = plan.nextStatuses[i]
        /\ forward.steps[i].command = <<p, plan.nextStatuses[i]>>
  BY <1>4, <1>5
<1> QED BY <1>6, <1>7, <1>8 DEF plan, forward

(* Whatever the gates, the web and the jobs are like.                      *)
LEMMA ForwardWhenAllPass == DeliveryTypeOK => ForwardOnlyWhenAllPass
<1> SUFFICES ASSUME DeliveryTypeOK PROVE ForwardOnlyWhenAllPass
  OBVIOUS
<1> DEFINE plan == buildSafeForwardPlan(evidence)
           board == buildReleaseOpsDashboard(evidence, plan, parseCiRunSummary(ciRun))
           forward(p, c) == buildSafeForwardExecutionPlan(p, plan, c)
<1>1. /\ plan.canAdvance <=> evidence.ok
      /\ evidence.ok => plan.nextStatuses = DeliveredPath
      /\ ~ evidence.ok => plan.nextStatuses = <<"test_failed">>
      /\ board.status = "ready" <=> evidence.ok
      /\ board.status = "blocked" <=> ~ evidence.ok
      /\ board.failedQueue = evidence.failed
      /\ board.primaryActionId = "copy-mcp-commands" <=> evidence.ok
  BY ReadyIs
<1>2. ASSUME NEW p, NEW c
      PROVE  /\ forward(p, c).executable <=> evidence.ok /\ c = <<"EXECUTE", p>>
             /\ DOMAIN forward(p, c).steps = IF evidence.ok THEN 1 .. 4 ELSE 1 .. 1
             /\ \A i \in DOMAIN forward(p, c).steps :
                  /\ forward(p, c).steps[i].willExecute <=> forward(p, c).executable
                  /\ forward(p, c).steps[i].status = plan.nextStatuses[i]
                  /\ forward(p, c).steps[i].command = <<p, plan.nextStatuses[i]>>
  BY ForwardIs
<1>3. evidence.ok => /\ \A g \in LocalGates : gates[g]
                     /\ \A j \in DOMAIN ciRun : ciRun[j] \in {"success", "skipped"}
                     /\ web \in {"absent", "verified"}
                     /\ failedGates(localEvidence.gates) = {}
  BY EvidenceIs, FailedGatesAre
<1>4. ~ evidence.ok => evidence.failed # {} \/ web \in {"down", "empty"}
  BY EvidenceIs DEF DeliveryTypeOK, WebChecks
<1>5. /\ plan.canAdvance <=> board.status = "ready"
      /\ board.primaryActionId = "copy-mcp-commands" <=> board.status = "ready"
      /\ board.status = "ready" => board.failedQueue = {} /\ canDeploy(localEvidence.gates)
      /\ board.status = "blocked" => board.failedQueue # {} \/ web \in {"down", "empty"}
  BY <1>1, <1>3, <1>4, EvidenceIs DEF canDeploy
<1> HIDE DEF plan, board, forward
<1>6. ASSUME NEW p \in Proposals, NEW c \in Confirmations
      PROVE  /\ forward(p, c).executable =>
                  /\ \A g \in LocalGates : gates[g]
                  /\ \A j \in DOMAIN ciRun : ciRun[j] \notin {"failure", "cancelled"}
                  /\ web \in {"absent", "verified"}
                  /\ c = <<"EXECUTE", p>>
                  /\ \A i \in 1 .. 4 : forward(p, c).steps[i].command = <<p, DeliveredPath[i]>>
             /\ \A i \in DOMAIN forward(p, c).steps :
                  forward(p, c).steps[i].willExecute <=> forward(p, c).executable
             /\ "delivered" \in {forward(p, c).steps[i].status : i \in DOMAIN forward(p, c).steps}
                  <=> board.status = "ready"
  <2>1. forward(p, c).executable =>
          /\ \A g \in LocalGates : gates[g]
          /\ \A j \in DOMAIN ciRun : ciRun[j] \notin {"failure", "cancelled"}
          /\ web \in {"absent", "verified"}
          /\ c = <<"EXECUTE", p>>
    BY <1>2, <1>3
  <2>2. forward(p, c).executable =>
          \A i \in 1 .. 4 : forward(p, c).steps[i].command = <<p, DeliveredPath[i]>>
    BY <1>1, <1>2
  <2>3. CASE evidence.ok
    <3>1. 4 \in DOMAIN forward(p, c).steps /\ plan.nextStatuses[4] = "delivered"
      <4>1. plan.nextStatuses = <<"in_test_acceptance", "accepted", "deployed", "delivered">>
        BY <1>1, <2>3 DEF DeliveredPath
      <4>2. DOMAIN forward(p, c).steps = 1 .. 4
        BY <1>2, <2>3
      <4> QED BY <4>1, <4>2
    <3>2. forward(p, c).steps[4].status = "delivered"
      BY <1>2, <3>1
    <3> QED BY <1>1, <1>2, <2>1, <2>2, <2>3, <3>1, <3>2
  <2>4. CASE ~ evidence.ok
    <3>1. \A i \in DOMAIN forward(p, c).steps : i = 1 /\ plan.nextStatuses[i] = "test_failed"
      <4>1. plan.nextStatuses = <<"test_failed">>
        BY <1>1, <2>4
      <4>2. DOMAIN forward(p, c).steps = 1 .. 1
        BY <1>2, <2>4
      <4> QED BY <4>1, <4>2
    <3>2. \A i \in DOMAIN forward(p, c).steps : forward(p, c).steps[i].status = "test_failed"
      BY <1>2, <3>1
    <3> QED BY <1>1, <1>2, <2>1, <2>2, <2>4, <3>2
  <2> QED BY <2>3, <2>4
<1> QED BY <1>5, <1>6 DEF ForwardOnlyWhenAllPass, plan, board, forward

-----------------------------------------------------------------------------
(* The history.                                                            *)

(* With a bound one is the greatest.                                       *)
LEMMA GreatestExists ==
  ASSUME NEW n \in Nat, NEW S \in SUBSET (1 .. n), S # {}
  PROVE  \E x \in S : \A y \in S : y <= x
<1> DEFINE T == {n - x : x \in S}
<1>1. T \in SUBSET Nat /\ T # {}
  <2>1. PICK z \in S : TRUE
    OBVIOUS
  <2>2. n - z \in T
    OBVIOUS
  <2>3. \A x \in S : n - x \in Nat
    OBVIOUS
  <2> QED BY <2>2, <2>3
<1>2. PICK t \in T : \A u \in T : t <= u
  BY <1>1, LeastExists
<1>3. PICK x \in S : t = n - x
  OBVIOUS
<1>4. \A y \in S : n - y \in T
  OBVIOUS
<1>5. \A y \in S : n - x <= n - y
  BY <1>2, <1>3, <1>4
<1> QED BY <1>3, <1>5

(* B is what A has up to s, and C what it has behind s, counted from there.*)
Splits(n, s, A, B, C) ==
  /\ n \in Nat /\ s \in 0 .. n
  /\ A \in SUBSET (1 .. n) /\ B \in SUBSET (1 .. s) /\ C \in SUBSET (1 .. n - s)
  /\ \A i \in 1 .. s : i \in A <=> i \in B
  /\ \A i \in 1 .. n - s : s + i \in A <=> i \in C

(* What is counted in 1 .. n is counted before and behind any point s.     *)
LEMMA CountSplit ==
  ASSUME NEW n, NEW s, NEW A, NEW B, NEW C, Splits(n, s, A, B, C)
  PROVE  Cardinality(A) = Cardinality(B) + Cardinality(C)
<1>1. /\ n \in Nat /\ s \in 0 .. n
      /\ A \in SUBSET (1 .. n) /\ B \in SUBSET (1 .. s) /\ C \in SUBSET (1 .. n - s)
      /\ \A i \in 1 .. s : i \in A <=> i \in B
      /\ \A i \in 1 .. n - s : s + i \in A <=> i \in C
  BY DEF Splits
<1> USE <1>1
<1> DEFINE D == A \ B
           f == [i \in C |-> s + i]
<1>2. IsFiniteSet(A) /\ IsFiniteSet(B) /\ IsFiniteSet(C) /\ IsFiniteSet(D)
  <2>1. IsFiniteSet(1 .. n) /\ IsFiniteSet(1 .. s) /\ IsFiniteSet(1 .. n - s)
    BY FS_Interval
  <2>2. D \in SUBSET (1 .. n)
    OBVIOUS
  <2> QED BY <2>1, <2>2, FS_Subset
<1>3. /\ Cardinality(A) \in Nat /\ Cardinality(B) \in Nat
      /\ Cardinality(C) \in Nat /\ Cardinality(D) \in Nat
  BY <1>2, FS_CardinalityType
<1>4. A = B \cup D /\ B \cap D = {}
  OBVIOUS
<1>5. Cardinality(A) = Cardinality(B) + Cardinality(D)
  <2>1. Cardinality(B \cup D) = Cardinality(B) + Cardinality(D) - Cardinality(B \cap D)
    BY <1>2, FS_Union
  <2>2. Cardinality(B \cap D) = 0
    BY <1>4, FS_EmptySet
  <2> QED BY <1>3, <1>4, <2>1, <2>2
<1>6. Cardinality(D) = Cardinality(C)
  <2>1. \A j \in D : j \in s + 1 .. n /\ j - s \in C
    <3>1. ASSUME NEW j \in D PROVE j \in s + 1 .. n /\ j - s \in C
      <4>1. j \in 1 .. n /\ j \in A /\ j \notin 1 .. s
        OBVIOUS
      <4>2. j - s \in 1 .. n - s /\ s + (j - s) = j
        BY <4>1
      <4> QED BY <4>1, <4>2
    <3> QED BY <3>1
  <2>2. \A i \in C : s + i \in D
    OBVIOUS
  <2>3. f \in Bijection(C, D)
    <3>1. f \in [C -> D]
      BY <2>2
    <3>2. \A i, j \in C : f[i] = f[j] => i = j
      OBVIOUS
    <3>3. \A j \in D : \E i \in C : f[i] = j
      <4>1. ASSUME NEW j \in D PROVE f[j - s] = j /\ j - s \in C
        BY <2>1
      <4> QED BY <4>1
    <3> QED BY <3>1, <3>2, <3>3, Fun_IsBij
  <2>4. ExistsBijection(C, D)
    BY <2>3 DEF ExistsBijection
  <2> QED BY <1>2, <2>4, FS_Bijection
<1> QED BY <1>5, <1>6

(* The two sides of a ledger that is split at s.                           *)
LEMMA SplitAt ==
  ASSUME NEW S, NEW items \in Seq(S), NEW s \in 0 .. Len(items)
  PROVE  /\ SubSeq(items, 1, s) \in Seq(S) /\ Len(SubSeq(items, 1, s)) = s
         /\ \A i \in 1 .. s : SubSeq(items, 1, s)[i] = items[i]
         /\ slice(items, s) \in Seq(S) /\ Len(slice(items, s)) = Len(items) - s
         /\ \A i \in 1 .. Len(items) - s : slice(items, s)[i] = items[s + i]
         /\ SubSeq(items, 1, s) \o slice(items, s) = items
<1>1. Len(items) \in Nat /\ s \in Nat /\ \A i \in 1 .. Len(items) : items[i] \in S
  OBVIOUS
<1>2. /\ SubSeq(items, 1, s) \in Seq(S) /\ Len(SubSeq(items, 1, s)) = s
      /\ \A i \in 1 .. s : SubSeq(items, 1, s)[i] = items[i]
  <2>1. \A i \in 1 .. s : items[i] \in S
    BY <1>1
  <2>2. /\ SubSeq(items, 1, s) \in Seq(S)
        /\ Len(SubSeq(items, 1, s)) = IF 1 <= s THEN s - 1 + 1 ELSE 0
        /\ \A i \in 1 .. s - 1 + 1 : SubSeq(items, 1, s)[i] = items[1 + i - 1]
    BY <1>1, <2>1, SubSeqProperties
  <2>3. s - 1 + 1 = s /\ \A i \in 1 .. s : 1 + i - 1 = i
    BY <1>1
  <2> QED BY <1>1, <2>2, <2>3
<1>3. /\ slice(items, s) \in Seq(S) /\ Len(slice(items, s)) = Len(items) - s
      /\ \A i \in 1 .. Len(items) - s : slice(items, s)[i] = items[s + i]
  <2>1. \A i \in s + 1 .. Len(items) : items[i] \in S
    BY <1>1
  <2>2. /\ slice(items, s) \in Seq(S)
        /\ Len(slice(items, s)) = IF s + 1 <= Len(items) THEN Len(items) - (s + 1) + 1 ELSE 0
        /\ \A i \in 1 .. Len(items) - (s + 1) + 1 : slice(items, s)[i] = items[s + 1 + i - 1]
    BY <1>1, <2>1, SubSeqProperties DEF slice
  <2>3. Len(items) - (s + 1) + 1 = Len(items) - s
        /\ \A i \in 1 .. Len(items) - s : s + 1 + i - 1 = s + i
    BY <1>1
  <2> QED BY <1>1, <2>2, <2>3
<1>4. SubSeq(items, 1, s) \o slice(items, s) = items
  <2>1. 1 \in 1 .. Len(items) + 1 /\ s \in 1 - 1 .. Len(items) /\ Len(items) \in s .. Len(items)
    BY <1>1
  <2>2. SubSeq(items, 1, s) \o SubSeq(items, s + 1, Len(items)) = SubSeq(items, 1, Len(items))
    BY <2>1, ConcatAdjacentSubSeq
  <2> QED BY <2>2, SubSeqFull DEF slice
<1> QED BY <1>2, <1>3, <1>4

(* The last commit that was good, if any was.                              *)
LEMMA LastDeliverableIs ==
  ASSUME NEW items \in Seq(Rows)
  PROVE  /\ (\A i \in 1 .. Len(items) : ~ items[i].ok) => lastDeliverableCommit(items) = -1
         /\ \A k \in 1 .. Len(items) :
              items[k].ok /\ (\A i \in k + 1 .. Len(items) : ~ items[i].ok)
                => lastDeliverableCommit(items) = items[k].commit /\ items[k].commit # -1
<1> DEFINE good == {i \in DOMAIN items : items[i].ok}
<1>1. DOMAIN items = 1 .. Len(items) /\ Len(items) \in Nat
  OBVIOUS
<1>2. (\A i \in 1 .. Len(items) : ~ items[i].ok) => lastDeliverableCommit(items) = -1
  BY <1>1 DEF lastDeliverableCommit
<1>3. ASSUME NEW k \in 1 .. Len(items), items[k].ok,
             \A i \in k + 1 .. Len(items) : ~ items[i].ok
      PROVE  lastDeliverableCommit(items) = items[k].commit /\ items[k].commit # -1
  <2>1. k \in good /\ \A j \in good : j <= k
    BY <1>1, <1>3
  <2>2. \A j \in good : (\A i \in good : i <= j) => j = k
    BY <1>1, <2>1
  <2>3. lastDeliverableCommit(items) = items[k].commit
    BY <2>1, <2>2 DEF lastDeliverableCommit
  <2>4. items[k] \in Rows
    OBVIOUS
  <2> QED BY <2>3, <2>4 DEF Rows
<1> QED BY <1>2, <1>3

(* Where the history is split.                                             *)
LEMMA SplitPoint ==
  ASSUME NEW n \in Nat, NEW keep \in Int
  PROVE  /\ Floor(keep) \in Nat
         /\ Floor(n - Floor(keep)) \in 0 .. n
         /\ n - Floor(n - Floor(keep)) <= Floor(keep)
<1>1. Floor(keep) \in Nat
  BY DEF Floor
<1>2. ASSUME NEW k \in Nat
      PROVE  Floor(n - k) \in 0 .. n /\ n - Floor(n - k) <= k
  BY DEF Floor
<1> QED BY <1>1, <1>2

(* The last good row.                                                      *)
LEMMA LastGoodExists ==
  ASSUME NEW items \in Seq(Rows), \E i \in 1 .. Len(items) : items[i].ok
  PROVE  \E k \in 1 .. Len(items) :
           items[k].ok /\ \A i \in k + 1 .. Len(items) : ~ items[i].ok
<1> DEFINE n == Len(items)
           good == {i \in 1 .. n : items[i].ok}
<1>1. n \in Nat
  OBVIOUS
<1>2. good \in SUBSET (1 .. n) /\ good # {}
  OBVIOUS
<1> HIDE DEF n, good
<1>3. PICK k \in good : \A i \in good : i <= k
  BY <1>1, <1>2, GreatestExists
<1>4. \A i \in k + 1 .. n : i \notin good /\ i \in 1 .. n
  BY <1>1, <1>2, <1>3
<1> QED BY <1>2, <1>3, <1>4 DEF n, good

(* Whatever the rows and however many of them are to be kept.              *)
LEMMA HistoryIsKept == DeliveryTypeOK => HistoryKept
<1> SUFFICES ASSUME DeliveryTypeOK PROVE HistoryKept
  OBVIOUS
<1> DEFINE n == Len(history)
<1>1. history \in Seq(Rows) /\ n \in Nat /\ MaxHistory \in Nat /\ DOMAIN history = 1 .. n
  BY DeliveryAssumption DEF DeliveryTypeOK
<1>2. ASSUME NEW keep \in -1 .. MaxHistory + 1
      PROVE  LET c == compactDeliveryHistoryLedger(history, keep)
                 whole == buildDeliveryHistorySnapshot(history, 5)
                 rest == buildDeliveryHistorySnapshot(c.kept, 5)
             IN  /\ c.total = c.archived.total + Len(c.kept)
                 /\ Len(c.kept) <= Floor(keep)
                 /\ c.archived.recent \o c.kept = history
                 /\ \A g \in GateNames :
                      whole.failedCounts[g] = c.archived.failedCounts[g] + rest.failedCounts[g]
                 /\ whole.lastDeliverableCommit =
                      IF rest.lastDeliverableCommit # -1 THEN rest.lastDeliverableCommit
                      ELSE c.archived.lastDeliverableCommit
  <2> DEFINE s == Floor(Len(history) - Floor(keep))
             archive == SubSeq(history, 1, s)
             kept == slice(history, s)
             c == compactDeliveryHistoryLedger(history, keep)
             whole == buildDeliveryHistorySnapshot(history, 5)
             rest == buildDeliveryHistorySnapshot(c.kept, 5)
  <2>1. Floor(keep) \in Nat /\ s \in 0 .. n /\ n - s <= Floor(keep)
    <3>1. keep \in Int
      BY <1>1
    <3> HIDE DEF n
    <3>2. /\ Floor(keep) \in Nat
          /\ Floor(n - Floor(keep)) \in 0 .. n
          /\ n - Floor(n - Floor(keep)) <= Floor(keep)
      BY <1>1, <3>1, SplitPoint
    <3> QED BY <3>2 DEF n
  <2>2. /\ archive \in Seq(Rows) /\ Len(archive) = s
        /\ \A i \in 1 .. s : archive[i] = history[i]
        /\ kept \in Seq(Rows) /\ Len(kept) = n - s
        /\ \A i \in 1 .. n - s : kept[i] = history[s + i]
        /\ archive \o kept = history
    <3> HIDE DEF s
    <3> QED BY <1>1, <2>1, SplitAt
  <2>3. /\ c.total = n /\ c.kept = kept
        /\ c.archived = buildDeliveryHistorySnapshot(archive, Len(archive))
    BY DEF compactDeliveryHistoryLedger
  <2> HIDE DEF s, archive, kept, c
  <2>4. /\ whole.failedCounts = [g \in GateNames |-> FailedTimes(history, g)]
        /\ whole.lastDeliverableCommit = lastDeliverableCommit(history)
    BY DEF buildDeliveryHistorySnapshot
  <2>5. /\ rest.failedCounts = [g \in GateNames |-> FailedTimes(kept, g)]
        /\ rest.lastDeliverableCommit = lastDeliverableCommit(kept)
    BY <2>3 DEF buildDeliveryHistorySnapshot
  <2>6. /\ c.archived.total = s
        /\ c.archived.recent = slice(archive, Floor(s - s))
        /\ c.archived.failedCounts = [g \in GateNames |-> FailedTimes(archive, g)]
        /\ c.archived.lastDeliverableCommit = lastDeliverableCommit(archive)
    BY <2>2, <2>3 DEF buildDeliveryHistorySnapshot
  <2>7. c.archived.recent = archive
    <3>1. Floor(s - s) = 0
      BY <1>1, <2>1 DEF Floor
    <3>2. slice(archive, 0) = SubSeq(archive, 1, Len(archive))
      BY DEF slice
    <3> QED BY <2>2, <2>6, <3>1, <3>2, SubSeqFull
  <2> HIDE DEF whole, rest
  <2>8. ASSUME NEW g \in GateNames
        PROVE  whole.failedCounts[g] = c.archived.failedCounts[g] + rest.failedCounts[g]
    <3> DEFINE A == {i \in DOMAIN history : g \in history[i].failed}
               B == {i \in DOMAIN archive : g \in archive[i].failed}
               C == {i \in DOMAIN kept : g \in kept[i].failed}
    <3>1. DOMAIN archive = 1 .. s /\ DOMAIN kept = 1 .. n - s
      BY <1>1, <2>1, <2>2
    <3>2. A \in SUBSET (1 .. n) /\ B \in SUBSET (1 .. s) /\ C \in SUBSET (1 .. n - s)
      BY <1>1, <3>1
    <3>3. \A i \in 1 .. s : i \in A <=> i \in B
      BY <1>1, <2>1, <2>2, <3>1
    <3>4. \A i \in 1 .. n - s : s + i \in A <=> i \in C
      BY <1>1, <2>1, <2>2, <3>1
    <3>5. Cardinality(A) = Cardinality(B) + Cardinality(C)
      <4> HIDE DEF A, B, C, n
      <4>1. Splits(n, s, A, B, C)
        BY <1>1, <2>1, <3>2, <3>3, <3>4 DEF Splits
      <4> QED BY <4>1, CountSplit
    <3>6. FailedTimes(history, g) = FailedTimes(archive, g) + FailedTimes(kept, g)
      BY <3>5 DEF FailedTimes
    <3> QED BY <2>4, <2>5, <2>6, <3>6
  <2>9. lastDeliverableCommit(history) =
          IF lastDeliverableCommit(kept) # -1 THEN lastDeliverableCommit(kept)
          ELSE lastDeliverableCommit(archive)
    <3>1. CASE \E i \in 1 .. Len(kept) : kept[i].ok
      <4>2. PICK k \in 1 .. Len(kept) : kept[k].ok /\ \A i \in k + 1 .. Len(kept) : ~ kept[i].ok
        BY <2>2, <3>1, LastGoodExists
      <4>3. lastDeliverableCommit(kept) = kept[k].commit /\ kept[k].commit # -1
        BY <2>2, <4>2, LastDeliverableIs
      <4>4. /\ s + k \in 1 .. n /\ history[s + k] = kept[k]
            /\ \A i \in s + k + 1 .. n : ~ history[i].ok
        <5>1. k \in 1 .. n - s /\ s + k \in 1 .. n
          BY <1>1, <2>1, <2>2, <4>2
        <5>2. ASSUME NEW i \in s + k + 1 .. n PROVE ~ history[i].ok
          <6>1. i - s \in k + 1 .. n - s /\ i - s \in 1 .. n - s /\ s + (i - s) = i
            BY <1>1, <2>1, <5>1
          <6>2. ~ kept[i - s].ok
            BY <2>2, <4>2, <6>1
          <6>3. kept[i - s] = history[i]
            BY <2>2, <6>1
          <6> QED BY <6>2, <6>3
        <5> QED BY <2>2, <5>1, <5>2
      <4>5. lastDeliverableCommit(history) = kept[k].commit
        BY <1>1, <4>2, <4>4, LastDeliverableIs
      <4> QED BY <4>3, <4>5
    <3>2. CASE /\ \A i \in 1 .. Len(kept) : ~ kept[i].ok
               /\ \E i \in 1 .. Len(archive) : archive[i].ok
      <4>1. PICK k \in 1 .. Len(archive) :
              archive[k].ok /\ \A i \in k + 1 .. Len(archive) : ~ archive[i].ok
        BY <2>2, <3>2, LastGoodExists
      <4>2. k \in 1 .. s /\ archive[k].ok /\ \A i \in k + 1 .. s : ~ archive[i].ok
        BY <2>2, <4>1
      <4>3. lastDeliverableCommit(archive) = archive[k].commit
        BY <2>2, <4>2, LastDeliverableIs
      <4>4. lastDeliverableCommit(kept) = -1
        BY <2>2, <3>2, LastDeliverableIs
      <4>5. /\ k \in 1 .. n /\ history[k] = archive[k]
            /\ \A i \in k + 1 .. n : ~ history[i].ok
        <5>1. ASSUME NEW i \in k + 1 .. n PROVE ~ history[i].ok
          <6>1. CASE i <= s
            BY <1>1, <2>1, <2>2, <4>2, <6>1
          <6>2. CASE i > s
            <7>1. i - s \in 1 .. n - s /\ s + (i - s) = i
              BY <1>1, <2>1, <4>2, <6>2
            <7>2. kept[i - s] = history[i] /\ i - s \in 1 .. Len(kept)
              BY <2>2, <7>1
            <7> QED BY <3>2, <7>2
          <6> QED BY <1>1, <2>1, <4>2, <6>1, <6>2
        <5> QED BY <1>1, <2>1, <2>2, <4>2, <5>1
      <4>6. lastDeliverableCommit(history) = archive[k].commit
        BY <1>1, <4>2, <4>5, LastDeliverableIs
      <4> QED BY <4>3, <4>4, <4>6
    <3>3. CASE /\ \A i \in 1 .. Len(kept) : ~ kept[i].ok
               /\ \A i \in 1 .. Len(archive) : ~ archive[i].ok
      <4>1. lastDeliverableCommit(kept) = -1 /\ lastDeliverableCommit(archive) = -1
        BY <2>2, <3>3, LastDeliverableIs
      <4>2. ASSUME NEW i \in 1 .. n PROVE ~ history[i].ok
        <5>1. CASE i <= s
          BY <1>1, <2>1, <2>2, <3>3, <5>1
        <5>2. CASE i > s
          <6>1. i - s \in 1 .. n - s /\ s + (i - s) = i
            BY <1>1, <2>1, <5>2
          <6> QED BY <2>2, <3>3, <6>1
        <5> QED BY <1>1, <2>1, <5>1, <5>2
      <4>3. lastDeliverableCommit(history) = -1
        BY <1>1, <4>2, LastDeliverableIs
      <4> QED BY <4>1, <4>3
    <3> QED BY <3>1, <3>2, <3>3
  <2>10. /\ c.total = c.archived.total + Len(c.kept)
         /\ Len(c.kept) <= Floor(keep)
         /\ c.archived.recent \o c.kept = history
    <3>1. n = s + (n - s)
      BY <1>1, <2>1
    <3> QED BY <2>1, <2>2, <2>3, <2>6, <2>7, <3>1
  <2>11. whole.lastDeliverableCommit =
           IF rest.lastDeliverableCommit # -1 THEN rest.lastDeliverableCommit
           ELSE c.archived.lastDeliverableCommit
    BY <2>4, <2>5, <2>6, <2>9
  <2> QED BY <2>8, <2>10, <2>11 DEF whole, rest, c
<1> QED BY <1>2 DEF HistoryKept

-----------------------------------------------------------------------------
(* The panel.                                                              *)

(* The variables of the panel have their types, and no identifier is       *)
(* proposed twice.                                                         *)
LEMMA PanelTypesInit == PanelInit => PanelTypeOK
<1> SUFFICES ASSUME PanelInit PROVE PanelTypeOK
  OBVIOUS
<1>1. tokens \in [Connectors -> {"none", "blank", "set"}]
  BY DEF PanelInit
<1>2. checks \in [Connectors -> [healthOk : BOOLEAN, dryRunOk : BOOLEAN, realPostEnabled : BOOLEAN]]
  BY DEF PanelInit
<1>3. actions = {} /\ artifacts = {} /\ conclusion = "success"
  BY DEF PanelInit
<1> QED BY <1>1, <1>2, <1>3 DEF PanelTypeOK

(* An identifier that is proposed stays so until it is withdrawn.          *)
LEMMA PanelTypesNext == PanelTypeOK /\ [PanelNext]_panel => PanelTypeOK'
<1> SUFFICES ASSUME PanelTypeOK, [PanelNext]_panel PROVE PanelTypeOK'
  OBVIOUS
<1>1. ASSUME NEW p \in Connectors, SetToken(p) PROVE PanelTypeOK'
  BY <1>1 DEF PanelTypeOK, SetToken
<1>2. ASSUME NEW p \in Connectors, Check(p) PROVE PanelTypeOK'
  <2>1. PICK dry \in BOOLEAN, real \in BOOLEAN,
             health \in {runChannelAdapterSafetyChain(p, FALSE).ok, FALSE} :
          checks' = [checks EXCEPT ![p] =
            [healthOk |-> health, dryRunOk |-> dry, realPostEnabled |-> real]]
    BY <1>2 DEF Check
  <2>2. health \in BOOLEAN
    BY DEF runChannelAdapterSafetyChain
  <2>3. [healthOk |-> health, dryRunOk |-> dry, realPostEnabled |-> real]
          \in [healthOk : BOOLEAN, dryRunOk : BOOLEAN, realPostEnabled : BOOLEAN]
    BY <2>2
  <2>4. checks' \in [Connectors -> [healthOk : BOOLEAN, dryRunOk : BOOLEAN, realPostEnabled : BOOLEAN]]
    BY <2>1, <2>3 DEF PanelTypeOK
  <2> QED BY <1>2, <2>4 DEF PanelTypeOK, Check
<1>3. ASSUME NEW a \in Actions, Propose(a) PROVE PanelTypeOK'
  BY <1>3 DEF PanelTypeOK, Propose
<1>4. ASSUME NEW a \in Actions, Withdraw(a) PROVE PanelTypeOK'
  BY <1>4 DEF PanelTypeOK, Withdraw
<1>5. CASE IngestCi
  BY <1>5 DEF PanelTypeOK, IngestCi
<1>6. CASE UNCHANGED panel
  BY <1>6 DEF PanelTypeOK, panel
<1> QED BY <1>1, <1>2, <1>3, <1>4, <1>5, <1>6 DEF PanelNext

-----------------------------------------------------------------------------
(* The queue of approvals.                                                 *)

Before == {p \in actions \X actions : before(p[1], p[2])}
Rank(a) == Cardinality({b \in actions : before(b, a)})

(* The actions are in a strict order.                                      *)
LEMMA BeforeIsOrder == ASSUME PanelTypeOK PROVE Orders(Before, actions)
<1>1. \A a \in actions : a.id \in Nat /\ a.risk \in Risks
  BY ProductionAssumption DEF PanelTypeOK
<1>2. \A a \in actions : RISK_ORDER[a.risk] \in Nat
  BY <1>1 DEF Risks, RISK_ORDER
<1>3. \A a, b \in actions : RISK_ORDER[a.risk] = RISK_ORDER[b.risk] => a.risk = b.risk
  BY <1>1 DEF Risks, RISK_ORDER
<1>4. \A a, b \in actions : a.id = b.id => a = b
  BY DEF PanelTypeOK
<1>5. /\ \A a \in actions : ~ before(a, a)
      /\ \A a, b \in actions : a # b => before(a, b) \/ before(b, a)
      /\ \A a, b, c \in actions : before(a, b) /\ before(b, c) => before(a, c)
  BY <1>1, <1>2, <1>3, <1>4 DEF before
<1>6. \A a, b \in actions : <<a, b>> \in Before <=> before(a, b)
  BY DEF Before
<1> QED BY <1>5, <1>6 DEF Orders

(* Each action has a rank of its own, and every rank is taken.             *)
LEMMA RanksAre ==
  ASSUME PanelTypeOK
  PROVE  /\ Cardinality(actions) \in Nat
         /\ \A a \in actions : Rank(a) \in 0 .. Cardinality(actions) - 1
         /\ \A a, b \in actions : before(a, b) => Rank(a) < Rank(b)
         /\ \A a, b \in actions : Rank(a) = Rank(b) => a = b
         /\ \A i \in 1 .. Cardinality(actions) : \E a \in actions : Rank(a) = i - 1
<1>1. IsFiniteSet(actions) /\ Cardinality(actions) \in Nat
  BY ProductionAssumption, FS_Subset, FS_CardinalityType DEF PanelTypeOK
<1>2. \A a, b \in actions : <<a, b>> \in Before <=> before(a, b)
  BY DEF Before
<1>3. ASSUME NEW a \in actions PROVE Place(a, actions, Before) = Rank(a)
  <2>1. Ahead(a, actions, Before) = {b \in actions : before(b, a)}
    BY <1>2 DEF Ahead
  <2> QED BY <2>1 DEF Place, Rank
<1> DEFINE n == Cardinality(actions)
<1>4. /\ \A a \in actions : Place(a, actions, Before) \in 0 .. n - 1
      /\ \A a, b \in actions : <<a, b>> \in Before =>
           Place(a, actions, Before) < Place(b, actions, Before)
      /\ \A a, b \in actions : Place(a, actions, Before) = Place(b, actions, Before) => a = b
      /\ \A i \in 1 .. n : \E a \in actions : Place(a, actions, Before) = i - 1
  BY <1>1, BeforeIsOrder, PlacesAre
<1> HIDE DEF n
<1> QED BY <1>1, <1>2, <1>3, <1>4 DEF n

(* What stands at a place of the queue, and that nothing is left out.      *)
Standing(i) == CHOOSE a \in actions : Rank(a) = i - 1

LEMMA QueueIs ==
  ASSUME PanelTypeOK
  PROVE  /\ DOMAIN approvalRows = 1 .. Cardinality(actions) /\ Cardinality(actions) \in Nat
         /\ \A i \in DOMAIN approvalRows :
              /\ Standing(i) \in actions
              /\ approvalRows[i].id = Standing(i).id
              /\ approvalRows[i].risk = Standing(i).risk
              /\ approvalRows[i].token = <<"APPROVED", Standing(i).id>>
              /\ approvalRows[i].status = IF Standing(i).risk = "low" THEN "approved" ELSE "pending"
         /\ \A a \in actions : \E i \in DOMAIN approvalRows : Standing(i) = a
         /\ \A i, j \in DOMAIN approvalRows : before(Standing(j), Standing(i)) => j < i
<1> DEFINE n == Cardinality(actions)
           items == buildApprovalQueue
<1>1. ASSUME NEW i \in 1 .. n
      PROVE  Standing(i) \in actions /\ Rank(Standing(i)) = i - 1
  BY RanksAre DEF Standing
<1>2. items = [i \in 1 .. n |-> [id |-> Standing(i).id, risk |-> Standing(i).risk,
                 status |-> IF Standing(i).risk = "low" THEN "informational" ELSE "pending_approval"]]
  BY DEF buildApprovalQueue, Standing, Rank
<1> HIDE DEF items
<1>3. approvalRows = [i \in DOMAIN items |->
         [id |-> items[i].id, risk |-> items[i].risk, token |-> <<"APPROVED", items[i].id>>,
          status |-> IF items[i].status = "informational" THEN "approved" ELSE "pending"]]
  BY DEF approvalRows, items
<1>4. DOMAIN items = 1 .. n /\ DOMAIN approvalRows = 1 .. n /\ n \in Nat
  BY <1>2, <1>3, RanksAre
<1>5. ASSUME NEW i \in 1 .. n
      PROVE  /\ approvalRows[i].id = Standing(i).id
             /\ approvalRows[i].risk = Standing(i).risk
             /\ approvalRows[i].token = <<"APPROVED", Standing(i).id>>
             /\ approvalRows[i].status = IF Standing(i).risk = "low" THEN "approved" ELSE "pending"
  BY <1>2, <1>3, <1>4
<1>6. ASSUME NEW a \in actions
      PROVE  \E i \in 1 .. n : Standing(i) = a
  <2>1. Rank(a) + 1 \in 1 .. n /\ Rank(a) \in Nat
    BY RanksAre
  <2>2. Standing(Rank(a) + 1) \in actions /\ Rank(Standing(Rank(a) + 1)) = Rank(a)
    BY <1>1, <2>1
  <2> QED BY <2>1, <2>2, RanksAre
<1>7. ASSUME NEW i \in 1 .. n, NEW j \in 1 .. n, before(Standing(j), Standing(i))
      PROVE  j < i
  BY <1>1, <1>4, <1>7, RanksAre
<1> QED BY <1>1, <1>4, <1>5, <1>6, <1>7

(* The row that is looked at is one of those that are asked for.           *)
LEMMA FirstIs ==
  ASSUME NEW S \in SUBSET Nat, S # {}
  PROVE  First(S) \in S /\ \A j \in S : First(S) <= j
<1>1. \E i \in S : \A j \in S : i <= j
  BY LeastExists
<1> QED BY <1>1 DEF First

(* Of the rows that may be executed, the action is one of low risk.        *)
LEMMA ExecutesHarmless == PanelTypeOK => ExecutesOnlyHarmless
<1> SUFFICES ASSUME PanelTypeOK PROVE ExecutesOnlyHarmless
  OBVIOUS
<1> DEFINE n == Cardinality(actions)
<1> USE QueueIs
<1>1. n \in Nat /\ DOMAIN approvalRows = 1 .. n
  OBVIOUS
<1>2. ASSUME NEW i \in 1 .. n, approvalRows[i].status = "approved"
      PROVE  [id |-> approvalRows[i].id, risk |-> "low"] \in actions
  <2>1. Standing(i) \in actions /\ approvalRows[i].id = Standing(i).id
    BY <1>1
  <2>2. Standing(i).risk = "low"
    BY <1>1, <1>2
  <2>3. Standing(i) \in [id : Nat, risk : Risks]
    BY <2>1, ProductionAssumption DEF PanelTypeOK
  <2>4. Standing(i) = [id |-> Standing(i).id, risk |-> Standing(i).risk]
    BY <2>3
  <2> QED BY <2>1, <2>2, <2>4
<1>3. ASSUME NEW id, NEW typed, safeExecutable(approvalRows, id, typed)
      PROVE  [id |-> id, risk |-> "low"] \in actions /\ typed = <<"APPROVED", id>>
  <2> DEFINE named == {i \in DOMAIN approvalRows : approvalRows[i].id = id}
             at == First(named)
  <2>1. named # {} /\ approvalRows[at].status = "approved" /\ typed = approvalRows[at].token
    BY <1>3 DEF safeExecutable
  <2>2. named \in SUBSET Nat
    BY <1>1
  <2>3. at \in named
    BY <2>1, <2>2, FirstIs
  <2>4. at \in 1 .. n /\ approvalRows[at].id = id
    BY <1>1, <2>3
  <2> HIDE DEF at
  <2>5. approvalRows[at].token = <<"APPROVED", id>>
    BY <1>1, <2>4
  <2> QED BY <1>2, <2>1, <2>4, <2>5
<1>4. \A id, p : ~ safeExecutable(approvalRows, id, slaToken(p))
  <2>1. ASSUME NEW id, NEW p, safeExecutable(approvalRows, id, slaToken(p)) PROVE FALSE
    <3>1. slaToken(p) = <<"APPROVED", id>>
      BY <1>3, <2>1
    <3>2. <<"EXECUTE", p>> = <<"APPROVED", id>>
      BY <3>1 DEF slaToken
    <3> QED BY <3>2
  <2> QED BY <2>1
<1> QED BY <1>3, <1>4 DEF ExecutesOnlyHarmless

-----------------------------------------------------------------------------
(* What the views of the credentials come to.                              *)

(* The connectors that have no credential.                                 *)
Bare == {p \in Connectors : tokens[p] = "none"}

(* Their cards are the critical ones, and no other is a warning.           *)
LEMMA CardsAre ==
  /\ \A p \in Connectors : cards[p] = IF p \in Bare THEN "critical" ELSE "ok"
  /\ healthOk <=> Bare = {}
  /\ rotationRequired <=> Bare # {}
  /\ missing = Bare /\ expiring = {}
<1>1. ASSUME NEW p \in Connectors
      PROVE  buildCredentialRotationPlan[p] = IF p \in Bare THEN "missing" ELSE "ok"
  <2>1. credentialStatus(TRUE, 14, FALSE) = "ok" /\ credentialStatus(FALSE, 14, FALSE) = "missing"
    BY DEF credentialStatus
  <2>2. CASE p \in Bare
    <3>1. credentialPresent(p) = FALSE
      BY <2>2 DEF credentialPresent, Bare
    <3> QED BY <2>1, <2>2, <3>1 DEF buildCredentialRotationPlan
  <2>3. CASE p \notin Bare
    <3>1. credentialPresent(p) = TRUE
      BY <2>3 DEF credentialPresent, Bare
    <3> QED BY <2>1, <2>3, <3>1 DEF buildCredentialRotationPlan
  <2> QED BY <2>2, <2>3
<1>2. credentialSeverity("missing") = "critical" /\ credentialSeverity("ok") = "ok"
  BY DEF credentialSeverity
<1>3. \A p \in Connectors : cards[p] = IF p \in Bare THEN "critical" ELSE "ok"
  BY <1>1, <1>2 DEF cards
<1>4. Bare \in SUBSET Connectors
  BY DEF Bare
<1>5. rotationRequired <=> Bare # {}
  BY <1>1, <1>4 DEF rotationRequired
<1>6. healthOk <=> Bare = {}
  BY <1>3, <1>4 DEF healthOk
<1>7. missing = Bare /\ expiring = {}
  BY <1>3, <1>4 DEF missing, expiring
<1> QED BY <1>3, <1>5, <1>6, <1>7

(* The alerts are what the SLA pack says, or that all is clear.            *)
LEMMA AlertsAre ==
  /\ "credential-expiry" \in alerts <=> Bare # {}
  /\ "pending-approval-age" \in alerts <=> pending # {}
  /\ "failed-runs" \in alerts <=> failedRuns > 0
  /\ Bare = {} /\ pending = {} => alerts \subseteq {"all-clear", "ci-artifacts-found", "failed-runs"}
<1>1. \A k : k \in slaAttention <=>
        \/ pending # {} /\ k = "pending-approval-age"
        \/ Bare # {} /\ k = "credential-expiry"
        \/ artifacts = {} /\ k = "ci-artifacts-found"
        \/ failedRuns > 0 /\ k = "failed-runs"
  BY CardsAre DEF slaAttention
<1>2. slaAttention = {} => alerts = {"all-clear"}
  BY DEF alerts
<1>3. slaAttention # {} => alerts = slaAttention
  BY DEF alerts
<1>4. CASE slaAttention = {}
  <2>1. Bare = {} /\ pending = {} /\ ~ failedRuns > 0
    BY <1>1, <1>4
  <2> QED BY <1>2, <1>4, <2>1
<1>5. CASE slaAttention # {}
  <2>1. /\ "credential-expiry" \in alerts <=> Bare # {}
        /\ "pending-approval-age" \in alerts <=> pending # {}
        /\ "failed-runs" \in alerts <=> failedRuns > 0
    BY <1>1, <1>3, <1>5
  <2>2. Bare = {} /\ pending = {} => \A k \in alerts : k \in {"ci-artifacts-found", "failed-runs"}
    BY <1>1, <1>3, <1>5
  <2> QED BY <2>1, <2>2
<1> QED BY <1>4, <1>5

(* The notifications, each kind by itself.                                 *)
LEMMA NotificationsAre ==
  /\ Of(buildWebNotificationCenter, "credential") =
       {[kind |-> "credential", severity |-> "critical", of |-> p] : p \in Bare}
  /\ Of(buildWebNotificationCenter, "approval") =
       IF pending = {} THEN {}
       ELSE {[kind |-> "approval", of |-> "rows",
              severity |-> IF \E i \in pending : approvalRows[i].risk = "high"
                           THEN "critical" ELSE "warning"]}
<1> DEFINE ofCredentials == {[kind |-> "credential", severity |-> cards[p], of |-> p] :
                              p \in {q \in Connectors : cards[q] # "ok"}}
           ofApprovals == IF pending = {} THEN {}
                          ELSE {[kind |-> "approval", of |-> "rows",
                                 severity |-> IF \E i \in pending : approvalRows[i].risk = "high"
                                              THEN "critical" ELSE "warning"]}
           ofEvents == {[kind |-> "timeline", severity |-> "warning", of |-> k] : k \in failures}
<1>1. buildWebNotificationCenter = ofCredentials \cup ofApprovals \cup ofEvents
  BY DEF buildWebNotificationCenter
<1>2. \A m \in ofCredentials : m.kind = "credential"
  OBVIOUS
<1>3. \A m \in ofApprovals : m.kind = "approval"
  OBVIOUS
<1>4. \A m \in ofEvents : m.kind = "timeline"
  OBVIOUS
<1>5. ofCredentials = {[kind |-> "credential", severity |-> "critical", of |-> p] : p \in Bare}
  <2>1. {q \in Connectors : cards[q] # "ok"} = Bare /\ \A p \in Bare : cards[p] = "critical"
    BY CardsAre DEF Bare
  <2> QED BY <2>1
<1> HIDE DEF ofCredentials, ofApprovals, ofEvents
<1>6. Of(buildWebNotificationCenter, "credential") = ofCredentials
  BY <1>1, <1>2, <1>3, <1>4 DEF Of
<1>7. Of(buildWebNotificationCenter, "approval") = ofApprovals
  BY <1>1, <1>2, <1>3, <1>4 DEF Of
<1> QED BY <1>5, <1>6, <1>7 DEF ofApprovals

(* The events of the timeline that failed.                                 *)
LEMMA FailuresAre ==
  /\ "credential" \in failures <=> Bare # {}
  /\ "approval" \in failures <=> requiresOperator
<1>1. timeline.credential = healthOk /\ timeline.approval = ~ requiresOperator
      /\ "credential" \in DOMAIN timeline /\ "approval" \in DOMAIN timeline
  BY DEF timeline
<1> QED BY <1>1, CardsAre DEF failures

(* Whoever looks at a credential sees the same.                            *)
LEMMA CredentialsAgree == CredentialViewsAgree
<1> DEFINE notes == Of(buildWebNotificationCenter, "credential")
<1>1. notes = {[kind |-> "credential", severity |-> "critical", of |-> p] : p \in Bare}
  BY NotificationsAre
<1> HIDE DEF notes
<1>2. notes # {} <=> Bare # {}
  BY <1>1
<1>3. {m \in notes : m.severity = "critical"} = notes
  BY <1>1
<1>4. {m.of : m \in notes} = Bare
  <2>1. \A m \in notes : m.of \in Bare
    BY <1>1
  <2>2. ASSUME NEW p \in Bare PROVE \E m \in notes : p = m.of
    <3>1. [kind |-> "credential", severity |-> "critical", of |-> p] \in notes
      BY <1>1
    <3> QED BY <3>1
  <2> QED BY <2>1, <2>2
<1>5. "credential-setup-wizard-v2" \in workbenchAttention <=> Bare # {}
  BY CardsAre DEF workbenchAttention
<1>6. {"collect-token", "probe-health", "scope-review"} \ wizardDone # {} <=> Bare # {}
  BY CardsAre DEF wizardDone
<1>7. {n.of : n \in {m \in notes : m.severity = "critical"}} = {p \in Connectors : tokens[p] = "none"}
  BY <1>3, <1>4 DEF Bare
<1> QED BY <1>2, <1>5, <1>6, <1>7, CardsAre, AlertsAre, FailuresAre DEF CredentialViewsAgree, notes

(* The rows that wait are those of the actions that are not of low risk.   *)
LEMMA PendingAre ==
  ASSUME PanelTypeOK
  PROVE  /\ pending \in SUBSET (1 .. Cardinality(actions))
         /\ \A i \in DOMAIN approvalRows : i \in pending <=> Standing(i).risk # "low"
         /\ pending # {} <=> \E a \in actions : a.risk # "low"
         /\ requiresOperator <=> pending # {}
<1> DEFINE items == buildApprovalQueue
           n == Cardinality(actions)
<1>1. DOMAIN approvalRows = 1 .. n /\ DOMAIN items = 1 .. n
  BY QueueIs DEF buildApprovalQueue
<1>2. pending = {i \in 1 .. n : approvalRows[i].status = "pending"}
  BY <1>1 DEF pending
<1>3. \A i \in 1 .. n : i \in pending <=> Standing(i).risk # "low"
  <2>1. ASSUME NEW i \in 1 .. n
        PROVE  approvalRows[i].status = "pending" <=> Standing(i).risk # "low"
    <3>1. approvalRows[i].status = IF Standing(i).risk = "low" THEN "approved" ELSE "pending"
      BY <1>1, QueueIs
    <3> QED BY <3>1
  <2> QED BY <1>2, <2>1
<1>4. pending # {} <=> \E a \in actions : a.risk # "low"
  <2>1. \A i \in 1 .. n : Standing(i) \in actions
    BY <1>1, QueueIs
  <2>2. \A a \in actions : \E i \in 1 .. n : Standing(i) = a
    BY <1>1, QueueIs
  <2> QED BY <1>2, <1>3, <2>1, <2>2
<1>5. requiresOperator <=> pending # {}
  <2>1. ASSUME NEW i \in 1 .. n
        PROVE  items[i].status = "pending_approval" <=> Standing(i).risk # "low"
    <3>1. items[i].status = IF Standing(i).risk = "low" THEN "informational" ELSE "pending_approval"
      BY <1>1 DEF buildApprovalQueue, Standing, Rank
    <3> QED BY <3>1
  <2>2. requiresOperator <=> \E i \in 1 .. n : items[i].status = "pending_approval"
    BY <1>1 DEF requiresOperator
  <2> QED BY <1>2, <1>3, <2>1, <2>2
<1> QED BY <1>1, <1>2, <1>3, <1>4, <1>5

(* What the workbench looks at is of high risk when any row that waits is: *)
(* the rows of high risk stand first.                                      *)
LEMMA PreviewIs ==
  ASSUME PanelTypeOK
  PROVE  previewRisk = "high" <=> \E i \in pending : approvalRows[i].risk = "high"
<1> DEFINE n == Cardinality(actions)
           at == First(pending)
<1>1. n \in Nat /\ DOMAIN approvalRows = 1 .. n
  BY QueueIs
<1>2. \A i \in 1 .. n : Standing(i) \in actions /\ approvalRows[i].risk = Standing(i).risk
  BY <1>1, QueueIs
<1>3. pending \in SUBSET (1 .. n) /\ \A i \in 1 .. n : i \in pending <=> Standing(i).risk # "low"
  BY <1>1, PendingAre
<1>4. CASE pending # {}
  <2>1. at \in pending /\ \A j \in pending : at <= j
    BY <1>1, <1>3, <1>4, FirstIs
  <2> HIDE DEF at
  <2>2. previewRisk = approvalRows[at].risk
    BY <1>4 DEF previewRisk, at
  <2>3. ASSUME NEW i \in pending, approvalRows[i].risk = "high", approvalRows[at].risk # "high"
        PROVE  FALSE
    <3>1. /\ i \in 1 .. n /\ at \in 1 .. n
          /\ Standing(i).risk = "high" /\ Standing(at).risk # "high" /\ Standing(at) \in actions
      BY <1>2, <1>3, <2>1, <2>3
    <3>2. Standing(at).risk \in {"medium", "low"}
      BY <3>1, ProductionAssumption DEF PanelTypeOK, Risks
    <3>3. before(Standing(i), Standing(at))
      BY <3>1, <3>2 DEF before, RISK_ORDER
    <3>4. i < at
      BY <1>1, <3>1, <3>3, QueueIs
    <3> QED BY <1>1, <2>1, <3>1, <3>4
  <2> QED BY <2>1, <2>2, <2>3
<1>5. CASE pending = {}
  <2>1. previewRisk = IF approvalRows # <<>> THEN approvalRows[1].risk ELSE "low"
    BY <1>5 DEF previewRisk
  <2>2. CASE n = 0
    <3>1. approvalRows = <<>>
      <4> DEFINE row(i) == [id |-> buildApprovalQueue[i].id, risk |-> buildApprovalQueue[i].risk,
                            token |-> <<"APPROVED", buildApprovalQueue[i].id>>,
                            status |-> IF buildApprovalQueue[i].status = "informational"
                                       THEN "approved" ELSE "pending"]
      <4>1. approvalRows = [i \in DOMAIN buildApprovalQueue |-> row(i)]
        BY DEF approvalRows
      <4> HIDE DEF row
      <4>2. DOMAIN buildApprovalQueue = {}
        BY <2>2 DEF buildApprovalQueue
      <4> QED BY <4>1, <4>2
    <3> QED BY <1>5, <2>1, <3>1
  <2>3. CASE n # 0
    <3>1. 1 \in 1 .. n
      BY <1>1, <2>3
    <3>2. approvalRows[1].risk = "low"
      BY <1>2, <1>3, <1>5, <3>1
    <3> QED BY <1>5, <2>1, <3>2
  <2> QED BY <2>2, <2>3
<1> QED BY <1>4, <1>5

(* Whoever looks at the approvals sees the same.                           *)
LEMMA ApprovalsAgree == PanelTypeOK => ApprovalViewsAgree
<1> SUFFICES ASSUME PanelTypeOK PROVE ApprovalViewsAgree
  OBVIOUS
<1> DEFINE notes == Of(buildWebNotificationCenter, "approval")
           risky == \E i \in pending : approvalRows[i].risk = "high"
<1>1. pending = {} => notes = {}
  BY NotificationsAre
<1>2. pending # {} => notes = {[kind |-> "approval", of |-> "rows",
                               severity |-> IF risky THEN "critical" ELSE "warning"]}
  BY NotificationsAre
<1> HIDE DEF notes
<1>3. pending # {} <=> notes # {}
  BY <1>1, <1>2
<1>4. risky <=> \E m \in notes : m.severity = "critical"
  <2>1. CASE pending = {}
    BY <1>1, <2>1
  <2>2. CASE pending # {} /\ risky
    <3>1. notes = {[kind |-> "approval", of |-> "rows", severity |-> "critical"]}
      BY <1>2, <2>2
    <3> QED BY <2>2, <3>1
  <2>3. CASE pending # {} /\ ~ risky
    <3>1. notes = {[kind |-> "approval", of |-> "rows", severity |-> "warning"]}
      BY <1>2, <2>3
    <3> QED BY <2>3, <3>1
  <2> QED BY <2>1, <2>2, <2>3
<1>5. "approval-diff-preview" \in workbenchAttention <=> risky
  BY PreviewIs DEF workbenchAttention
<1> HIDE DEF risky
<1> QED BY <1>3, <1>4, <1>5, PendingAre, AlertsAre, FailuresAre DEF ApprovalViewsAgree, notes

(* Ready is said when there is nothing to be said.                         *)
LEMMA ReadyIsReady == PanelTypeOK => ReadyMeansReady
<1> SUFFICES ASSUME PanelTypeOK PROVE ReadyMeansReady
  OBVIOUS
<1> DEFINE quiet == blocked = {} /\ ~ requiresOperator /\ ~ rotationRequired
<1>1. buildProductionExecutionReadiness = "ready" <=> quiet
  BY DEF buildProductionExecutionReadiness
<1>2. nextActions = {} <=> quiet
  BY DEF nextActions
<1>3. ASSUME quiet
      PROVE  /\ Of(buildWebNotificationCenter, "credential") = {}
             /\ Of(buildWebNotificationCenter, "approval") = {}
             /\ alerts \subseteq {"all-clear", "ci-artifacts-found", "failed-runs"}
             /\ \A p \in Connectors : runChannelAdapterSafetyChain(p, FALSE).steps = 4
  <2>1. Bare = {} /\ pending = {}
    BY <1>3, CardsAre, PendingAre
  <2>2. Of(buildWebNotificationCenter, "credential") = {}
    BY <2>1, NotificationsAre
  <2>3. Of(buildWebNotificationCenter, "approval") = {}
    BY <2>1, NotificationsAre
  <2>4. alerts \subseteq {"all-clear", "ci-artifacts-found", "failed-runs"}
    BY <2>1, AlertsAre
  <2>5. ASSUME NEW p \in Connectors PROVE runChannelAdapterSafetyChain(p, FALSE).steps = 4
    <3>1. credentialPresent(p)
      BY <2>1 DEF Bare, credentialPresent
    <3> QED BY <3>1 DEF runChannelAdapterSafetyChain
  <2> QED BY <2>2, <2>3, <2>4, <2>5
<1> HIDE DEF quiet
<1> QED BY <1>1, <1>2, <1>3 DEF ReadyMeansReady

(* No run is lost, and no failure, however the runs are split.             *)
LEMMA RunsAreKept == DeliveryTypeOK => RunsKept
<1> SUFFICES ASSUME DeliveryTypeOK PROVE RunsKept
  OBVIOUS
<1> DEFINE n == Len(history)
           bad == {i \in DOMAIN history : ~ history[i].ok}
<1>1. history \in Seq(Rows) /\ n \in Nat /\ DOMAIN history = 1 .. n /\ MaxHistory \in Nat
  BY DeliveryAssumption DEF DeliveryTypeOK
<1>2. ASSUME NEW keep \in -1 .. MaxHistory + 1
      PROVE  LET l == runLedger(keep)
                 hotFailures == Cardinality({i \in DOMAIN l.hot : ~ l.hot[i].ok})
             IN  /\ l.archive.totalRuns + Len(l.hot) = n
                 /\ l.archive.failures + hotFailures = failedRuns
  <2> DEFINE s == Floor(n - Floor(keep))
             old == SubSeq(history, 1, s)
             hot == slice(history, s)
             oldBad == {i \in DOMAIN old : ~ old[i].ok}
             hotBad == {i \in DOMAIN hot : ~ hot[i].ok}
  <2>1. s \in 0 .. n
    <3>1. keep \in Int
      BY <1>1
    <3> QED BY <1>1, <3>1, SplitPoint
  <2>2. runLedger(keep) =
          [hot |-> hot, archive |-> [totalRuns |-> Len(old), failures |-> Cardinality(oldBad)]]
    BY DEF runLedger
  <2> HIDE DEF s
  <2>3. /\ old \in Seq(Rows) /\ Len(old) = s
        /\ \A i \in 1 .. s : old[i] = history[i]
        /\ hot \in Seq(Rows) /\ Len(hot) = n - s
        /\ \A i \in 1 .. n - s : hot[i] = history[s + i]
    BY <1>1, <2>1, SplitAt
  <2> HIDE DEF old, hot
  <2>4. DOMAIN old = 1 .. s /\ DOMAIN hot = 1 .. n - s
    BY <1>1, <2>1, <2>3
  <2>5. Splits(n, s, bad, oldBad, hotBad)
    BY <1>1, <2>1, <2>3, <2>4 DEF Splits
  <2>6. failedRuns = Cardinality(oldBad) + Cardinality(hotBad)
    BY <2>5, CountSplit DEF failedRuns
  <2> HIDE DEF oldBad
  <2> QED BY <1>1, <2>1, <2>2, <2>3, <2>6
<1> QED BY <1>2, AlertsAre DEF RunsKept

(* All of it.                                                              *)
LEMMA ViewsOfThePanelAgree == DeliveryTypeOK /\ PanelTypeOK => PanelViewsAgree
BY CredentialsAgree, ApprovalsAgree, ReadyIsReady, RunsAreKept DEF PanelViewsAgree

-----------------------------------------------------------------------------
(* The release and the panel together                                      *)

OperationsVars == <<release, panel>>

OperationsInit == ReleaseInit /\ PanelInit

OperationsNext ==
  \/ ReleaseNext /\ UNCHANGED panel
  \/ PanelNext /\ UNCHANGED release

OperationsSpec == OperationsInit /\ [][OperationsNext]_OperationsVars

OperationsTypeOK == DeliveryTypeOK /\ PanelTypeOK

LEMMA OperationsTypesKept ==
  /\ OperationsInit => OperationsTypeOK
  /\ OperationsTypeOK /\ [OperationsNext]_OperationsVars => OperationsTypeOK'
<1>1. OperationsInit => OperationsTypeOK
  BY DeliveryTypesInit, PanelTypesInit DEF OperationsInit, OperationsTypeOK
<1>2. [OperationsNext]_OperationsVars => [ReleaseNext]_release /\ [PanelNext]_panel
  BY DEF OperationsNext, OperationsVars
<1>3. OperationsTypeOK /\ [OperationsNext]_OperationsVars => OperationsTypeOK'
  BY <1>2, DeliveryTypesNext, PanelTypesNext DEF OperationsTypeOK
<1> QED
  BY <1>1, <1>3

(* Gates, evidence, history, credentials, actions and CI artifacts keep    *)
(* their types, and no action is proposed twice, whatever is run, checked, *)
(* proposed or withdrawn, and in whatever order.                           *)
THEOREM OperationsTypeCorrect == OperationsSpec => []OperationsTypeOK
<1> QED
  BY OperationsTypesKept, PTL DEF OperationsSpec

(* A plan is executable only while every gate, every job and the web pass, *)
(* for the proposal that was confirmed and along the whole path; and plan, *)
(* dashboard, checklist and button agree about it.                         *)
THEOREM ForwardOnlyAfterGates == OperationsSpec => []ForwardOnlyWhenAllPass
<1>1. OperationsTypeOK => ForwardOnlyWhenAllPass
  BY ForwardWhenAllPass DEF OperationsTypeOK
<1> QED
  BY <1>1, OperationsTypeCorrect, PTL

(* However many deliveries there were and however many rows are kept, a    *)
(* compacted history and its archive are the whole of it: its rows, its    *)
(* failures and its last commit that could be delivered.                   *)
THEOREM HistoryIsNeverLost == OperationsSpec => []HistoryKept
<1>1. OperationsTypeOK => HistoryKept
  BY HistoryIsKept DEF OperationsTypeOK
<1> QED
  BY <1>1, OperationsTypeCorrect, PTL

(* Whatever is proposed and whatever is typed, safe-execute runs nothing   *)
(* but an action of low risk that is proposed at the time.                 *)
THEOREM OnlyHarmlessIsExecuted == OperationsSpec => []ExecutesOnlyHarmless
<1>1. OperationsTypeOK => ExecutesOnlyHarmless
  BY ExecutesHarmless DEF OperationsTypeOK
<1> QED
  BY <1>1, OperationsTypeCorrect, PTL

(* Every view of the panel tells the same of the credentials, of the       *)
(* approvals, of readiness and of the runs.                                *)
THEOREM PanelTellsOneStory == OperationsSpec => []PanelViewsAgree
<1>1. OperationsTypeOK => PanelViewsAgree
  BY ViewsOfThePanelAgree DEF OperationsTypeOK
<1> QED
  BY <1>1, OperationsTypeCorrect, PTL
===============================================================================
