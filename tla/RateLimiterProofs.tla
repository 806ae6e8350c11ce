--------------------------- MODULE RateLimiterProofs ---------------------------
(***************************************************************************)
(* The rate limiter, for every set of keys and every window and budget:    *)
(* the sweep changes no verdict, no key gets more than two budgets in a    *)
(* window, and floods lock nobody out.  The Worker's shards keep their     *)
(* budgets by the same argument (the last section).                        *)
(***************************************************************************)
EXTENDS MCRateLimits, FiniteSetTheorems, TLAPS

WindowTable == [Key -> Windows]

(* Counting a request yields a window. *)
LEMMA CountedType ==
    ASSUME NEW table \in WindowTable, NEW k \in Key, NEW t \in Nat
    PROVE  Current(table, k, t) \in Windows /\ Counted(table, k, t) \in Windows
  BY DEF Current, Counted, WindowTable, Windows

(* Pruning changes no current window. *)
LEMMA PruneKeepsCurrent ==
    ASSUME NEW table \in WindowTable, NEW t \in Nat
    PROVE  /\ Prune(table, t) \in WindowTable
           /\ \A k \in Key : Current(Prune(table, t), k, t) = Current(table, k, t)
  BY RateTypes DEF Prune, Current, Running, WindowTable, Windows, NoWindow

(* Two tables that agree now agree when time passes. *)
LEMMA AgreeLater ==
    ASSUME NEW a \in WindowTable, NEW b \in WindowTable, NEW k \in Key, NEW t \in Nat,
           Current(a, k, t) = Current(b, k, t)
    PROVE  Current(a, k, t + 1) = Current(b, k, t + 1)
  <1>1. Window \in Nat /\ a[k] \in Windows /\ b[k] \in Windows
    BY RateTypes DEF WindowTable
  <1> DEFINE runs(w) == w.count > 0 /\ Running(w, t)
  <1>2. CASE runs(a[k]) /\ runs(b[k])
    BY <1>1, <1>2 DEF Current
  <1>3. CASE ~runs(a[k]) /\ ~runs(b[k])
    BY <1>1, <1>3 DEF Current, Running, Windows
  <1>4. CASE runs(a[k]) /\ ~runs(b[k])
    BY <1>1, <1>4 DEF Current, Windows
  <1>5. CASE ~runs(a[k]) /\ runs(b[k])
    BY <1>1, <1>5 DEF Current, Windows
  <1>. QED
    BY <1>2, <1>3, <1>4, <1>5

-----------------------------------------------------------------------------
(* A key's log of admissions, and the window that counts the latest of them. *)

(* The window that a request at time t is counted in, and what it becomes. *)
CurrentOf(w, t) == IF w.count > 0 /\ Running(w, t) THEN w ELSE [start |-> t, count |-> 0]
CountedIn(w, t) == [start |-> CurrentOf(w, t).start, count |-> CurrentOf(w, t).count + 1]

(* The admissions since lo, those of the Window that ends before hi, and those of the Window from t. *)
From(log, lo) == {i \in DOMAIN log : log[i] >= lo}
Before(log, hi) == {i \in DOMAIN log : log[i] < hi /\ hi < log[i] + Window}
Span(log, t) == {i \in DOMAIN log : t <= log[i] /\ log[i] < t + Window}

(* The window counts all admissions since its start, which follow each other within its length;
   the Window before it saw no more than one budget, so no Window sees more than two. *)
LogInv(log, w, t, budget) ==
    /\ w.start <= t /\ w.count <= budget
    /\ w.count = 0 => log = << >>
    /\ \A i \in DOMAIN log : log[i] <= t /\ (log[i] >= w.start => log[i] < w.start + Window)
    /\ Cardinality(From(log, w.start)) <= w.count
    /\ Cardinality(Before(log, w.start)) <= budget
    /\ \A u \in Nat : Cardinality(Span(log, u)) <= 2 * budget

(* A window is backed by admissions: it counts nothing that did not happen. *)
Backed(log, w, t) ==
    /\ w.start <= t
    /\ w.count > 0 => Cardinality(From(log, w.start)) >= w.count

(* Sets of indices of a log are finite. *)
LEMMA IndexSets ==
    ASSUME NEW n \in Nat, NEW S, S \subseteq 1..n
    PROVE  IsFiniteSet(S) /\ Cardinality(S) \in Nat
  <1>1. IsFiniteSet(1..n)
    BY FS_Interval
  <1>. QED
    BY <1>1, FS_Subset, FS_CardinalityType

LEMMA SmallerIndexSet ==
    ASSUME NEW n \in Nat, NEW T, T \subseteq 1..n, NEW S, S \subseteq T
    PROVE  Cardinality(S) <= Cardinality(T)
  BY IndexSets, FS_Subset

LEMMA OneMoreIndex ==
    ASSUME NEW n \in Nat, NEW S, S \subseteq 1..n
    PROVE  Cardinality(S \cup {n + 1}) = Cardinality(S) + 1
  <1>1. n + 1 \notin 1..n
    OBVIOUS
  <1>2. n + 1 \notin S /\ IsFiniteSet(S)
    BY <1>1, IndexSets
  <1>. QED
    BY <1>2, FS_AddElement

LEMMA TwoIndexSets ==
    ASSUME NEW n \in Nat, NEW S, S \subseteq 1..n, NEW T, T \subseteq 1..n
    PROVE  Cardinality(S \cup T) <= Cardinality(S) + Cardinality(T)
  <1>1. S \cap T \subseteq 1..n
    OBVIOUS
  <1>2. IsFiniteSet(S) /\ IsFiniteSet(T) /\ Cardinality(S \cap T) \in Nat
        /\ Cardinality(S) \in Nat /\ Cardinality(T) \in Nat
    BY <1>1, IndexSets
  <1>3. Cardinality(S \cup T) = Cardinality(S) + Cardinality(T) - Cardinality(S \cap T)
    BY <1>2, FS_Union
  <1>. QED
    BY <1>2, <1>3

(* Appending an admission. *)
LEMMA AppendFacts ==
    ASSUME NEW log \in Seq(Nat), NEW t \in Nat
    PROVE  /\ Append(log, t) \in Seq(Nat) /\ Len(log) \in Nat
           /\ DOMAIN log = 1..Len(log) /\ DOMAIN Append(log, t) = 1..(Len(log) + 1)
           /\ \A i \in DOMAIN log : Append(log, t)[i] = log[i] /\ log[i] \in Nat
           /\ Append(log, t)[Len(log) + 1] = t
  OBVIOUS

(* An admission that the budget allows keeps every Window within two budgets. *)
LEMMA AdmitKeepsLog ==
    ASSUME NEW log \in Seq(Nat), NEW w \in Windows, NEW t \in Nat, NEW budget \in Nat,
           LogInv(log, w, t, budget), CurrentOf(w, t).count < budget
    PROVE  LogInv(Append(log, t), CountedIn(w, t), t, budget)
  <1> DEFINE n == Len(log)
             new == Append(log, t)
             v == CountedIn(w, t)
             c == CurrentOf(w, t)
  <1>1. /\ n \in Nat /\ DOMAIN log = 1..n /\ DOMAIN new = 1..(n + 1)
        /\ \A i \in 1..n : new[i] = log[i] /\ log[i] \in Nat
        /\ new[n + 1] = t
    BY AppendFacts
  <1>2. /\ Window \in Nat /\ Window > 0 /\ w.start \in Nat /\ w.count \in Nat
        /\ c \in Windows /\ v.start = c.start /\ v.count = c.count + 1 /\ v \in Windows
    BY RateTypes DEF Windows, CurrentOf, CountedIn
  <1> HIDE DEF n, new, v, c
  <1>3. /\ From(log, w.start) \subseteq 1..n /\ Before(log, w.start) \subseteq 1..n
        /\ \A u \in Nat : Span(log, u) \subseteq 1..n
        /\ From(new, v.start) \subseteq 1..(n + 1) /\ Before(new, v.start) \subseteq 1..(n + 1)
        /\ \A u \in Nat : Span(new, u) \subseteq 1..(n + 1)
    BY <1>1 DEF From, Before, Span
  <1>4. \A i \in 1..n : log[i] <= t /\ (log[i] >= w.start => log[i] < w.start + Window)
    BY <1>1 DEF LogInv
  <1>5. /\ v.start <= t /\ t < v.start + Window
        /\ \A i \in 1..(n + 1) : new[i] <= t /\ (new[i] >= v.start => new[i] < v.start + Window)
        /\ Cardinality(From(new, v.start)) <= v.count
        /\ Cardinality(Before(new, v.start)) <= budget
    <2>1. CASE w.count > 0 /\ Running(w, t)
      <3>1. c = w /\ v.start = w.start /\ v.count = w.count + 1 /\ w.start <= t /\ t < w.start + Window
        BY <2>1, <1>2 DEF CurrentOf, Running, LogInv, c
      <3>2. From(new, w.start) = From(log, w.start) \cup {n + 1}
        BY <1>1, <1>2, <3>1 DEF From
      <3>3. Before(new, w.start) = Before(log, w.start)
        <4>1. ~(new[n + 1] < w.start)
          BY <1>1, <1>2, <3>1
        <4>2. \A i : i \in 1..(n + 1) <=> i \in 1..n \/ i = n + 1
          BY <1>1
        <4>3. \A i : i \in Before(new, w.start) <=> i \in Before(log, w.start)
          BY <1>1, <4>1, <4>2, Zenon DEF Before
        <4>. QED
          BY <4>3, Zenon DEF Before
      <3>4. Cardinality(From(new, w.start)) = Cardinality(From(log, w.start)) + 1
        BY <3>2, <1>1, <1>3, OneMoreIndex
      <3>5. Cardinality(From(log, w.start)) <= w.count /\ Cardinality(From(log, w.start)) \in Nat
        BY <1>1, <1>3, IndexSets DEF LogInv
      <3>6. Cardinality(From(new, v.start)) <= v.count /\ Cardinality(Before(new, v.start)) <= budget
        BY <3>1, <3>3, <3>4, <3>5, <1>2 DEF LogInv
      <3>7. \A i \in 1..(n + 1) : i \in 1..n \/ i = n + 1
        BY <1>1
      <3>8. \A i \in 1..(n + 1) : new[i] <= t /\ (new[i] >= v.start => new[i] < v.start + Window)
        BY <3>1, <3>7, <1>1, <1>2, <1>4
      <3>. QED
        BY <3>1, <3>6, <3>8
    <2>2. CASE ~(w.count > 0 /\ Running(w, t))
      <3>1. v.start = t /\ v.count = 1
        BY <2>2, <1>2 DEF CurrentOf, c
      <3>2. w.count = 0 => n = 0
        BY DEF LogInv, n
      <3>3. w.count # 0 => w.start + Window <= t
        BY <2>2, <1>2 DEF Running, LogInv
      <3>4. \A i \in 1..n : log[i] < t
        <4>1. CASE w.count = 0
          BY <4>1, <3>2
        <4>2. CASE w.count # 0
          <5> SUFFICES ASSUME NEW i \in 1..n PROVE log[i] < t
            OBVIOUS
          <5>1. log[i] \in Nat /\ (log[i] >= w.start => log[i] < w.start + Window)
            BY <1>1, <1>4
          <5>. QED
            BY <5>1, <4>2, <3>3, <1>2
        <4>. QED
          BY <4>1, <4>2
      <3>5. From(new, t) = {} \cup {n + 1}
        BY <1>1, <3>4 DEF From
      <3>6. Cardinality(From(new, t)) = 1
        BY <3>5, FS_Singleton
      <3>7. Before(new, t) \subseteq From(log, w.start)
        <4>1. CASE w.count = 0
          BY <4>1, <3>2, <1>1 DEF Before
        <4>2. CASE w.count # 0
          <5> SUFFICES ASSUME NEW i \in Before(new, t) PROVE i \in From(log, w.start)
            OBVIOUS
          <5>1. i \in 1..(n + 1) /\ new[i] < t /\ t < new[i] + Window
            BY <1>1 DEF Before
          <5>2. i \in 1..n
            BY <5>1, <1>1
          <5>. QED
            BY <5>1, <5>2, <4>2, <3>3, <1>1, <1>2 DEF From
        <4>. QED
          BY <4>1, <4>2
      <3>8. Cardinality(Before(new, t)) <= budget
        <4>1. Before(new, t) \subseteq 1..n
          BY <3>7, <1>3
        <4>2. /\ Cardinality(Before(new, t)) <= Cardinality(From(log, w.start))
              /\ Cardinality(Before(new, t)) \in Nat /\ Cardinality(From(log, w.start)) \in Nat
          BY <3>7, <4>1, <1>1, <1>3, SmallerIndexSet, IndexSets
        <4>. QED
          BY <4>2, <1>2 DEF LogInv
      <3>9. \A i \in 1..(n + 1) : new[i] <= t /\ (new[i] >= t => new[i] < t + Window)
        BY <3>4, <1>1, <1>2
      <3>. QED
        BY <3>1, <3>6, <3>8, <3>9, <1>2
    <2>. QED
      BY <2>1, <2>2
  <1>6. ASSUME NEW u \in Nat PROVE Cardinality(Span(new, u)) <= 2 * budget
    <2>1. CASE u <= t /\ t < u + Window
      <3>1. Span(new, u) \subseteq From(new, v.start) \cup Before(new, v.start)
        <4> SUFFICES ASSUME NEW i \in 1..(n + 1), u <= new[i], ~(new[i] >= v.start)
                     PROVE  new[i] < v.start /\ v.start < new[i] + Window
          BY <1>1 DEF Span, From, Before
        <4>1. i \in 1..n \/ i = n + 1
          BY <1>1
        <4>2. new[i] \in Nat /\ v.start \in Nat
          BY <4>1, <1>1, <1>2 DEF Windows
        <4>. QED
          BY <4>2, <2>1, <1>2, <1>5
      <3>2. From(new, v.start) \cup Before(new, v.start) \subseteq 1..(n + 1) /\ n + 1 \in Nat
        BY <1>1, <1>3
      <3>3. Cardinality(Span(new, u)) <= Cardinality(From(new, v.start) \cup Before(new, v.start))
        BY <3>1, <3>2, SmallerIndexSet
      <3>4. Cardinality(From(new, v.start) \cup Before(new, v.start))
            <= Cardinality(From(new, v.start)) + Cardinality(Before(new, v.start))
        BY <3>2, <1>3, TwoIndexSets
      <3>5. /\ Cardinality(Span(new, u)) \in Nat /\ Cardinality(From(new, v.start)) \in Nat
            /\ Cardinality(Before(new, v.start)) \in Nat
            /\ Cardinality(From(new, v.start) \cup Before(new, v.start)) \in Nat
        BY <3>2, <1>3, IndexSets
      <3>6. v.count <= budget
        BY <1>2 DEF Windows, c
      <3>7. Cardinality(From(new, v.start)) <= v.count /\ Cardinality(Before(new, v.start)) <= budget
        BY <1>5
      <3>8. v.count \in Nat
        BY <1>2 DEF Windows
      <3>. QED
        BY <3>3, <3>4, <3>5, <3>6, <3>7, <3>8
    <2>2. CASE ~(u <= t /\ t < u + Window)
      <3>1. Span(new, u) = Span(log, u)
        BY <2>2, <1>1, <1>2 DEF Span
      <3>. QED
        BY <3>1 DEF LogInv
    <2>. QED
      BY <2>1, <2>2
  <1>7. v.count <= budget /\ v.count # 0
    BY <1>2 DEF Windows, c
  <1>. QED
    BY <1>1, <1>5, <1>6, <1>7 DEF LogInv, n, new, v

(* The counted window is backed by the longer log; an older window stays backed. *)
LEMMA AdmitKeepsBacked ==
    ASSUME NEW log \in Seq(Nat), NEW w \in Windows, NEW t \in Nat, Backed(log, w, t)
    PROVE  Backed(Append(log, t), CountedIn(w, t), t)
  <1> DEFINE n == Len(log)
             new == Append(log, t)
             v == CountedIn(w, t)
  <1>1. /\ n \in Nat /\ DOMAIN log = 1..n /\ DOMAIN new = 1..(n + 1)
        /\ \A i \in 1..n : new[i] = log[i] /\ log[i] \in Nat
        /\ new[n + 1] = t
    BY AppendFacts
  <1>2. w.start \in Nat /\ w.count \in Nat
    BY DEF Windows
  <1>3. CASE w.count > 0 /\ Running(w, t)
    <2>1. v.start = w.start /\ v.count = w.count + 1 /\ w.start <= t
      BY <1>3 DEF CountedIn, CurrentOf, Backed
    <2>2. From(new, w.start) = From(log, w.start) \cup {n + 1} /\ From(log, w.start) \subseteq 1..n
      BY <1>1, <2>1 DEF From
    <2>3. Cardinality(From(new, w.start)) = Cardinality(From(log, w.start)) + 1
          /\ Cardinality(From(log, w.start)) \in Nat
      BY <1>1, <2>2, OneMoreIndex, IndexSets
    <2>. QED
      BY <1>2, <1>3, <2>1, <2>3 DEF Backed
  <1>4. CASE ~(w.count > 0 /\ Running(w, t))
    <2>1. v.start = t /\ v.count = 1
      BY <1>4 DEF CountedIn, CurrentOf
    <2>2. {n + 1} \subseteq From(new, t) /\ From(new, t) \subseteq 1..(n + 1) /\ n + 1 \in Nat
      BY <1>1 DEF From
    <2>3. Cardinality({n + 1}) <= Cardinality(From(new, t)) /\ Cardinality({n + 1}) = 1
      BY <2>2, SmallerIndexSet, FS_Singleton
    <2>. QED
      BY <2>1, <2>3 DEF Backed
  <1>. QED
    BY <1>3, <1>4

(* While a table's keys fit, the windows that were never swept keep its logs. *)
BudgetFor(t) ==
    CASE t = "ip"      -> IpBudget
      [] t = "preauth" -> PreauthBudget
      [] t = "address" -> AddressBudget

LogsKept ==
    \A t \in Tables : Fits(t) =>
        \A k \in Key : LogInv(admitted[t][k], unswept[t][k], now, BudgetFor(t))

(* Whatever sweeps and evictions leave is backed by admissions. *)
RowsBacked == \A t \in Tables, k \in Key : Backed(admitted[t][k], rows[t][k], now)

LEMMA BudgetFacts ==
    /\ \A t \in Tables : BudgetFor(t) \in Nat
    /\ \A s \in Scope : TableOf(s) \in Tables /\ BudgetOf(s) = BudgetFor(TableOf(s))
  BY RateTypes DEF Tables, BudgetFor, Scope, TableOf, BudgetOf

(* Room is made by dropping windows. *)
LEMMA RoomFacts ==
    ASSUME NEW table \in WindowTable, NEW k \in Key, NEW t \in Nat, NEW room \in MakeRoom(table, k, t)
    PROVE  /\ room \in WindowTable
           /\ \A j \in Key : room[j] = table[j] \/ room[j] = NoWindow
  <1>1. Prune(table, t) \in WindowTable
    BY PruneKeepsCurrent
  <1>2. \A j \in Key : Prune(table, t)[j] = table[j] \/ Prune(table, t)[j] = NoWindow
    BY DEF Prune, WindowTable
  <1>3. \/ room = table
        \/ room = Prune(table, t)
        \/ \E v \in Live(Prune(table, t)) : room = [Prune(table, t) EXCEPT ![v] = NoWindow]
    BY DEF MakeRoom
  <1>4. NoWindow \in Windows
    BY DEF NoWindow, Windows
  <1>. QED
    BY <1>1, <1>2, <1>3, <1>4 DEF WindowTable

(* What an admission does to one table, and to nothing else. *)
LEMMA AdmitFacts ==
    ASSUME TypeOK, NEW s \in Scope, NEW k \in Key, Admit(s, k)
    PROVE  /\ TypeOK' /\ now' = now
           /\ \A u \in Tables, j \in Key : u # TableOf(s) \/ j # k =>
                 /\ admitted'[u][j] = admitted[u][j] /\ unswept'[u][j] = unswept[u][j]
                 /\ rows'[u][j] = rows[u][j] \/ rows'[u][j] = NoWindow
           /\ admitted'[TableOf(s)][k] = Append(admitted[TableOf(s)][k], now)
           /\ unswept'[TableOf(s)][k] = CountedIn(unswept[TableOf(s)][k], now)
           /\ rows'[TableOf(s)][k] = CountedIn(rows[TableOf(s)][k], now)
  <1> DEFINE t == TableOf(s)
  <1>1. /\ t \in Tables /\ rows[t] \in WindowTable /\ unswept[t] \in WindowTable /\ now \in Nat
        /\ admitted[t] \in [Key -> Seq(Nat)]
    BY BudgetFacts DEF TypeOK, WindowTable
  <1>2. /\ Counted(rows[t], k, now) = CountedIn(rows[t][k], now)
        /\ Counted(unswept[t], k, now) = CountedIn(unswept[t][k], now)
    BY DEF Counted, Current, CountedIn, CurrentOf
  <1>3. Counted(rows[t], k, now) \in Windows /\ Counted(unswept[t], k, now) \in Windows
    BY <1>1, CountedType
  <1>4. PICK room \in MakeRoom(rows[t], k, now) :
           rows' = [rows EXCEPT ![t] = [room EXCEPT ![k] = Counted(rows[t], k, now)]]
    BY DEF Admit
  <1>5. room \in WindowTable /\ \A j \in Key : room[j] = rows[t][j] \/ room[j] = NoWindow
    BY <1>1, <1>4, RoomFacts
  <1>6. /\ unswept' = [unswept EXCEPT ![t][k] = Counted(unswept[t], k, now)]
        /\ admitted' = [admitted EXCEPT ![t][k] = Append(admitted[t][k], now)]
        /\ now' = now
    BY DEF Admit
  <1>7. Append(admitted[t][k], now) \in Seq(Nat)
    BY <1>1
  <1>8. /\ rows' \in [Tables -> WindowTable]
        /\ rows'[t][k] = Counted(rows[t], k, now)
        /\ \A u \in Tables, j \in Key : u # t \/ j # k => rows'[u][j] = rows[u][j] \/ rows'[u][j] = NoWindow
    BY <1>1, <1>3, <1>4, <1>5 DEF TypeOK, WindowTable
  <1>9. /\ unswept' \in [Tables -> WindowTable]
        /\ unswept'[t][k] = Counted(unswept[t], k, now)
        /\ \A u \in Tables, j \in Key : u # t \/ j # k => unswept'[u][j] = unswept[u][j]
    BY <1>1, <1>3, <1>6 DEF TypeOK, WindowTable
  <1>10. /\ admitted' \in [Tables -> [Key -> Seq(Nat)]]
         /\ admitted'[t][k] = Append(admitted[t][k], now)
         /\ \A u \in Tables, j \in Key : u # t \/ j # k => admitted'[u][j] = admitted[u][j]
    BY <1>1, <1>6, <1>7 DEF TypeOK
  <1>. QED
    BY <1>2, <1>6, <1>8, <1>9, <1>10 DEF TypeOK, WindowTable

(* Windows stay typed. *)
LEMMA TypeStep ==
    ASSUME TypeOK, [Next]_vars
    PROVE  TypeOK'
  <1>1. CASE Sweep
    <2>1. \A t \in Tables : Prune(rows[t], now) \in WindowTable
      BY PruneKeepsCurrent DEF TypeOK, WindowTable
    <2>. QED
      BY <1>1, <2>1 DEF Sweep, TypeOK, WindowTable
  <1>2. CASE Tick
    BY <1>2 DEF Tick, TypeOK
  <1>3. CASE UNCHANGED vars
    BY <1>3 DEF vars, TypeOK
  <1>. QED
    BY <1>1, <1>2, <1>3, AdmitFacts DEF Next, Refuse, AdmitUnlimited

LEMMA TypeInit == Init => TypeOK
  BY DEF Init, TypeOK, Windows, NoWindow

(* The keys a table has ever admitted are finitely many, and hold all its windows. *)
SeenInv ==
    \A t \in Tables : IsFiniteSet(Live(unswept[t])) /\ Live(rows[t]) \subseteq Live(unswept[t])

(* What an admission does to the sets of keys. *)
LEMMA AdmitSeen ==
    ASSUME TypeOK, SeenInv, NEW s \in Scope, NEW k \in Key, Admit(s, k)
    PROVE  /\ Live(unswept'[TableOf(s)]) = Live(unswept[TableOf(s)]) \cup {k}
           /\ Live(rows'[TableOf(s)]) \subseteq Live(rows[TableOf(s)]) \cup {k}
           /\ \A u \in Tables \ {TableOf(s)} : unswept'[u] = unswept[u] /\ rows'[u] = rows[u]
  <1> DEFINE t == TableOf(s)
  <1>1. /\ t \in Tables /\ TypeOK' /\ unswept'[t][k] = CountedIn(unswept[t][k], now)
        /\ \A j \in Key \ {k} : /\ unswept'[t][j] = unswept[t][j]
                                /\ rows'[t][j] = rows[t][j] \/ rows'[t][j] = NoWindow
    BY AdmitFacts, BudgetFacts
  <1>2. unswept[t] \in WindowTable /\ rows[t] \in WindowTable /\ unswept'[t] \in WindowTable /\ rows'[t] \in WindowTable
    BY <1>1 DEF TypeOK, WindowTable
  <1>3. unswept'[t][k].count > 0
    BY <1>1, <1>2 DEF CountedIn, CurrentOf, WindowTable, Windows
  <1>4. Live(unswept'[t]) = Live(unswept[t]) \cup {k} /\ Live(rows'[t]) \subseteq Live(rows[t]) \cup {k}
    BY <1>1, <1>2, <1>3 DEF Live, WindowTable, NoWindow
  <1>5. \A u \in Tables \ {t} : unswept'[u] = unswept[u] /\ rows'[u] = rows[u]
    BY <1>1 DEF Admit, TypeOK
  <1>. QED
    BY <1>4, <1>5

(* Keys are never forgotten: a table whose keys fit always had room for them. *)
LEMMA SeenStep ==
    ASSUME TypeOK, SeenInv, [Next]_vars
    PROVE  SeenInv' /\ \A t \in Tables : Fits(t)' => Fits(t)
  <1>0. Capacity \in Nat
    BY RateTypes DEF Capacity
  <1> SUFFICES ASSUME NEW u \in Tables
               PROVE  /\ IsFiniteSet(Live(unswept'[u])) /\ Live(rows'[u]) \subseteq Live(unswept'[u])
                      /\ Fits(u)' => Fits(u)
    BY DEF SeenInv
  <1>1. IsFiniteSet(Live(unswept[u])) /\ Live(rows[u]) \subseteq Live(unswept[u])
    BY DEF SeenInv
  <1>2. ASSUME NEW s \in Scope, NEW k \in Key, Admit(s, k), u = TableOf(s)
        PROVE  /\ IsFiniteSet(Live(unswept'[u])) /\ Live(rows'[u]) \subseteq Live(unswept'[u])
               /\ Fits(u)' => Fits(u)
    <2>1. Live(unswept'[u]) = Live(unswept[u]) \cup {k} /\ Live(rows'[u]) \subseteq Live(rows[u]) \cup {k}
      BY <1>2, AdmitSeen
    <2>2. IsFiniteSet(Live(unswept'[u]))
      BY <1>1, <2>1, FS_AddElement
    <2>3. /\ Cardinality(Live(unswept[u])) <= Cardinality(Live(unswept'[u]))
          /\ Cardinality(Live(unswept[u])) \in Nat /\ Cardinality(Live(unswept'[u])) \in Nat
      BY <2>1, <2>2, FS_Subset, FS_CardinalityType
    <2>. QED
      BY <1>0, <1>1, <2>1, <2>2, <2>3 DEF Fits
  <1>3. ASSUME NEW s \in Scope, NEW k \in Key, Admit(s, k), u # TableOf(s)
        PROVE  unswept'[u] = unswept[u] /\ rows'[u] = rows[u]
    BY <1>3, AdmitSeen
  <1>4. CASE Sweep
    <2>1. Live(rows'[u]) \subseteq Live(rows[u])
      BY <1>4 DEF Sweep, Live, Prune, TypeOK, NoWindow
    <2>. QED
      BY <1>1, <1>4, <2>1 DEF Sweep, Fits
  <1>5. CASE UNCHANGED <<rows, unswept>>
    BY <1>1, <1>5 DEF Fits
  <1>. QED
    BY <1>1, <1>2, <1>3, <1>4, <1>5 DEF Next, Refuse, AdmitUnlimited, Tick, vars, Fits

(* While the keys fit no window makes room for another. *)
LEMMA NoEviction ==
    ASSUME TypeOK, SeenInv, NEW s \in Scope, NEW k \in Key, Admit(s, k), Fits(TableOf(s))'
    PROVE  MakeRoom(rows[TableOf(s)], k, now) = {rows[TableOf(s)]}
  <1> DEFINE t == TableOf(s)
             seen == Live(unswept'[t])
  <1>1. /\ t \in Tables /\ IsFiniteSet(seen) /\ k \in seen /\ Live(rows[t]) \subseteq seen
        /\ Cardinality(seen) <= Capacity
    BY BudgetFacts, AdmitSeen, SeenStep DEF SeenInv, Next, Fits
  <1>2. CASE rows[t][k].count > 0
    BY <1>2 DEF MakeRoom
  <1>3. CASE ~(rows[t][k].count > 0)
    <2>1. Live(rows[t]) \subseteq seen \ {k}
      BY <1>1, <1>3 DEF Live
    <2>2. IsFiniteSet(seen \ {k}) /\ Cardinality(seen \ {k}) = Cardinality(seen) - 1
      BY <1>1, FS_RemoveElement
    <2>3. /\ Cardinality(Live(rows[t])) <= Cardinality(seen \ {k})
          /\ Cardinality(Live(rows[t])) \in Nat /\ Cardinality(seen) \in Nat
      BY <1>1, <2>1, <2>2, FS_Subset, FS_CardinalityType
    <2>4. Capacity \in Nat
      BY RateTypes DEF Capacity
    <2>5. ~(Cardinality(Live(rows[t])) >= Capacity)
      BY <1>1, <2>2, <2>3, <2>4
    <2>. QED
      BY <2>5 DEF MakeRoom
  <1>. QED
    BY <1>2, <1>3

(* Every step keeps the swept and the unswept tables in agreement. *)
LEMMA SweepStep ==
    ASSUME TypeOK, SeenInv, SweepInvisible, [Next]_vars
    PROVE  SweepInvisible'
  <1>0. now \in Nat /\ rows \in [Tables -> WindowTable] /\ unswept \in [Tables -> WindowTable]
    BY DEF TypeOK, WindowTable
  <1> SUFFICES ASSUME NEW u \in Tables, Fits(u)', NEW j \in Key
               PROVE  Current(rows'[u], j, now') = Current(unswept'[u], j, now')
    BY DEF SweepInvisible
  <1>1. Current(rows[u], j, now) = Current(unswept[u], j, now)
    BY SeenStep DEF SweepInvisible
  <1>2. ASSUME NEW s \in Scope, NEW k \in Key, Admit(s, k), u = TableOf(s)
        PROVE  Current(rows'[u], j, now') = Current(unswept'[u], j, now')
    <2>1. MakeRoom(rows[u], k, now) = {rows[u]}
      BY <1>2, NoEviction
    <2>2. /\ rows' = [rows EXCEPT ![u] = [rows[u] EXCEPT ![k] = Counted(rows[u], k, now)]]
          /\ unswept' = [unswept EXCEPT ![u][k] = Counted(unswept[u], k, now)]
          /\ now' = now
      BY <1>2, <2>1 DEF Admit
    <2>3. Counted(rows[u], k, now) = Counted(unswept[u], k, now)
      BY SeenStep DEF SweepInvisible, Counted
    <2>4. \/ rows'[u][j] = Counted(rows[u], k, now) /\ unswept'[u][j] = Counted(rows[u], k, now)
          \/ rows'[u][j] = rows[u][j] /\ unswept'[u][j] = unswept[u][j]
      BY <1>0, <2>2, <2>3 DEF WindowTable
    <2>. QED
      BY <1>1, <2>2, <2>4 DEF Current
  <1>3. ASSUME NEW s \in Scope, NEW k \in Key, Admit(s, k), u # TableOf(s)
        PROVE  rows'[u] = rows[u] /\ unswept'[u] = unswept[u] /\ now' = now
    BY <1>3, AdmitSeen DEF Admit
  <1>4. CASE Sweep
    <2>1. rows'[u] = Prune(rows[u], now) /\ unswept' = unswept /\ now' = now
      BY <1>4 DEF Sweep
    <2>. QED
      BY <1>0, <1>1, <2>1, PruneKeepsCurrent
  <1>5. CASE Tick
    BY <1>0, <1>1, <1>5, AgreeLater DEF Tick
  <1>6. CASE UNCHANGED vars
    BY <1>1, <1>6 DEF vars
  <1>. QED
    BY <1>1, <1>2, <1>3, <1>4, <1>5, <1>6 DEF Next, Refuse, AdmitUnlimited

(* No key was admitted yet. *)
LEMMA SeenInit == Init => SeenInv /\ SweepInvisible
  <1> SUFFICES ASSUME Init PROVE SeenInv /\ SweepInvisible
    OBVIOUS
  <1>1. \A t \in Tables : Live(unswept[t]) = {} /\ Live(rows[t]) = {} /\ rows[t] = unswept[t]
    BY DEF Init, Live, NoWindow
  <1>. QED
    BY <1>1, FS_EmptySet DEF SeenInv, SweepInvisible

(* "This changes no verdict": while the keys a table has admitted fit into it, sweeping at any
   time changes neither the window nor the count, and so not the answer, for any key. *)
THEOREM SweepChangesNoVerdict == Spec => []SweepInvisible
  <1>1. (TypeOK /\ SeenInv /\ SweepInvisible) /\ [Next]_vars => (TypeOK /\ SeenInv /\ SweepInvisible)'
    BY TypeStep, SeenStep, SweepStep
  <1>. QED
    BY <1>1, TypeInit, SeenInit, PTL DEF Spec

-----------------------------------------------------------------------------
(* Two budgets at most. *)

(* The log grows by what the swept table allows, which is what the log allows. *)
LEMMA LogStep ==
    ASSUME TypeOK, SeenInv, SweepInvisible, LogsKept, [Next]_vars
    PROVE  LogsKept'
  <1> SUFFICES ASSUME NEW u \in Tables, Fits(u)', NEW j \in Key
               PROVE  LogInv(admitted'[u][j], unswept'[u][j], now', BudgetFor(u))
    BY DEF LogsKept
  <1>0. /\ Fits(u) /\ LogInv(admitted[u][j], unswept[u][j], now, BudgetFor(u))
        /\ now \in Nat /\ admitted[u][j] \in Seq(Nat) /\ unswept[u][j] \in Windows
    BY SeenStep DEF LogsKept, TypeOK
  <1>1. ASSUME NEW s \in Scope, NEW k \in Key, Admit(s, k)
        PROVE  LogInv(admitted'[u][j], unswept'[u][j], now', BudgetFor(u))
    <2>1. CASE u = TableOf(s) /\ j = k
      <3>1. BudgetOf(s) = BudgetFor(u) /\ BudgetFor(u) \in Nat
        BY <2>1, BudgetFacts
      <3>2. CurrentOf(unswept[u][k], now) = Current(rows[u], k, now)
        BY <1>0 DEF SweepInvisible, Current, CurrentOf
      <3>3. CurrentOf(unswept[u][k], now).count < BudgetFor(u)
        BY <1>1, <2>1, <3>1, <3>2 DEF Admit, Allowed
      <3>4. LogInv(Append(admitted[u][k], now), CountedIn(unswept[u][k], now), now, BudgetFor(u))
        BY <1>0, <2>1, <3>1, <3>3, AdmitKeepsLog
      <3>. QED
        BY <1>1, <2>1, <3>4, AdmitFacts
    <2>2. CASE u # TableOf(s) \/ j # k
      BY <1>0, <1>1, <2>2, AdmitFacts
    <2>. QED
      BY <2>1, <2>2
  <1>2. CASE Tick
    <2>1. \A i \in DOMAIN admitted[u][j] : admitted[u][j][i] \in Nat
      BY <1>0
    <2>2. LogInv(admitted[u][j], unswept[u][j], now + 1, BudgetFor(u))
      BY <1>0, <2>1 DEF LogInv, Windows
    <2>. QED
      BY <1>2, <2>2 DEF Tick
  <1>3. CASE UNCHANGED <<now, unswept, admitted>>
    BY <1>0, <1>3
  <1>. QED
    BY <1>1, <1>2, <1>3 DEF Next, Refuse, AdmitUnlimited, Sweep, vars

LEMMA EmptyLog ==
    ASSUME NEW budget \in Nat
    PROVE  LogInv(<< >>, NoWindow, 0, budget) /\ Backed(<< >>, NoWindow, 0)
  <1>1. From(<< >>, 0) = {} /\ Before(<< >>, 0) = {} /\ \A u : Span(<< >>, u) = {}
    BY DEF From, Before, Span
  <1>2. Cardinality({}) = 0
    BY FS_EmptySet
  <1>3. NoWindow.start = 0 /\ NoWindow.count = 0 /\ DOMAIN << >> = {}
    BY DEF NoWindow
  <1>4. \A u \in Nat : Cardinality(Span(<< >>, u)) <= 2 * budget
    <2>1. 0 <= 2 * budget
      OBVIOUS
    <2>. QED
      BY <1>1, <1>2, <2>1
  <1>. QED
    BY <1>1, <1>2, <1>3, <1>4, SMTT(30) DEF LogInv, Backed

(* No key gets more than two budgets of any scope in a span of one window, however
   requests, sweeps and the clock interleave, as long as the keys of its table fit into it:
   the limit that `RateTable::check` promises with its fixed windows. *)
THEOREM TwoBudgetsAtMost == Spec => []BurstsBounded
  <1>1. Init => TypeOK /\ LogsKept
    <2> SUFFICES ASSUME Init PROVE LogsKept
      BY TypeInit
    <2>1. \A t \in Tables, k \in Key : admitted[t][k] = << >> /\ unswept[t][k] = NoWindow /\ now = 0
      BY DEF Init
    <2>. QED
      BY <2>1, EmptyLog, BudgetFacts DEF LogsKept
  <1>2. (TypeOK /\ SeenInv /\ SweepInvisible /\ LogsKept) /\ [Next]_vars
            => (TypeOK /\ SeenInv /\ SweepInvisible /\ LogsKept)'
    BY TypeStep, SeenStep, SweepStep, LogStep
  <1>3. TypeOK /\ LogsKept => BurstsBounded
    <2> SUFFICES ASSUME TypeOK, LogsKept, NEW s \in Scope, BudgetOf(s) # 0, Fits(TableOf(s)), NEW k \in Key,
                        NEW i \in DOMAIN admitted[TableOf(s)][k]
                 PROVE  Cardinality({j \in DOMAIN admitted[TableOf(s)][k] :
                                        /\ admitted[TableOf(s)][k][j] >= admitted[TableOf(s)][k][i]
                                        /\ admitted[TableOf(s)][k][j] < admitted[TableOf(s)][k][i] + Window})
                            <= 2 * BudgetOf(s)
      BY DEF BurstsBounded, BurstBounded
    <2> DEFINE log == admitted[TableOf(s)][k]
    <2>1. TableOf(s) \in Tables /\ BudgetOf(s) = BudgetFor(TableOf(s)) /\ log \in Seq(Nat)
      BY BudgetFacts DEF TypeOK
    <2>2. log[i] \in Nat /\ \A j \in DOMAIN log : log[j] \in Nat
      BY <2>1
    <2>3. {j \in DOMAIN log : log[j] >= log[i] /\ log[j] < log[i] + Window} = Span(log, log[i])
      BY <2>2 DEF Span
    <2>. QED
      BY <2>1, <2>2, <2>3 DEF LogsKept, LogInv
  <1>. QED
    BY <1>1, <1>2, <1>3, SeenInit, PTL DEF Spec

-----------------------------------------------------------------------------
(* At the cap. *)

LEMMA BackedStep ==
    ASSUME TypeOK, RowsBacked, [Next]_vars
    PROVE  RowsBacked'
  <1>0. \A log : \A t \in Nat : Backed(log, NoWindow, t)
    BY DEF Backed, NoWindow
  <1>1. ASSUME NEW s \in Scope, NEW k \in Key, Admit(s, k) PROVE RowsBacked'
    <2> DEFINE t == TableOf(s)
    <2>1. t \in Tables /\ now \in Nat /\ admitted[t][k] \in Seq(Nat) /\ rows[t][k] \in Windows
      BY BudgetFacts DEF TypeOK
    <2>2. Backed(Append(admitted[t][k], now), CountedIn(rows[t][k], now), now)
      BY <2>1, AdmitKeepsBacked DEF RowsBacked
    <2> SUFFICES ASSUME NEW u \in Tables, NEW j \in Key
                 PROVE  Backed(admitted'[u][j], rows'[u][j], now')
      BY DEF RowsBacked
    <2>3. CASE u = t /\ j = k
      BY <1>1, <2>2, <2>3, AdmitFacts
    <2>4. CASE u # t \/ j # k
      BY <1>0, <1>1, <2>1, <2>4, AdmitFacts DEF RowsBacked
    <2>. QED
      BY <2>3, <2>4
  <1>2. CASE Tick
    <2>1. \A u \in Tables, j \in Key : rows[u][j].start \in Nat /\ now \in Nat
      BY DEF TypeOK, Windows
    <2>. QED
      BY <1>2, <2>1 DEF Tick, RowsBacked, Backed
  <1>3. CASE Sweep
    <2>1. \A u \in Tables, j \in Key : rows'[u][j] = rows[u][j] \/ rows'[u][j] = NoWindow
      BY <1>3 DEF Sweep, Prune, TypeOK
    <2>2. now \in Nat /\ now' = now /\ admitted' = admitted
      BY <1>3 DEF Sweep, TypeOK
    <2>3. ASSUME NEW u \in Tables, NEW j \in Key PROVE Backed(admitted[u][j], rows'[u][j], now)
      BY <1>0, <2>1, <2>2 DEF RowsBacked
    <2>. QED
      BY <2>2, <2>3 DEF RowsBacked
  <1>4. CASE UNCHANGED vars
    BY <1>4 DEF vars, RowsBacked
  <1>. QED
    BY <1>1, <1>2, <1>3, <1>4 DEF Next, Refuse, AdmitUnlimited

LEMMA BackedIsEarned ==
    ASSUME TypeOK, RowsBacked
    PROVE  RefusalEarned
  <1> SUFFICES ASSUME NEW s \in Scope, NEW k \in Key,
                      ~Allowed(rows[TableOf(s)], k, now, BudgetOf(s))
               PROVE  Cardinality({i \in DOMAIN admitted[TableOf(s)][k] :
                                       admitted[TableOf(s)][k][i] + Window > now}) >= BudgetOf(s)
    BY DEF RefusalEarned
  <1> DEFINE log == admitted[TableOf(s)][k]
             w == rows[TableOf(s)][k]
             recent == {i \in DOMAIN log : log[i] + Window > now}
  <1>1. /\ TableOf(s) \in Tables /\ BudgetOf(s) \in Nat /\ log \in Seq(Nat) /\ w \in Windows
        /\ now \in Nat /\ Window \in Nat
    BY BudgetFacts, RateTypes DEF TypeOK
  <1>2. w.count > 0 /\ Running(w, now) /\ w.count >= BudgetOf(s)
    BY <1>1 DEF Allowed, Current, Windows
  <1>3. Cardinality(From(log, w.start)) >= w.count /\ w.start <= now
    BY <1>1, <1>2 DEF RowsBacked, Backed
  <1>4. From(log, w.start) \subseteq recent /\ recent \subseteq 1..Len(log) /\ Len(log) \in Nat
    <2> HIDE DEF log, w
    <2>1. w.start \in Nat /\ now - w.start < Window
      BY <1>1, <1>2 DEF Running, Windows
    <2>2. DOMAIN log = 1..Len(log) /\ Len(log) \in Nat /\ \A i \in DOMAIN log : log[i] \in Nat
      BY <1>1
    <2>. QED
      BY <1>1, <2>1, <2>2 DEF From
  <1>5. /\ Cardinality(From(log, w.start)) <= Cardinality(recent)
        /\ Cardinality(From(log, w.start)) \in Nat /\ Cardinality(recent) \in Nat
    BY <1>4, SmallerIndexSet, IndexSets
  <1>. QED
    BY <1>1, <1>2, <1>3, <1>5 DEF Windows

Capped(table) == IsFiniteSet(Live(table)) /\ Cardinality(Live(table)) <= Capacity

LEMMA FewerStayCapped ==
    ASSUME NEW a, NEW b, Capped(a), Live(b) \subseteq Live(a)
    PROVE  Capped(b)
  BY FS_Subset, FS_CardinalityType, RateTypes DEF Capped, Capacity

(* A full table drops a window that ends soonest, so counting a key never takes
   it beyond its cap. *)
LEMMA AdmitStaysCapped ==
    ASSUME NEW table \in WindowTable, NEW k \in Key, NEW t \in Nat, NEW w \in Windows,
           Capped(table), NEW room \in MakeRoom(table, k, t)
    PROVE  Capped([room EXCEPT ![k] = w])
  <1> DEFINE pruned == Prune(table, t)
             new == [room EXCEPT ![k] = w]
  <1>0. Capacity \in Nat /\ Capacity > 0
    BY RateTypes DEF Capacity
  <1>1. pruned \in WindowTable /\ room \in WindowTable
    BY PruneKeepsCurrent, RoomFacts
  <1>2. Live(pruned) \subseteq Live(table)
    BY DEF Live, Prune, WindowTable, NoWindow
  <1>3. /\ IsFiniteSet(Live(table)) /\ IsFiniteSet(Live(pruned))
        /\ Cardinality(Live(table)) \in Nat /\ Cardinality(Live(pruned)) \in Nat
        /\ Cardinality(Live(pruned)) <= Capacity
    BY <1>0, <1>2, FewerStayCapped, FS_CardinalityType DEF Capped
  <1>4. Live(new) \subseteq Live(room) \cup {k}
    BY <1>1 DEF Live, WindowTable
  <1>5. CASE table[k].count > 0
    <2>1. room = table /\ k \in Live(table)
      BY <1>5 DEF MakeRoom, Live, WindowTable
    <2>. QED
      BY <1>4, <2>1, FewerStayCapped
  <1>6. CASE ~(table[k].count > 0)
    <2>1. IsFiniteSet(Live(room)) /\ Cardinality(Live(room)) \in Nat /\ Cardinality(Live(room)) < Capacity
      <3>1. CASE ~(Cardinality(Live(table)) >= Capacity)
        BY <3>1, <1>0, <1>3 DEF MakeRoom
      <3>2. CASE Cardinality(Live(table)) >= Capacity /\ ~(Cardinality(Live(pruned)) >= Capacity)
        BY <3>2, <1>0, <1>3, <1>6 DEF MakeRoom
      <3>3. CASE Cardinality(Live(table)) >= Capacity /\ Cardinality(Live(pruned)) >= Capacity
        <4>1. PICK v \in Live(pruned) : room = [pruned EXCEPT ![v] = NoWindow]
          BY <3>3, <1>6 DEF MakeRoom
        <4> HIDE DEF pruned
        <4>2. Live(room) \subseteq Live(pruned) \ {v}
          BY <4>1, <1>1 DEF Live, WindowTable, NoWindow
        <4>3. IsFiniteSet(Live(pruned) \ {v}) /\ Cardinality(Live(pruned) \ {v}) = Cardinality(Live(pruned)) - 1
          BY <4>1, <1>3, FS_RemoveElement
        <4>4. IsFiniteSet(Live(room)) /\ Cardinality(Live(room)) <= Cardinality(Live(pruned) \ {v})
              /\ Cardinality(Live(room)) \in Nat
          BY <4>2, <4>3, FS_Subset, FS_CardinalityType
        <4>. QED
          BY <4>3, <4>4, <1>0, <1>3
      <3>. QED
        BY <3>1, <3>2, <3>3
    <2>2. /\ IsFiniteSet(Live(room) \cup {k})
          /\ Cardinality(Live(room) \cup {k}) =
                IF k \in Live(room) THEN Cardinality(Live(room)) ELSE Cardinality(Live(room)) + 1
      BY <2>1, FS_AddElement
    <2>3. IsFiniteSet(Live(new)) /\ Cardinality(Live(new)) <= Cardinality(Live(room) \cup {k})
          /\ Cardinality(Live(new)) \in Nat
      BY <1>4, <2>2, FS_Subset, FS_CardinalityType
    <2>. QED
      BY <1>0, <2>1, <2>2, <2>3 DEF Capped
  <1>. QED
    BY <1>5, <1>6

LEMMA CapStep ==
    ASSUME TypeOK, \A t \in Tables : Capped(rows[t]), [Next]_vars
    PROVE  \A t \in Tables : Capped(rows'[t])
  <1> SUFFICES ASSUME NEW u \in Tables PROVE Capped(rows'[u])
    OBVIOUS
  <1>1. ASSUME NEW s \in Scope, NEW k \in Key, Admit(s, k) PROVE Capped(rows'[u])
    <2> DEFINE t == TableOf(s)
    <2>1. t \in Tables /\ rows[t] \in WindowTable /\ now \in Nat /\ rows \in [Tables -> WindowTable]
      BY BudgetFacts DEF TypeOK, WindowTable
    <2>2. PICK room \in MakeRoom(rows[t], k, now) :
             rows' = [rows EXCEPT ![t] = [room EXCEPT ![k] = Counted(rows[t], k, now)]]
      BY <1>1 DEF Admit
    <2>3. Counted(rows[t], k, now) \in Windows
      BY <2>1, CountedType
    <2>4. CASE u = t
      BY <2>1, <2>2, <2>3, <2>4, AdmitStaysCapped
    <2>5. CASE u # t
      BY <2>1, <2>2, <2>5
    <2>. QED
      BY <2>4, <2>5
  <1>2. CASE Sweep
    <2>1. rows'[u] = Prune(rows[u], now) /\ rows[u] \in WindowTable
      BY <1>2 DEF Sweep, TypeOK, WindowTable
    <2>2. Live(rows'[u]) \subseteq Live(rows[u])
      BY <2>1 DEF Live, Prune, WindowTable, NoWindow
    <2>. QED
      BY <2>2, FewerStayCapped
  <1>3. CASE UNCHANGED rows
    BY <1>3
  <1>. QED
    BY <1>1, <1>2, <1>3 DEF Next, Refuse, AdmitUnlimited, Tick, vars

(* Also at the cap: a key is refused only if its own admissions of the last window
   reach the budget, whatever floods of other keys evict, and no table of MemoryRates
   holds more than its cap (`RateTable::check_capped`). *)
THEOREM FloodsLockNobodyOut == Spec => []FairAtTheCap
  <1> DEFINE AllCapped == \A t \in Tables : Capped(rows[t])
  <1>1. Init => TypeOK /\ RowsBacked /\ AllCapped
    <2> SUFFICES ASSUME Init PROVE RowsBacked /\ AllCapped
      BY TypeInit
    <2>1. \A t \in Tables, k \in Key : admitted[t][k] = << >> /\ rows[t][k] = NoWindow /\ now = 0
      BY DEF Init
    <2>2. \A t \in Tables : Live(rows[t]) = {}
      BY DEF Init, Live, NoWindow
    <2>3. 0 \in Nat /\ 0 <= Capacity
      BY RateTypes DEF Capacity
    <2>4. AllCapped
      BY <2>2, <2>3, FS_EmptySet DEF Capped
    <2>5. RowsBacked
      BY <2>1, <2>3, EmptyLog DEF RowsBacked
    <2>. QED
      BY <2>4, <2>5
  <1>2. (TypeOK /\ RowsBacked /\ AllCapped) /\ [Next]_vars => (TypeOK /\ RowsBacked /\ AllCapped)'
    BY TypeStep, BackedStep, CapStep
  <1>3. TypeOK /\ RowsBacked /\ AllCapped => FairAtTheCap
    BY BackedIsEarned DEF FairAtTheCap, TablesCapped, Capped
  <1>. QED
    BY <1>1, <1>2, <1>3, PTL DEF Spec

-----------------------------------------------------------------------------
(***************************************************************************)
(* The Worker's shards.  Their sweep leaves no unswept window to compare   *)
(* with, so the window that keeps the log is said to exist.                *)
(***************************************************************************)
(* Some window keeps the key's log, and agrees with the stored row on every verdict. *)
Kept(log, row, t) ==
    \E w \in Windows : LogInv(log, w, t, ShardBudget) /\ CurrentOf(row, t) = CurrentOf(w, t)

ShardInv ==
    /\ Shard!TypeOK
    /\ \A s \in Shards, k \in Key :
          /\ Kept(shardAdmitted[s][k], rate[s][k], shardNow)
          /\ Backed(shardAdmitted[s][k], rate[s][k], shardNow)
          /\ global /\ s # "g" => shardAdmitted[s][k] = << >>

(* Admitting a request in a row whose log is kept. *)
LEMMA KeptAdmit ==
    ASSUME ShardBudget \in Nat, NEW log \in Seq(Nat), NEW row \in Windows, NEW t \in Nat,
           Kept(log, row, t), CurrentOf(row, t).count < ShardBudget
    PROVE  Kept(Append(log, t), CountedIn(row, t), t)
  <1>1. PICK w \in Windows : LogInv(log, w, t, ShardBudget) /\ CurrentOf(row, t) = CurrentOf(w, t)
    BY DEF Kept
  <1>2. LogInv(Append(log, t), CountedIn(w, t), t, ShardBudget)
    BY <1>1, AdmitKeepsLog
  <1>3. CountedIn(w, t) = CountedIn(row, t)
    BY <1>1 DEF CountedIn
  <1>4. CountedIn(w, t) \in Windows
    BY DEF CountedIn, CurrentOf, Windows
  <1>. QED
    BY <1>2, <1>3, <1>4 DEF Kept

(* Time passes over a kept log. *)
LEMMA KeptLater ==
    ASSUME NEW log \in Seq(Nat), NEW row \in Windows, NEW t \in Nat, Kept(log, row, t)
    PROVE  Kept(log, row, t + 1)
  <1>1. PICK w \in Windows : LogInv(log, w, t, ShardBudget) /\ CurrentOf(row, t) = CurrentOf(w, t)
    BY DEF Kept
  <1>2. \A i \in DOMAIN log : log[i] \in Nat
    OBVIOUS
  <1>3. LogInv(log, w, t + 1, ShardBudget)
    BY <1>1, <1>2 DEF LogInv, Windows
  <1>4. CurrentOf(row, t + 1) = CurrentOf(w, t + 1)
    <2>1. Window \in Nat
      BY RateTypes
    <2> DEFINE runs(x) == x.count > 0 /\ Running(x, t)
    <2>2. CASE runs(row) /\ runs(w)
      BY <1>1, <2>1, <2>2 DEF CurrentOf
    <2>3. CASE ~runs(row) /\ ~runs(w)
      BY <1>1, <2>1, <2>3 DEF CurrentOf, Running, Windows
    <2>4. CASE runs(row) /\ ~runs(w)
      BY <1>1, <2>1, <2>4 DEF CurrentOf, Windows
    <2>5. CASE ~runs(row) /\ runs(w)
      BY <1>1, <2>1, <2>5 DEF CurrentOf, Windows
    <2>. QED
      BY <2>2, <2>3, <2>4, <2>5
  <1>. QED
    BY <1>1, <1>3, <1>4 DEF Kept

(* The sweep removes rows that no longer matter. *)
LEMMA SweptFacts ==
    ASSUME NEW table \in WindowTable, shardNow \in Nat
    PROVE  /\ Shard!Swept(table) \in WindowTable
           /\ \A k \in Key :
                 /\ CurrentOf(Shard!Swept(table)[k], shardNow) = CurrentOf(table[k], shardNow)
                 /\ Shard!Swept(table)[k] = table[k] \/ Shard!Swept(table)[k] = NoWindow
  BY RateTypes DEF Shard!Swept, Shard!NoWindow, NoWindow, CurrentOf, Running, WindowTable, Windows

(* The instance's cardinality is the cardinality. *)
LEMMA SameCardinality == \A S : Shard!Cardinality(S) = Cardinality(S)
  BY DEF Shard!Cardinality, Cardinality

LEMMA ShardStep ==
    ASSUME Shard!WorkerRateConstants, ShardInv, [Shard!Next]_Shard!vars
    PROVE  ShardInv'
  <1> USE DEF ShardInv
  <1>0. /\ ShardBudget \in Nat /\ shardNow \in Nat /\ rate \in [Shards -> WindowTable]
        /\ shardAdmitted \in [Shards -> [Key -> Seq(Nat)]]
    BY DEF Shard!WorkerRateConstants, Shard!TypeOK, WindowTable, Windows
  <1>1. ASSUME NEW region \in Shards, NEW k \in Key, Shard!RateCheck(region, k) PROVE ShardInv'
    <2> DEFINE s == Shard!Charged(region)
               log == shardAdmitted[s][k]
               row == rate[s][k]
    <2>1. s \in Shards /\ (global => s = "g")
      BY DEF Shard!Charged, Shard!WorkerRateConstants
    <2>2. Shard!Current(s, k) = CurrentOf(row, shardNow)
      BY DEF Shard!Current, CurrentOf, Running
    <2>3. row \in Windows /\ log \in Seq(Nat) /\ rate[s] \in WindowTable
      BY <1>0, <2>1 DEF WindowTable
    <2>4. CurrentOf(row, shardNow) \in Windows /\ CurrentOf(row, shardNow).count < ShardBudget
          /\ CountedIn(row, shardNow) \in Windows
      BY <1>0, <1>1, <2>2, <2>3 DEF Shard!RateCheck, CurrentOf, CountedIn, Windows
    <2>5. [CurrentOf(row, shardNow) EXCEPT !.count = @ + 1] = CountedIn(row, shardNow)
      BY <2>4 DEF CountedIn, Windows
    <2>6. PICK table \in {rate[s], Shard!Swept(rate[s])} :
             rate' = [rate EXCEPT ![s] = [table EXCEPT ![k] = CountedIn(row, shardNow)]]
      BY <1>1, <2>2, <2>5 DEF Shard!RateCheck
    <2>7. /\ table \in WindowTable
          /\ \A j \in Key : /\ CurrentOf(table[j], shardNow) = CurrentOf(rate[s][j], shardNow)
                            /\ table[j] = rate[s][j] \/ table[j] = NoWindow
      BY <1>0, <2>3, <2>6, SweptFacts
    <2>8. /\ shardAdmitted' = [shardAdmitted EXCEPT ![s][k] = Append(log, shardNow)]
          /\ shardNow' = shardNow /\ global' = global
      BY <1>1 DEF Shard!RateCheck
    <2>9. Append(log, shardNow) \in Seq(Nat)
      BY <1>0, <2>3
    <2>10. /\ rate' \in [Shards -> WindowTable]
           /\ rate'[s][k] = CountedIn(row, shardNow)
           /\ \A u \in Shards, j \in Key : u # s \/ j # k =>
                 /\ CurrentOf(rate'[u][j], shardNow) = CurrentOf(rate[u][j], shardNow)
                 /\ rate'[u][j] = rate[u][j] \/ rate'[u][j] = NoWindow
      BY <1>0, <2>1, <2>4, <2>6, <2>7 DEF WindowTable
    <2>11. /\ shardAdmitted' \in [Shards -> [Key -> Seq(Nat)]]
           /\ shardAdmitted'[s][k] = Append(log, shardNow)
           /\ \A u \in Shards, j \in Key : u # s \/ j # k => shardAdmitted'[u][j] = shardAdmitted[u][j]
      BY <1>0, <2>1, <2>8, <2>9
    <2>12. Shard!TypeOK'
      BY <1>0, <2>8, <2>10, <2>11 DEF Shard!TypeOK, WindowTable, Windows
    <2>13. ASSUME NEW u \in Shards, NEW j \in Key
           PROVE  /\ Kept(shardAdmitted'[u][j], rate'[u][j], shardNow)
                  /\ Backed(shardAdmitted'[u][j], rate'[u][j], shardNow)
                  /\ global /\ u # "g" => shardAdmitted'[u][j] = << >>
      <3>1. CASE u = s /\ j = k
        <4>1. Kept(log, row, shardNow) /\ Backed(log, row, shardNow)
          BY <2>1
        <4>2. /\ Kept(Append(log, shardNow), CountedIn(row, shardNow), shardNow)
              /\ Backed(Append(log, shardNow), CountedIn(row, shardNow), shardNow)
          BY <1>0, <2>3, <2>4, <4>1, KeptAdmit, AdmitKeepsBacked
        <4>. QED
          BY <2>1, <2>10, <2>11, <3>1, <4>2
      <3>2. CASE u # s \/ j # k
        <4>1. Kept(shardAdmitted[u][j], rate[u][j], shardNow) /\ Backed(shardAdmitted[u][j], rate[u][j], shardNow)
          OBVIOUS
        <4>2. Kept(shardAdmitted[u][j], rate'[u][j], shardNow)
          BY <2>10, <3>2, <4>1 DEF Kept
        <4>3. Backed(shardAdmitted[u][j], NoWindow, shardNow)
          BY <1>0 DEF Backed, NoWindow
        <4>4. Backed(shardAdmitted[u][j], rate'[u][j], shardNow)
          BY <2>10, <3>2, <4>1, <4>3
        <4>5. shardAdmitted'[u][j] = shardAdmitted[u][j]
          BY <2>11, <3>2
        <4>. QED
          BY <4>2, <4>4, <4>5
      <3>. QED
        BY <3>1, <3>2
    <2>. QED
      BY <2>8, <2>12, <2>13
  <1>2. CASE Shard!Tick
    <2>1. shardNow' = shardNow + 1 /\ UNCHANGED <<global, rate, shardAdmitted>>
      BY <1>2 DEF Shard!Tick
    <2>2. Shard!TypeOK'
      BY <1>0, <2>1 DEF Shard!TypeOK
    <2>3. ASSUME NEW u \in Shards, NEW j \in Key
          PROVE  /\ Kept(shardAdmitted[u][j], rate[u][j], shardNow + 1)
                 /\ Backed(shardAdmitted[u][j], rate[u][j], shardNow + 1)
      <3>1. rate[u][j] \in Windows /\ shardAdmitted[u][j] \in Seq(Nat)
        BY <1>0 DEF WindowTable
      <3>2. Kept(shardAdmitted[u][j], rate[u][j], shardNow + 1)
        BY <1>0, <3>1, KeptLater
      <3>3. Backed(shardAdmitted[u][j], rate[u][j], shardNow + 1)
        BY <1>0, <3>1 DEF Backed, Windows
      <3>. QED
        BY <3>2, <3>3
    <2>. QED
      BY <2>1, <2>2, <2>3
  <1>3. CASE UNCHANGED Shard!vars
    BY <1>3 DEF Shard!vars, Shard!TypeOK
  <1>. QED
    BY <1>1, <1>2, <1>3 DEF Shard!Next

(* Through one shard a key gets at most two budgets in any span of a window's length, in
   global mode from all regions together, whatever the random sweep of `rate_check`
   deletes; and a shard refuses only a key that used up its budget there. *)
THEOREM ShardsKeepTheirBudgets == PartsSpec => []ShardBudgets
  <1>1. Shard!Init => ShardInv
    <2> SUFFICES ASSUME Shard!Init PROVE ShardInv
      OBVIOUS
    <2>1. /\ shardNow = 0 /\ ShardBudget \in Nat
          /\ \A s \in Shards, k \in Key : shardAdmitted[s][k] = << >> /\ rate[s][k] = NoWindow
      BY ShardConstants DEF Shard!Init, Shard!NoWindow, NoWindow, Shard!WorkerRateConstants
    <2>2. Shard!TypeOK
      BY DEF Shard!Init, Shard!TypeOK, Shard!NoWindow
    <2>3. NoWindow \in Windows
      BY DEF NoWindow, Windows
    <2>4. Kept(<< >>, NoWindow, 0) /\ Backed(<< >>, NoWindow, 0)
      BY <2>1, <2>3, EmptyLog DEF Kept
    <2>. QED
      BY <2>1, <2>2, <2>4 DEF ShardInv
  <1>2. ShardInv /\ [Shard!Next]_Shard!vars => ShardInv'
    BY ShardConstants, ShardStep
  <1>3. ShardInv => Shard!RegionalBudget
    <2> SUFFICES ASSUME ShardInv, NEW k \in Key, NEW t \in 0..shardNow, NEW s \in Shards
                 PROVE  Shard!Burst(s, k, t) <= 2 * ShardBudget
      BY DEF Shard!RegionalBudget, ShardInv
    <2> DEFINE log == shardAdmitted[s][k]
    <2>1. /\ shardNow \in Nat /\ t \in Nat /\ Window \in Nat
          /\ DOMAIN log = 1..Len(log) /\ \A i \in DOMAIN log : log[i] \in Nat
      <3>1. log \in Seq(Nat) /\ shardNow \in Nat
        BY DEF ShardInv, Shard!TypeOK
      <3> HIDE DEF log
      <3>2. DOMAIN log = 1..Len(log) /\ \A i \in DOMAIN log : log[i] \in Nat
        BY <3>1
      <3>3. t \in Nat
        BY <3>1
      <3>4. Window \in Nat
        BY RateTypes
      <3>. QED
        BY <3>1, <3>2, <3>3, <3>4
    <2>2. {i \in DOMAIN log : log[i] \in t .. t + Window - 1} = Span(log, t)
      BY <2>1 DEF Span
    <2>3. PICK w \in Windows : LogInv(log, w, shardNow, ShardBudget)
      BY DEF ShardInv, Kept
    <2>4. Shard!Burst(s, k, t) = Cardinality(Span(log, t))
      BY <2>2, SameCardinality DEF Shard!Burst
    <2>. QED
      BY <2>1, <2>3, <2>4 DEF LogInv
  <1>4. ShardInv => Shard!RefusalEarnedHere
    <2> SUFFICES ASSUME ShardInv, NEW region \in Shards, NEW k \in Key, Shard!Refused(region, k)
                 PROVE  Shard!Burst(Shard!Charged(region), k,
                                    IF shardNow < Window THEN 0 ELSE shardNow - Window + 1) >= ShardBudget
      BY DEF Shard!RefusalEarnedHere
    <2> DEFINE s == Shard!Charged(region)
               log == shardAdmitted[s][k]
               w == rate[s][k]
               t == IF shardNow < Window THEN 0 ELSE shardNow - Window + 1
               recent == {i \in DOMAIN log : log[i] \in t .. t + Window - 1}
    <2>1. s \in Shards
      BY ShardConstants DEF Shard!Charged, Shard!WorkerRateConstants
    <2>2. log \in Seq(Nat) /\ w \in Windows /\ shardNow \in Nat /\ Window \in Nat /\ Window > 0 /\ ShardBudget \in Nat
      BY <2>1, RateTypes, ShardConstants DEF ShardInv, Shard!TypeOK, Windows, Shard!WorkerRateConstants
    <2>3. w.count > 0 /\ Running(w, shardNow) /\ w.count >= ShardBudget
      BY <2>2 DEF Shard!Refused, Shard!Current, Running, Windows
    <2>4. Backed(log, w, shardNow)
      BY <2>1 DEF ShardInv
    <2>5. Cardinality(From(log, w.start)) >= w.count /\ w.start <= shardNow
      BY <2>3, <2>4 DEF Backed
    <2>6. PICK v \in Windows : LogInv(log, v, shardNow, ShardBudget)
      BY <2>1 DEF ShardInv, Kept
    <2>7. /\ DOMAIN log = 1..Len(log) /\ Len(log) \in Nat
          /\ \A i \in DOMAIN log : log[i] \in Nat /\ log[i] <= shardNow
      BY <2>2, <2>6 DEF LogInv
    <2>8. w.start \in Nat /\ shardNow - w.start < Window
      BY <2>2, <2>3 DEF Running, Windows
    <2>12. Shard!Burst(s, k, t) = Cardinality(recent)
      BY SameCardinality DEF Shard!Burst
    <2> HIDE DEF log, w, s
    <2>9. From(log, w.start) \subseteq recent /\ recent \subseteq 1..Len(log)
      <3>1. t \in Nat /\ t <= w.start /\ shardNow <= t + Window - 1
        BY <2>2, <2>5, <2>8
      <3>. QED
        BY <2>2, <2>7, <2>8, <3>1 DEF From
    <2>10. /\ Cardinality(From(log, w.start)) <= Cardinality(recent)
           /\ Cardinality(From(log, w.start)) \in Nat /\ Cardinality(recent) \in Nat
      BY <2>7, <2>9, SmallerIndexSet, IndexSets
    <2>11. Cardinality(recent) >= ShardBudget
      BY <2>2, <2>3, <2>5, <2>10 DEF Windows
    <2>. QED
      BY <2>11, <2>12 DEF log, s
  <1>5. ShardInv => ShardBudgets
    BY <1>3, <1>4 DEF ShardInv, ShardBudgets
  <1>6. PartsInit => Shard!Init
    BY DEF PartsInit
  <1>7. [PartsNext]_allVars => [Shard!Next]_Shard!vars
    BY DEF PartsNext, allVars, shardVars, Shard!vars
  <1>. QED
    BY <1>1, <1>2, <1>5, <1>6, <1>7, PTL DEF PartsSpec
=============================================================================
