-------------------------- MODULE FileManager_proof --------------------------
(***************************************************************************)
(* Theorems about FileManager, for any clients, file systems, names and    *)
(* mount points, and any number of calls.                                  *)
(*                                                                         *)
(* Resolved says what a name resolves to in a table the core framework     *)
(* makes; TypeInv what the variables are and how far each call has come;   *)
(* RoomInv counts the entries of the mount table and the mounts and        *)
(* unmounts that are on their way, which keeps numMounts above what it     *)
(* has to cover.                                                           *)
(***************************************************************************)
EXTENDS FileManager, FiniteSetTheorems, SequenceTheorems,
        WellFoundedInduction, TLAPS

-----------------------------------------------------------------------------
(* Numbers and sequences.                                                  *)

LEMMA MinExists ==
    ASSUME NEW S \in SUBSET Nat, S # {}
    PROVE  Min(S) \in S /\ \A y \in S : Min(S) <= y
<1>1. PICK x \in S : \A y \in S : ~(<<y, x>> \in OpToRel(<, Nat))
    BY NatLessThanWellFounded, WFMin
<1>2. ASSUME NEW y \in S PROVE x <= y
    <2>1. <<y, x>> \in Nat \X Nat /\ x \in Nat /\ y \in Nat
        BY <1>1, <1>2
    <2>2. ~(y < x)
        BY <1>1, <2>1, Zenon DEF OpToRel
    <2> QED BY <2>1, <2>2
<1> QED
    BY <1>2 DEF Min

LEMMA MaxExists ==
    ASSUME NEW S \in SUBSET Nat, S # {}, NEW b \in Nat, \A x \in S : x <= b
    PROVE  Max(S) \in S /\ \A y \in S : y <= Max(S)
<1> DEFINE T == {n \in Nat : b - n \in S}
<1>1. PICK x : x \in S
    OBVIOUS
<1>2. b - x \in T
    BY <1>1
<1>3. Min(T) \in T /\ \A n \in T : Min(T) <= n
    BY <1>2, MinExists
<1>4. ASSUME NEW y \in S PROVE y <= b - Min(T)
    <2>1. b - y \in T
        BY <1>4
    <2> QED BY <1>3, <2>1
<1> HIDE DEF T
<1>5. \E z \in S : \A y \in S : z >= y
    BY <1>3, <1>4 DEF T
<1> QED BY <1>5 DEF Max

LEMMA MinOfTwo ==
    ASSUME NEW a \in Nat, NEW b \in Nat
    PROVE  Min({a, b}) = IF a <= b THEN a ELSE b
<1>1. Min({a, b}) \in {a, b} /\ Min({a, b}) <= a /\ Min({a, b}) <= b
    BY MinExists
<1> QED BY <1>1

LEMMA SharedBounds ==
    ASSUME NEW S, NEW path \in Seq(S), NEW point \in Seq(S)
    PROVE  /\ Shared(path, point) \in 0 .. Len(path) /\ Shared(path, point) <= Len(point)
           /\ SubSeq(path, 1, Shared(path, point)) = SubSeq(point, 1, Shared(path, point))
           /\ \A k \in 0 .. Len(path) :
                  k <= Len(point) /\ SubSeq(path, 1, k) = SubSeq(point, 1, k)
                      => k <= Shared(path, point)
<1> DEFINE m == Min({Len(path), Len(point)})
           K == {k \in 0 .. m : SubSeq(path, 1, k) = SubSeq(point, 1, k)}
<1>1. Len(path) \in Nat /\ Len(point) \in Nat
    BY LenProperties
<1>2. m \in Nat /\ m = IF Len(path) <= Len(point) THEN Len(path) ELSE Len(point)
    BY <1>1, MinOfTwo
<1>3. SubSeq(path, 1, 0) = << >> /\ SubSeq(point, 1, 0) = << >>
    BY <1>1, SubSeqProperties, EmptySeq
<1>4. Shared(path, point) = Max(K)
    BY DEF Shared
<1> HIDE DEF m
<1>5. K \in SUBSET Nat /\ \A k \in K : k <= m
    BY <1>2
<1>6. 0 \in K
    BY <1>2, <1>3
<1>7. Max(K) \in K /\ \A k \in K : k <= Max(K)
    BY <1>2, <1>5, <1>6, MaxExists
<1>8. Max(K) \in 0 .. m /\ SubSeq(path, 1, Max(K)) = SubSeq(point, 1, Max(K))
    BY <1>7
<1>9. \A k \in 0 .. m : SubSeq(path, 1, k) = SubSeq(point, 1, k) => k <= Max(K)
    BY <1>7
<1> HIDE DEF K
<1>10. \A k \in 0 .. Len(path) : k <= Len(point) => k \in 0 .. m
    BY <1>1, <1>2
<1>11. Max(K) \in 0 .. Len(path) /\ Max(K) <= Len(point)
    BY <1>1, <1>2, <1>8
<1> QED BY <1>4, <1>8, <1>9, <1>10, <1>11

-----------------------------------------------------------------------------
(* What a name resolves to.                                                *)

Entry == [mountPoint : Points, fs : FileSystems]
Table == Seq(Entry \cup {Empty})

LEMMA EntryType ==
    /\ Empty \notin Entry /\ Points \subseteq Seq(Elements)
    /\ FileNames \subseteq Seq(Elements) /\ DirNames \subseteq Seq(Elements)
<1>1. \A e \in Entry : e.mountPoint # Nothing
    BY MarkAssumption DEF Entry
<1> QED BY <1>1, NameAssumption DEF Empty

LEMMA MatchBounds ==
    ASSUME NEW n \in Seq(Elements), NEW e \in Entry \cup {Empty}
    PROVE  /\ pathMatches(n, e) \in 0 .. Len(n) + 1
           /\ e # Empty => pathMatches(n, e) = 1 + Shared(n, e.mountPoint)
           /\ e = Empty => pathMatches(n, e) = 0
<1>1. CASE e = Empty
    BY <1>1, LenProperties DEF pathMatches
<1>2. CASE e # Empty
    <2>1. e.mountPoint \in Seq(Elements)
        BY <1>2, EntryType DEF Entry
    <2>2. Shared(n, e.mountPoint) \in 0 .. Len(n) /\ Len(n) \in Nat
        BY <2>1, SharedBounds, LenProperties
    <2> QED BY <1>2, <2>2 DEF pathMatches
<1> QED BY <1>1, <1>2

\* getFSandFSPath takes the first of the entries that match best.
LEMMA BestMatch ==
    ASSUME NEW T \in Table, T # << >>, NEW n \in Seq(Elements)
    PROVE  /\ getFS(T, n) \in DOMAIN T
           /\ \A i \in DOMAIN T : pathMatches(n, T[i]) <= pathMatches(n, T[getFS(T, n)])
           /\ \A i \in DOMAIN T : pathMatches(n, T[i]) = pathMatches(n, T[getFS(T, n)])
                                      => getFS(T, n) <= i
<1> DEFINE matches == [i \in DOMAIN T |-> pathMatches(n, T[i])]
           most == Max(Range(matches))
           best == {i \in DOMAIN T : matches[i] = most}
<1>1. Len(T) \in Nat \ {0} /\ DOMAIN T = 1 .. Len(T) /\ Len(n) + 1 \in Nat
    BY LenProperties, EmptySeq DEF Table
<1>2. \A i \in DOMAIN T : matches[i] \in 0 .. Len(n) + 1 /\ matches[i] = pathMatches(n, T[i])
    <2> TAKE i \in DOMAIN T
    <2>1. T[i] \in Entry \cup {Empty}
        BY <1>1, ElementOfSeq DEF Table
    <2> QED BY <2>1, MatchBounds
<1>3. DOMAIN matches = DOMAIN T
    OBVIOUS
<1> HIDE DEF matches
<1>4. /\ Range(matches) \in SUBSET Nat /\ matches[1] \in Range(matches)
      /\ \A x \in Range(matches) : x <= Len(n) + 1
    BY <1>1, <1>2, <1>3 DEF Range
<1>5. most \in Range(matches) /\ \A y \in Range(matches) : y <= most
    BY <1>1, <1>4, MaxExists
<1>6. best \in SUBSET Nat /\ best # {}
    <2>1. PICK i \in DOMAIN matches : matches[i] = most
        BY <1>5 DEF Range
    <2> HIDE DEF most
    <2>2. i \in best
        BY <1>3, <2>1
    <2> QED BY <1>1, <2>2
<1>7. Min(best) \in best /\ \A i \in best : Min(best) <= i
    BY <1>6, MinExists
<1>8. getFS(T, n) = Min(best)
    BY DEF getFS, matches
<1>9. \A i \in DOMAIN T : matches[i] <= most
    BY <1>3, <1>5 DEF Range
<1> QED BY <1>2, <1>7, <1>8, <1>9

\* The rest of a name, below what its entry matches of it.
LEMMA RestOfName ==
    ASSUME NEW T \in Table, T # << >>, NEW n \in Seq(Elements)
    PROVE  \E m \in 0 .. Len(n) :
               /\ getFSPath(T, n) = SubSeq(n, m + 1, Len(n))
               /\ m # 0 => \E q \in Points : SubSeq(n, 1, m) \in Prefixes(q)
               /\ T[getFS(T, n)] # Empty => m = Shared(n, T[getFS(T, n)].mountPoint)
<1> DEFINE e == T[getFS(T, n)]
<1>1. e \in Entry \cup {Empty} /\ Len(n) \in Nat
    BY BestMatch, ElementOfSeq, LenProperties DEF Table
<1>2. getFSPath(T, n) = SubSeq(n, (IF e = Empty THEN 0 ELSE Shared(n, e.mountPoint)) + 1, Len(n))
    BY DEF getFSPath
<1> HIDE DEF e
<1>3. CASE e = Empty
    <2>1. 0 \in 0 .. Len(n) /\ getFSPath(T, n) = SubSeq(n, 0 + 1, Len(n))
        BY <1>1, <1>2, <1>3
    <2> QED BY <1>3, <2>1 DEF e
<1>4. CASE e # Empty
    <2> DEFINE m == Shared(n, e.mountPoint)
    <2>1. e.mountPoint \in Points /\ e.mountPoint \in Seq(Elements)
        BY <1>1, <1>4, EntryType DEF Entry
    <2>2. /\ m \in 0 .. Len(n) /\ m <= Len(e.mountPoint) /\ Len(e.mountPoint) \in Nat
          /\ SubSeq(n, 1, m) = SubSeq(e.mountPoint, 1, m)
        BY <2>1, SharedBounds, LenProperties
    <2>3. SubSeq(n, 1, m) \in Prefixes(e.mountPoint)
        BY <1>1, <2>2 DEF Prefixes
    <2>4. getFSPath(T, n) = SubSeq(n, m + 1, Len(n))
        BY <1>2, <1>4
    <2> HIDE DEF m
    <2>5. T[getFS(T, n)] # Empty => m = Shared(n, T[getFS(T, n)].mountPoint)
        BY DEF m, e
    <2> QED BY <2>1, <2>2, <2>3, <2>4, <2>5
<1> QED BY <1>3, <1>4

\* A point of one element matches a name it starts by one more than "/" does.
LEMMA ShortShared ==
    ASSUME NEW n \in Seq(Elements), NEW q \in Seq(Elements), Len(q) <= 1
    PROVE  Shared(n, q) = IF IsPrefix(q, n) THEN Len(q) ELSE 0
<1>0. Len(n) \in Nat /\ Len(q) \in {0, 1}
    <2>1. Len(n) \in Nat /\ Len(q) \in Nat
        BY LenProperties
    <2>2. \A k \in Nat : k <= 1 => k \in {0, 1}
        OBVIOUS
    <2> QED BY <2>1, <2>2
<1>1. /\ Shared(n, q) \in 0 .. Len(q) /\ Shared(n, q) <= Len(n)
      /\ SubSeq(n, 1, Shared(n, q)) = SubSeq(q, 1, Shared(n, q))
      /\ \A k \in 0 .. Len(n) : k <= Len(q) /\ SubSeq(n, 1, k) = SubSeq(q, 1, k)
                                    => k <= Shared(n, q)
    <2>1. Shared(n, q) \in 0 .. Len(n) /\ Shared(n, q) <= Len(q)
        BY SharedBounds
    <2>2. /\ SubSeq(n, 1, Shared(n, q)) = SubSeq(q, 1, Shared(n, q))
          /\ \A k \in 0 .. Len(n) : k <= Len(q) /\ SubSeq(n, 1, k) = SubSeq(q, 1, k)
                                        => k <= Shared(n, q)
        BY SharedBounds
    <2>3. Shared(n, q) \in 0 .. Len(q) /\ Shared(n, q) <= Len(n)
        BY <1>0, <2>1
    <2> QED BY <2>2, <2>3
<1>2. CASE IsPrefix(q, n)
    BY <1>0, <1>1, <1>2 DEF IsPrefix
<1>3. CASE ~IsPrefix(q, n)
    <2>1. Shared(n, q) # Len(q)
        BY <1>0, <1>1, <1>3 DEF IsPrefix
    <2> QED BY <1>0, <1>1, <1>3, <2>1
<1> QED BY <1>2, <1>3

\* What the code finds is what the name denotes.
LEMMA Resolved ==
    ASSUME NEW T \in Table, CoreTable(T), NEW n \in Seq(Elements)
    PROVE  /\ T[getFS(T, n)] # Empty
           /\ Denotes(T, n) = <<T[getFS(T, n)].fs, getFSPath(T, n)>>
<1> DEFINE g == getFS(T, n)
           Longest(b) == \A j \in Above(T, n) :
                             Len(T[j].mountPoint) <= Len(T[b].mountPoint)
           best == CHOOSE b \in Above(T, n) : Longest(b)
<1>1. /\ T # << >> /\ T[1].mountPoint = Root /\ DOMAIN T = 1 .. Len(T)
      /\ Len(T) \in Nat \ {0} /\ Len(n) \in Nat
    BY LenProperties, EmptySeq DEF CoreTable, Table
<1>2. \A i \in DOMAIN T : T[i] \in Entry \cup {Empty}
    BY <1>1, ElementOfSeq DEF Table
<1>3. \A i \in DOMAIN T : T[i] # Empty =>
          /\ T[i].mountPoint \in Seq(Elements) /\ Len(T[i].mountPoint) \in {0, 1}
          /\ pathMatches(n, T[i]) =
                 1 + (IF IsPrefix(T[i].mountPoint, n) THEN Len(T[i].mountPoint) ELSE 0)
    <2> SUFFICES ASSUME NEW i \in DOMAIN T, T[i] # Empty
                 PROVE  /\ T[i].mountPoint \in Seq(Elements) /\ Len(T[i].mountPoint) \in {0, 1}
                        /\ pathMatches(n, T[i]) = 1 + (IF IsPrefix(T[i].mountPoint, n)
                                                       THEN Len(T[i].mountPoint) ELSE 0)
        OBVIOUS
    <2>1. T[i] \in Entry /\ T[i].mountPoint \in Seq(Elements)
        BY <1>2, EntryType DEF Entry
    <2>2. Len(T[i].mountPoint) \in {0, 1} /\ Len(T[i].mountPoint) <= 1
        <3>1. Len(T[i].mountPoint) \in Nat
            BY <2>1, LenProperties
        <3>2. Len(T[i].mountPoint) <= 1
            BY DEF CoreTable
        <3>3. \A k \in Nat : k <= 1 => k \in {0, 1}
            OBVIOUS
        <3> QED BY <3>1, <3>2, <3>3
    <2>3. Shared(n, T[i].mountPoint) =
              IF IsPrefix(T[i].mountPoint, n) THEN Len(T[i].mountPoint) ELSE 0
        BY <2>1, <2>2, ShortShared
    <2> QED BY <1>2, <2>1, <2>2, <2>3, MatchBounds
<1>4. T[1] # Empty /\ Len(T[1].mountPoint) = 0 /\ IsPrefix(T[1].mountPoint, n)
    <2>1. Root \in Points /\ Len(Root) = 0
        BY NameAssumption, EmptySeq DEF Root
    <2>2. T[1] # Empty
        BY <1>1, <2>1, MarkAssumption DEF Empty
    <2>3. SubSeq(n, 1, 0) = << >> /\ SubSeq(Root, 1, 0) = << >>
        BY EmptySeq, SubSeqProperties DEF Root
    <2> QED BY <1>1, <2>1, <2>2, <2>3 DEF IsPrefix
<1>5. /\ g \in DOMAIN T
      /\ \A i \in DOMAIN T : pathMatches(n, T[i]) <= pathMatches(n, T[g])
      /\ \A i \in DOMAIN T : pathMatches(n, T[i]) = pathMatches(n, T[g]) => g <= i
    BY <1>1, BestMatch
<1>6. T[g] # Empty
    <2>1. pathMatches(n, T[1]) = 1
        BY <1>1, <1>3, <1>4
    <2>2. SUFFICES ASSUME T[g] = Empty PROVE FALSE
        OBVIOUS
    <2>3. pathMatches(n, T[g]) = 0
        BY <2>2, MatchBounds
    <2> QED BY <1>1, <1>5, <2>1, <2>3
<1>7. g \in Above(T, n)
    <2>1. CASE IsPrefix(T[g].mountPoint, n)
        BY <1>5, <1>6, <2>1 DEF Above
    <2>2. CASE ~IsPrefix(T[g].mountPoint, n)
        <3>1. pathMatches(n, T[1]) = 1 /\ pathMatches(n, T[g]) = 1
            BY <1>1, <1>3, <1>4, <1>5, <1>6, <2>2
        <3>2. g = 1
            BY <1>1, <1>5, <3>1
        <3> QED BY <1>4, <2>2, <3>2
    <2> QED BY <2>1, <2>2
<1>8. \A j \in Above(T, n) : /\ j \in DOMAIN T /\ T[j] # Empty
                             /\ pathMatches(n, T[j]) = 1 + Len(T[j].mountPoint)
                             /\ Len(T[j].mountPoint) \in Nat
    BY <1>3 DEF Above
<1>9. Longest(g)
    BY <1>5, <1>7, <1>8
<1>10. best \in Above(T, n) /\ Longest(best)
    BY <1>7, <1>9
<1>11. best = g
    <2>1. Len(T[best].mountPoint) = Len(T[g].mountPoint)
        BY <1>7, <1>8, <1>9, <1>10
    <2>2. T[best].mountPoint \in Seq(Elements) /\ T[g].mountPoint \in Seq(Elements)
        BY <1>3, <1>7, <1>8, <1>10
    <2>3. /\ IsPrefix(T[best].mountPoint, n) /\ IsPrefix(T[g].mountPoint, n)
        BY <1>7, <1>10 DEF Above
    <2>4. T[best].mountPoint = T[g].mountPoint
        <3>1. \A q \in Seq(Elements) : q = SubSeq(q, 1, Len(q))
            OBVIOUS
        <3> QED BY <2>1, <2>2, <2>3, <3>1 DEF IsPrefix
    <2> QED BY <1>7, <1>8, <1>10, <2>4 DEF CoreTable
<1>12. Denotes(T, n) = <<T[g].fs, SubSeq(n, Len(T[g].mountPoint) + 1, Len(n))>>
    BY <1>11 DEF Denotes
<1>13. getFSPath(T, n) = SubSeq(n, Len(T[g].mountPoint) + 1, Len(n))
    <2>1. pathMatches(n, T[g]) = 1 + Len(T[g].mountPoint) /\ Len(T[g].mountPoint) \in Nat
        BY <1>7, <1>8
    <2>2. pathMatches(n, T[g]) = 1 + Shared(n, T[g].mountPoint)
        BY <1>6, <1>5, <1>2, MatchBounds
    <2>3. Shared(n, T[g].mountPoint) \in Nat
        BY <1>1, <1>3, <1>5, <1>6, SharedBounds
    <2>4. Shared(n, T[g].mountPoint) = Len(T[g].mountPoint)
        BY <2>1, <2>2, <2>3
    <2> QED BY <1>6, <2>4 DEF getFSPath
<1> QED BY <1>6, <1>12, <1>13

\* The local paths a name resolves to.
LEMMA SuffixParts ==
    ASSUME NEW names \in SUBSET Seq(Elements), NEW n \in names, NEW q \in Suffixes(n)
    PROVE  q \in Seq(Elements) /\ Prefixes(q) \subseteq Parts(names) /\ q \in Prefixes(q)
<1>1. Len(n) \in Nat /\ << >> \in Seq(Elements)
    BY LenProperties, EmptySeq
<1>2. q \in Seq(Elements)
    <2>1. CASE q = << >>
        BY <1>1, <2>1
    <2>2. CASE \E l \in 1 .. Len(n) : q = SubSeq(n, l, Len(n))
        BY <1>1, <2>2, SubSeqProperties, ElementOfSeq
    <2> QED BY <2>1, <2>2 DEF Suffixes
<1>3. q = SubSeq(q, 1, Len(q)) /\ Len(q) \in Nat
    BY <1>2, LenProperties
<1>4. q \in Prefixes(q)
    <2>1. Len(q) \in 0 .. Len(q)
        BY <1>3
    <2> QED BY <1>3, <2>1 DEF Prefixes
<1>5. q \in UNION {Suffixes(m) : m \in names}
    OBVIOUS
<1>6. Prefixes(q) \subseteq Parts(names)
    BY <1>5 DEF Parts
<1> QED BY <1>2, <1>4, <1>6

LEMMA PathTypes ==
    /\ FilePaths \subseteq LocalPaths /\ FilePaths \subseteq Seq(Elements)
    /\ LocalPaths \subseteq Seq(Elements)
<1>1. FileNames \in SUBSET Seq(Elements) /\ FileNames \cup DirNames \in SUBSET Seq(Elements)
    BY EntryType
<1>2. FilePaths \subseteq LocalPaths /\ FilePaths \subseteq Seq(Elements)
    BY <1>1, SuffixParts DEF FilePaths, LocalPaths
<1>3. ASSUME NEW q \in Parts(FileNames \cup DirNames) PROVE q \in Seq(Elements)
    <2> DEFINE all == UNION {Suffixes(n) : n \in FileNames \cup DirNames}
    <2>1. PICK s \in all : q \in Prefixes(s)
        <3> HIDE DEF all
        <3>1. q \in UNION {Prefixes(s) : s \in all}
            BY <1>3 DEF Parts, all
        <3> QED BY <3>1
    <2>2. s \in Seq(Elements) /\ Len(s) \in Nat
        <3>1. PICK n \in FileNames \cup DirNames : s \in Suffixes(n)
            OBVIOUS
        <3> QED BY <1>1, <3>1, SuffixParts, LenProperties
    <2>3. PICK l \in 0 .. Len(s) : q = SubSeq(s, 1, l)
        BY <2>1 DEF Prefixes
    <2> QED BY <2>2, <2>3, SubSeqProperties, ElementOfSeq
<1>4. Root \in Seq(Elements)
    BY EmptySeq DEF Root
<1> QED BY <1>2, <1>3, <1>4 DEF LocalPaths

LEMMA NamePaths ==
    ASSUME NEW T \in Table, T # << >>, NEW n \in FileNames \cup DirNames
    PROVE  /\ getFSPath(T, n) \in LocalPaths
           /\ n \in FileNames => getFSPath(T, n) \in FilePaths
           /\ n \in DirNames => Prefixes(getFSPath(T, n)) \cap FilePaths = {}
<1> DEFINE q == getFSPath(T, n)
<1>1. n \in Seq(Elements) /\ Len(n) \in Nat /\ << >> \in Seq(Elements)
    BY EntryType, LenProperties, EmptySeq
<1>2. PICK m \in 0 .. Len(n) :
          /\ q = SubSeq(n, m + 1, Len(n))
          /\ m # 0 => \E r \in Points : SubSeq(n, 1, m) \in Prefixes(r)
    BY <1>1, RestOfName
<1>3. q \in Suffixes(n) /\ (q = << >> => m = Len(n))
    <2>1. CASE m = Len(n)
        <3>1. q = << >>
            BY <1>1, <1>2, <2>1
        <3> HIDE DEF q
        <3> QED BY <2>1, <3>1 DEF Suffixes
    <2>2. CASE m # Len(n)
        <3>1. m + 1 \in 1 .. Len(n)
            BY <1>1, <1>2, <2>2
        <3>2. Len(q) = Len(n) - m
            BY <1>1, <1>2, <3>1, SubSeqProperties, ElementOfSeq
        <3>3. q # << >>
            BY <1>1, <3>1, <3>2
        <3>4. q \in Suffixes(n)
            <4> HIDE DEF q
            <4> QED BY <1>2, <3>1 DEF Suffixes
        <3> QED BY <3>3, <3>4
    <2> QED BY <2>1, <2>2
<1> HIDE DEF q
<1>4. FileNames \cup DirNames \in SUBSET Seq(Elements) /\ DirNames \cup Points \in SUBSET Seq(Elements)
    BY EntryType
<1>5. q \in LocalPaths
    BY <1>3, <1>4, SuffixParts DEF LocalPaths
<1>6. ASSUME n \in FileNames PROVE q \in FilePaths
    <2>1. CASE q # << >>
        <3>1. q \in UNION {Suffixes(m0) : m0 \in FileNames}
            BY <1>3, <1>6
        <3> QED BY <2>1, <3>1 DEF FilePaths, Root
    <2>2. CASE q = << >>
        <3>1. n # << >> /\ m = Len(n) /\ n = SubSeq(n, 1, Len(n)) /\ Len(n) # 0
            BY <1>1, <1>3, <1>6, <2>2, NameAssumption, EmptySeq DEF Root
        <3>2. PICK r \in Points : n \in Prefixes(r)
            BY <1>1, <1>2, <3>1
        <3>3. r \in Seq(Elements) /\ Len(r) \in Nat
            BY EntryType, LenProperties
        <3>4. r \in Suffixes(r)
            <4>1. CASE r = << >>
                BY <4>1 DEF Suffixes
            <4>2. CASE r # << >>
                <5>1. 1 \in 1 .. Len(r) /\ r = SubSeq(r, 1, Len(r))
                    BY <3>3, <4>2, EmptySeq
                <5> QED BY <5>1 DEF Suffixes
            <4> QED BY <4>1, <4>2
        <3>5. n \in Parts(DirNames \cup Points)
            BY <1>4, <3>2, <3>4, SuffixParts
        <3>6. n \in Suffixes(n)
            <4>1. 1 \in 1 .. Len(n)
                BY <1>1, <3>1
            <4> QED BY <3>1, <4>1 DEF Suffixes
        <3>7. n \in FilePaths
            <4>1. n \in UNION {Suffixes(m0) : m0 \in FileNames}
                BY <1>6, <3>6
            <4> QED BY <3>1, <4>1 DEF FilePaths, Root
        <3> QED BY <3>5, <3>7, NameAssumption
    <2> QED BY <2>1, <2>2
<1>7. ASSUME n \in DirNames PROVE Prefixes(q) \cap FilePaths = {}
    BY <1>3, <1>4, <1>7, SuffixParts, NameAssumption
<1> QED BY <1>5, <1>6, <1>7 DEF q

-----------------------------------------------------------------------------
(* The invariants.                                                         *)

FileOps == Operations \ {"mount", "unmount"}
CopySteps == {"exists", "copyFile", "openSource", "sizeOf", "destination", "create",
              "openCopy", "read", "write", "closeSource", "closeCopy"}
FileSteps == CopySteps \cup {"remove", "open", "mkdir", "check", "purge", "held", "close"}

Meant == Seq(FileSystems \X LocalPaths)
Before == Seq(Nat \cup {Nothing, Directory})
Handle == [home : FileSystems, node : Nat \cup {Nothing}]

EndedCall == [at : {"idle", "done"}, op : Operations \cup {"none"},
              out : {"none", "ok", "raised", "cut"}, quiet : BOOLEAN, meant : Meant, before : Before]
MountCall == [at : {"count", "length", "store"}, op : {"mount"}, entry : Entry,
              quiet : BOOLEAN, meant : Meant, before : Before]
UnmountCall == [at : {"uncount"}, op : {"unmount"}, quiet : BOOLEAN,
                meant : Meant, before : Before]
FileCall == [at : FileSteps, op : FileOps, fs : Seq(Nat \ {0}), path : Seq(LocalPaths),
             file : Seq(Handle), got : Nat \cup Seq(Byte), cut : BOOLEAN, quiet : BOOLEAN,
             meant : Meant, before : Before]
Calls == EndedCall \cup MountCall \cup UnmountCall \cup FileCall

\* What a call keeps of its names; a path of a file is never one of a directory.
Named(k) ==
    /\ Len(k.fs) = Len(k.path)
    /\ Len(k.path) = IF k.op = "copy" THEN 2 ELSE 1
    /\ k.op \in {"create", "open", "copy"} => \A n \in DOMAIN k.path : k.path[n] \in FilePaths
    /\ k.op = "mkdir" => Prefixes(k.path[1]) \cap FilePaths = {}

\* The files a call has open, and what it has read or is about to write.
Opened(k) ==
    /\ \A n \in DOMAIN k.file : k.file[n].node \in DOMAIN data \cup {Nothing}
    /\ k.at \in {"held", "close"} => k.op # "copy" /\ Len(k.file) = 1
    /\ k.at = "close" => k.file[1].node # Nothing /\ k.got \in Seq(Byte)

CopyOpened(k) ==
    /\ k.at \in CopySteps
    /\ \A n \in DOMAIN k.file : k.file[n].node # Nothing
    /\ k.at \in {"exists", "copyFile", "openSource"} => k.file = << >>
    /\ k.at \in {"sizeOf", "destination", "create", "openCopy"} => Len(k.file) = 1
    /\ k.at \in {"read", "write", "closeSource", "closeCopy"} => Len(k.file) = 2
    /\ k.at \in {"destination", "create", "openCopy", "read"} => k.got \in Nat
    /\ k.at \in {"write", "closeSource", "closeCopy"} => k.got \in Seq(Byte)
    /\ k.at = "copyFile" => k.fs[1] = k.fs[2]

FileInv(k) == Named(k) /\ Opened(k) /\ (k.op = "copy" => CopyOpened(k))

TableTypes == numMounts \in Nat /\ mount_table \in Table /\ granted \subseteq Entry
DiskInv ==
    /\ data \in Seq(Seq(Byte))
    /\ node \in [FileSystems -> [LocalPaths -> DOMAIN data \cup {Nothing, Directory}]]
    /\ \A f \in FileSystems, p \in FilePaths : node[f][p] # Directory
    /\ down \subseteq FileSystems
CallTypes ==
    /\ call \in [Clients -> Calls]
    /\ \A c \in Clients : call[c] \in FileCall => FileInv(call[c])
    /\ calls \in [Clients -> Nat] /\ \A c \in Clients : calls[c] <= MaxCalls[c]

TypeInv == TableTypes /\ DiskInv /\ CallTypes

\* The entries of the table past the i-th, and the mounts and unmounts that
\* numMounts already, or still, counts.
After(table, i) == {j \in DOMAIN table : j > i /\ table[j] # Empty}
Growing == {c \in Clients : call[c].at \in {"length", "store"}}
Shrinking == {c \in Clients : call[c].at = "uncount"}
Room(i) ==
    i + Cardinality(After(mount_table, i)) + Cardinality(Growing) + Cardinality(Shrinking)
        <= numMounts

\* A mount that has met no other knows how long the table is.
Alone(c) ==
    /\ \A k \in Clients \ {c} : ~Remounting(call[k])
    /\ call[c].at = "store" => Len(mount_table) = numMounts

RoomInv ==
    /\ Room(0)
    /\ \A e \in granted : \E i \in DOMAIN mount_table : mount_table[i] = e /\ Room(i)
    /\ \A c \in Clients : call[c] \in MountCall /\ call[c].quiet => Alone(c)

-----------------------------------------------------------------------------
(* The calls.                                                              *)

Hushed(k) == [k EXCEPT !.quiet = FALSE]

\* Only client c's call goes on; the others may be disturbed.
Moves(c) ==
    /\ call' \in [Clients -> Calls]
    /\ \A k \in Clients \ {c} : call'[k] = call[k] \/ call'[k] = Hushed(call[k])

LEMMA HushedType ==
    ASSUME NEW k \in Calls
    PROVE  /\ Hushed(k) \in Calls /\ Hushed(k).quiet = FALSE /\ k.quiet \in BOOLEAN
           /\ Hushed(k).at = k.at /\ Hushed(k).op = k.op /\ Hushed(k).meant = k.meant
           /\ Hushed(k).before = k.before
           /\ k \in EndedCall => Hushed(k) \in EndedCall /\ Hushed(k).out = k.out
           /\ k \in MountCall => Hushed(k) \in MountCall /\ Hushed(k).entry = k.entry
           /\ Hushed(k) \in MountCall => k \in MountCall
           /\ k \in FileCall => Hushed(k) \in FileCall
           /\ Hushed(k) \in FileCall => k \in FileCall
           /\ k \in FileCall => /\ Hushed(k).fs = k.fs /\ Hushed(k).path = k.path
                                /\ Hushed(k).file = k.file /\ Hushed(k).got = k.got
<1>1. CASE k \in EndedCall
    BY <1>1 DEF Calls, EndedCall, MountCall, UnmountCall, FileCall, FileSteps, CopySteps, Hushed
<1>2. CASE k \in MountCall
    BY <1>2 DEF Calls, EndedCall, MountCall, UnmountCall, FileCall, FileSteps, CopySteps, Hushed
<1>3. CASE k \in UnmountCall
    BY <1>3 DEF Calls, EndedCall, MountCall, UnmountCall, FileCall, FileSteps, CopySteps, Hushed
<1>4. CASE k \in FileCall
    BY <1>4 DEF Calls, EndedCall, MountCall, UnmountCall, FileCall, FileSteps, CopySteps, Hushed
<1> QED BY <1>1, <1>2, <1>3, <1>4 DEF Calls

\* Which kind of call a client is in, by the step it has come to.
LEMMA KindOfCall ==
    ASSUME NEW k \in Calls
    PROVE  /\ k.at \in {"idle", "done"} <=> k \in EndedCall
           /\ k.at \in {"count", "length", "store"} <=> k \in MountCall
           /\ k.at = "uncount" <=> k \in UnmountCall
           /\ k.at \in FileSteps <=> k \in FileCall
           /\ Running(k) <=> k \notin EndedCall
           /\ Remounting(k) <=> k \in MountCall \cup UnmountCall
<1>1. CASE k \in EndedCall
    BY <1>1 DEF EndedCall, MountCall, UnmountCall, FileCall, FileSteps, CopySteps, Running,
       Remounting
<1>2. CASE k \in MountCall
    BY <1>2 DEF EndedCall, MountCall, UnmountCall, FileCall, FileSteps, CopySteps, Running,
       Remounting
<1>3. CASE k \in UnmountCall
    BY <1>3 DEF EndedCall, MountCall, UnmountCall, FileCall, FileSteps, CopySteps, Running,
       Remounting
<1>4. CASE k \in FileCall
    BY <1>4 DEF EndedCall, MountCall, UnmountCall, FileCall, FileSteps, CopySteps, FileOps,
       Operations, Running, Remounting
<1> QED BY <1>1, <1>2, <1>3, <1>4 DEF Calls

LEMMA NotFile ==
    ASSUME NEW k \in EndedCall \cup MountCall \cup UnmountCall
    PROVE  k \notin FileCall
BY DEF EndedCall, MountCall, UnmountCall, FileCall, FileSteps, CopySteps

LEMMA OverType ==
    ASSUME NEW k \in Calls, NEW result \in {"ok", "raised", "cut"}
    PROVE  Over(k, result) \in EndedCall
<1>1. /\ k.op \in Operations \cup {"none"} /\ k.quiet \in BOOLEAN
      /\ k.meant \in Meant /\ k.before \in Before
    BY DEF Calls, EndedCall, MountCall, UnmountCall, FileCall, FileOps, Operations
<1>2. << >> \in Meant /\ << >> \in Before
    BY EmptySeq DEF Meant, Before
<1>3. (k.op = "copy" /\ result = "ok" /\ k.quiet) \in BOOLEAN
    OBVIOUS
<1> QED BY <1>1, <1>2, <1>3 DEF Over, EndedCall

LEMMA MovesPlain ==
    ASSUME CallTypes, NEW c \in Clients, NEW x \in Calls, call' = [call EXCEPT ![c] = x]
    PROVE  Moves(c) /\ call'[c] = x /\ \A k \in Clients \ {c} : call'[k] = call[k]
BY DEF CallTypes, Moves

\* Hushing is what a step does to the calls it may disturb.
LEMMA MovesOthers ==
    ASSUME CallTypes, NEW c \in Clients, NEW x \in Calls, NEW S,
           call' = [[k \in Clients |-> IF k # c /\ k \in S THEN [call[k] EXCEPT !.quiet = FALSE]
                                       ELSE call[k]] EXCEPT ![c] = x]
    PROVE  /\ Moves(c) /\ call'[c] = x
           /\ \A k \in Clients \ {c} :
                  call'[k] = IF k \in S THEN Hushed(call[k]) ELSE call[k]
<1>1. \A k \in Clients : call[k] \in Calls /\ Hushed(call[k]) \in Calls
    BY HushedType DEF CallTypes
<1>2. \A k \in Clients \ {c} : call'[k] = IF k \in S THEN Hushed(call[k]) ELSE call[k]
    BY DEF Hushed
<1>3. call'[c] = x
    OBVIOUS
<1>4. call' \in [Clients -> Calls]
    BY <1>1 DEF Hushed
<1> QED BY <1>2, <1>3, <1>4 DEF Moves

-----------------------------------------------------------------------------
(* Types: mount and unmount.                                               *)

LEMMA CallStep ==
    ASSUME CallTypes, NEW c \in Clients, Moves(c), DOMAIN data \subseteq DOMAIN data',
           UNCHANGED calls \/ \E op \in Operations : Ready(c, op),
           call'[c] \in FileCall => (FileInv(call[c]))'
    PROVE  CallTypes'
<1>1. ASSUME NEW k \in Clients, call'[k] \in FileCall PROVE (FileInv(call[k]))'
    <2>1. CASE k = c
        BY <1>1, <2>1
    <2>2. CASE k # c
        <3>1. call[k] \in Calls /\ (call'[k] = call[k] \/ call'[k] = Hushed(call[k]))
            BY <2>2 DEF CallTypes, Moves
        <3>2. /\ call[k] \in FileCall /\ call'[k].fs = call[k].fs /\ call'[k].path = call[k].path
              /\ call'[k].file = call[k].file /\ call'[k].got = call[k].got
              /\ call'[k].at = call[k].at /\ call'[k].op = call[k].op
            <4>1. CASE call'[k] = call[k]
                BY <1>1, <4>1
            <4>2. CASE call'[k] = Hushed(call[k])
                <5>1. \A x \in Calls : Hushed(x) \in FileCall =>
                          /\ x \in FileCall
                          /\ Hushed(x).at = x.at /\ Hushed(x).op = x.op
                          /\ Hushed(x).fs = x.fs /\ Hushed(x).path = x.path
                          /\ Hushed(x).file = x.file /\ Hushed(x).got = x.got
                    BY HushedType
                <5>2. Hushed(call[k]) \in FileCall
                    BY <1>1, <4>2
                <5>3. call[k] \in Calls
                    BY <3>1
                <5> QED BY <4>2, <5>1, <5>2, <5>3
            <4> QED BY <3>1, <4>1, <4>2
        <3>3. FileInv(call[k])
            BY <3>2 DEF CallTypes
        <3>4. (Named(call[k]))'
            BY <3>2, <3>3 DEF FileInv, Named
        <3>5. (Opened(call[k]))'
            BY <3>2, <3>3 DEF FileInv, Opened
        <3>6. (call[k].op = "copy" => CopyOpened(call[k]))'
            BY <3>2, <3>3 DEF FileInv, CopyOpened
        <3> QED BY <3>4, <3>5, <3>6 DEF FileInv
    <2> QED BY <2>1, <2>2
<1>2. calls' \in [Clients -> Nat] /\ \A k \in Clients : calls'[k] <= MaxCalls[k]
    BY FileManagerBounds DEF CallTypes, Ready
<1> QED BY <1>1, <1>2 DEF CallTypes, Moves

LEMMA DiskStays == DiskInv /\ UNCHANGED <<node, data>> /\ down' \subseteq FileSystems => DiskInv'
BY DEF DiskInv

\* A mount or unmount changes the calls and the table only.
LEMMA RemountTypes ==
    ASSUME TypeInv, NEW c \in Clients, Moves(c), UNCHANGED diskVars,
           UNCHANGED calls \/ \E op \in Operations : Ready(c, op), call'[c] \notin FileCall,
           TableTypes'
    PROVE  TypeInv'
BY DiskStays, CallStep DEF TypeInv, diskVars, DiskInv

LEMMA CallMountEffect ==
    ASSUME TypeInv, NEW c \in Clients, CallMount(c)
    PROVE  /\ ~Running(call[c]) /\ Moves(c) /\ UNCHANGED <<tableVars, diskVars>>
           /\ \E op \in Operations : Ready(c, op)
           /\ call'[c] \in EndedCall \/ /\ call'[c] \in MountCall /\ call'[c].at = "count"
                                        /\ call'[c].quiet =>
                                              \A k \in Clients \ {c} : ~Remounting(call[k])
           /\ \A k \in Clients \ {c} : Remounting(call[k]) => call'[k] = Hushed(call[k])
<1>1. PICK point \in Points, f \in FileSystems :
          LET alone == \A k \in Clients \ {c} : ~Remounting(call[k])
              new == [at |-> "count", op |-> "mount",
                      entry |-> [mountPoint |-> point, fs |-> f],
                      quiet |-> alone, meant |-> << >>, before |-> << >>]
          IN  call' = [Others(c, Remounting) EXCEPT ![c] =
                          IF Mounted(point) THEN Over(new, "raised") ELSE new]
    BY DEF CallMount
<1> DEFINE alone == \A k \in Clients \ {c} : ~Remounting(call[k])
           new == [at |-> "count", op |-> "mount",
                   entry |-> [mountPoint |-> point, fs |-> f],
                   quiet |-> alone, meant |-> << >>, before |-> << >>]
           x == IF Mounted(point) THEN Over(new, "raised") ELSE new
           S == {k \in Clients : Remounting(call[k])}
<1>2. alone \in BOOLEAN /\ << >> \in Meant /\ << >> \in Before
    BY EmptySeq DEF Meant, Before
<1>3. new.quiet = alone
    OBVIOUS
<1> HIDE DEF alone
<1>4. new \in MountCall /\ new.at = "count"
    BY <1>2 DEF MountCall, Entry
<1>5. call' = [[k \in Clients |-> IF k # c /\ k \in S THEN [call[k] EXCEPT !.quiet = FALSE]
                                  ELSE call[k]] EXCEPT ![c] = x]
    BY <1>1 DEF Others, alone
<1> HIDE DEF new
<1>6. x \in Calls /\ (x \in EndedCall \/ x = new)
    BY <1>4, OverType DEF Calls
<1> HIDE DEF x
<1>7. /\ Moves(c) /\ call'[c] = x
      /\ \A k \in Clients \ {c} : call'[k] = IF k \in S THEN Hushed(call[k]) ELSE call[k]
    <2> HIDE DEF S
    <2> QED BY <1>5, <1>6, MovesOthers DEF TypeInv
<1>8. ~Running(call[c]) /\ (\E op \in Operations : Ready(c, op)) /\ UNCHANGED <<tableVars,
                                                                                diskVars>>
    BY DEF CallMount, Ready, Operations
<1> QED BY <1>3, <1>4, <1>6, <1>7, <1>8 DEF alone

LEMMA CallMountTypes == ASSUME TypeInv, NEW c \in Clients, CallMount(c) PROVE TypeInv'
<1>1. call'[c] \notin FileCall
    BY CallMountEffect, NotFile
<1> QED BY <1>1, CallMountEffect, RemountTypes DEF TypeInv, TableTypes, tableVars, diskVars

\* A step of a call that goes on to another step.
LEMMA GotoEffect ==
    ASSUME TypeInv, NEW c \in Clients, NEW step, Goto(c, step),
           [call[c] EXCEPT !.at = step] \in Calls
    PROVE  /\ Moves(c) /\ call'[c] = [call[c] EXCEPT !.at = step]
           /\ \A k \in Clients \ {c} : call'[k] = call[k]
<1>1. call' = [call EXCEPT ![c] = [call[c] EXCEPT !.at = step]]
    BY DEF Goto
<1> HIDE DEF Goto
<1> QED BY <1>1, MovesPlain DEF TypeInv

LEMMA ReturnEffect ==
    ASSUME TypeInv, NEW c \in Clients, NEW result \in {"ok", "raised", "cut"}, Return(c, result)
    PROVE  /\ Moves(c) /\ call'[c] = Over(call[c], result) /\ call'[c] \in EndedCall
           /\ \A k \in Clients \ {c} : call'[k] = call[k]
<1>1. call' = [call EXCEPT ![c] = Over(call[c], result)]
    BY DEF Return
<1>2. call[c] \in Calls
    BY DEF TypeInv, CallTypes
<1>3. Over(call[c], result) \in EndedCall
    BY <1>2, OverType
<1> QED BY <1>1, <1>3, MovesPlain DEF TypeInv, Calls

LEMMA MountAt ==
    ASSUME TypeInv, NEW c \in Clients, call[c].at \in {"count", "length", "store"},
           NEW step \in {"count", "length", "store"}
    PROVE  /\ call[c] \in MountCall /\ call[c].entry \in Entry
           /\ [call[c] EXCEPT !.at = step] \in MountCall
           /\ [call[c] EXCEPT !.at = step].at = step
           /\ [call[c] EXCEPT !.at = step].quiet = call[c].quiet
<1>1. call[c] \in MountCall
    BY KindOfCall DEF TypeInv, CallTypes
<1> QED BY <1>1 DEF MountCall

LEMMA CountMountEffect ==
    ASSUME TypeInv, NEW c \in Clients, CountMount(c)
    PROVE  /\ call[c].at = "count" /\ numMounts' = numMounts + 1 /\ Moves(c)
           /\ call'[c] \in MountCall /\ call'[c].at = "length" /\ call'[c].quiet = call[c].quiet
           /\ \A k \in Clients \ {c} : call'[k] = call[k]
           /\ UNCHANGED <<mount_table, granted, diskVars, calls>>
<1>1. /\ call[c].at = "count" /\ numMounts' = numMounts + 1 /\ Goto(c, "length")
      /\ UNCHANGED <<mount_table, granted, diskVars, calls>>
    BY DEF CountMount
<1>2. /\ [call[c] EXCEPT !.at = "length"] \in MountCall
      /\ [call[c] EXCEPT !.at = "length"].at = "length"
      /\ [call[c] EXCEPT !.at = "length"].quiet = call[c].quiet
    BY <1>1, MountAt
<1>3. /\ Moves(c) /\ call'[c] = [call[c] EXCEPT !.at = "length"]
      /\ \A k \in Clients \ {c} : call'[k] = call[k]
    BY <1>1, <1>2, GotoEffect DEF Calls
<1> QED BY <1>1, <1>2, <1>3

LEMMA CountMountTypes == ASSUME TypeInv, NEW c \in Clients, CountMount(c) PROVE TypeInv'
<1>1. call'[c] \notin FileCall
    BY CountMountEffect, NotFile
<1>2. TableTypes'
    BY CountMountEffect DEF TypeInv, TableTypes
<1> QED BY <1>1, <1>2, CountMountEffect, RemountTypes DEF diskVars

LEMMA RemoveAtElement ==
    ASSUME NEW S, NEW s \in Seq(S), NEW i \in 1 .. Len(s)
    PROVE  /\ RemoveAt(s, i) \in Seq(S) /\ Len(RemoveAt(s, i)) = Len(s) - 1
           /\ \A k \in 1 .. (Len(s) - 1) : RemoveAt(s, i)[k] = IF k < i THEN s[k] ELSE s[k + 1]
<1> DEFINE a == SubSeq(s, 1, i - 1)
           b == SubSeq(s, i + 1, Len(s))
<1>1. Len(s) \in Nat
    BY LenProperties
<1>2. a \in Seq(S) /\ Len(a) = i - 1 /\ \A k \in 1 .. (i - 1) : a[k] = s[k]
    BY <1>1, SubSeqProperties
<1>3. b \in Seq(S) /\ Len(b) = Len(s) - i /\ \A k \in 1 .. (Len(s) - i) : b[k] = s[i + k]
    BY <1>1, SubSeqProperties
<1>4. PICK p \in Seq(S), q \in Seq(S) : p = a /\ q = b
    BY <1>2, <1>3
<1> HIDE DEF a, b
<1>5. /\ p \o q \in Seq(S) /\ Len(p \o q) = Len(p) + Len(q)
      /\ \A k \in 1 .. (Len(p) + Len(q)) : (p \o q)[k] = IF k <= Len(p) THEN p[k] ELSE q[k - Len(p)]
    BY ConcatProperties
<1>6. RemoveAt(s, i) = p \o q
    BY <1>4 DEF RemoveAt, a, b
<1>7. Len(p) = i - 1 /\ Len(q) = Len(s) - i
    BY <1>2, <1>3, <1>4
<1>8. Len(p \o q) = Len(s) - 1
    BY <1>1, <1>5, <1>7
<1>9. ASSUME NEW k \in 1 .. (Len(s) - 1)
      PROVE  (p \o q)[k] = IF k < i THEN s[k] ELSE s[k + 1]
    <2>1. k \in 1 .. (Len(p) + Len(q))
        BY <1>1, <1>7
    <2>2. CASE k < i
        BY <1>1, <1>2, <1>4, <1>5, <1>7, <2>1, <2>2
    <2>3. CASE ~(k < i)
        <3>1. k - Len(p) \in 1 .. (Len(s) - i) /\ i + (k - Len(p)) = k + 1 /\ ~(k <= Len(p))
            BY <1>1, <1>7, <2>3
        <3>2. q[k - Len(p)] = s[k + 1]
            BY <1>3, <1>4, <3>1
        <3> QED BY <1>5, <2>1, <2>3, <3>1, <3>2
    <2> QED BY <2>2, <2>3
<1> QED
    BY <1>5, <1>6, <1>8, <1>9

LEMMA GrowEffect ==
    ASSUME TypeInv, NEW c \in Clients, GrowTable(c)
    PROVE  /\ call[c].at = "length" /\ Moves(c)
           /\ call'[c] \in MountCall /\ call'[c].at = "store" /\ call'[c].quiet = call[c].quiet
           /\ \A k \in Clients \ {c} : numMounts < Len(mount_table) /\ Running(call[k])
                                           => call'[k] = Hushed(call[k])
           /\ UNCHANGED <<numMounts, granted, diskVars, calls>>
           /\ mount_table' \in Table /\ Len(mount_table') = numMounts
           /\ \A i \in 1 .. numMounts :
                  mount_table'[i] = IF i <= Len(mount_table) THEN mount_table[i] ELSE Empty
<1> DEFINE x == [call[c] EXCEPT !.at = "store"]
           S == {k \in Clients : numMounts < Len(mount_table) /\ Running(call[k])}
<1>1. /\ call[c].at = "length" /\ UNCHANGED <<numMounts, granted, diskVars, calls>>
      /\ mount_table' = [i \in 1 .. numMounts |->
                            IF i <= Len(mount_table) THEN mount_table[i] ELSE Empty]
    BY DEF GrowTable
<1>2. /\ x \in MountCall /\ x.at = "store" /\ x.quiet = call[c].quiet
    BY <1>1, MountAt
<1>3. call' = [[k \in Clients |-> IF k # c /\ k \in S THEN [call[k] EXCEPT !.quiet = FALSE]
                                  ELSE call[k]] EXCEPT ![c] = x]
    <2>1. call' = [[k \in Clients |-> IF k # c /\ numMounts < Len(mount_table) /\ Running(call[k])
                                      THEN [call[k] EXCEPT !.quiet = FALSE]
                                      ELSE call[k]] EXCEPT ![c].at = "store"]
        BY DEF GrowTable, Others
    <2> QED BY <2>1
<1>4. /\ Moves(c) /\ call'[c] = x
      /\ \A k \in Clients \ {c} : call'[k] = IF k \in S THEN Hushed(call[k]) ELSE call[k]
    <2> HIDE DEF S, x
    <2> QED BY <1>2, <1>3, MovesOthers DEF TypeInv, Calls
<1>5. numMounts \in Nat /\ Len(mount_table) \in Nat /\ mount_table \in Table
    BY LenProperties DEF TypeInv, TableTypes, Table
<1>6. \A i \in 1 .. Len(mount_table) : mount_table[i] \in Entry \cup {Empty}
    BY <1>5, ElementOfSeq DEF Table
<1>7. mount_table' \in [1 .. numMounts -> Entry \cup {Empty}]
    BY <1>1, <1>5, <1>6
<1>8. mount_table' \in Table
    BY <1>5, <1>7, SeqDef DEF Table
<1>9. Len(mount_table') = numMounts
    BY <1>5, <1>7
<1> QED BY <1>1, <1>2, <1>4, <1>8, <1>9

LEMMA GrowTypes == ASSUME TypeInv, NEW c \in Clients, GrowTable(c) PROVE TypeInv'
<1>1. call'[c] \notin FileCall
    BY GrowEffect, NotFile
<1>2. TableTypes'
    BY GrowEffect DEF TypeInv, TableTypes
<1> QED BY <1>1, <1>2, GrowEffect, RemountTypes DEF diskVars

LEMMA StoreEffect ==
    ASSUME TypeInv, NEW c \in Clients, StoreMount(c)
    PROVE  /\ call[c].at = "store" /\ call[c] \in MountCall /\ call[c].entry \in Entry
           /\ Moves(c) /\ call'[c] \in EndedCall
           /\ UNCHANGED <<numMounts, diskVars, calls>>
           /\ \/ UNCHANGED <<mount_table, granted>> /\ Len(mount_table) < numMounts
              \/ /\ numMounts \in 1 .. Len(mount_table) /\ mount_table' \in Table
                 /\ Len(mount_table') = Len(mount_table)
                 /\ mount_table' = [mount_table EXCEPT ![numMounts] = call[c].entry]
                 /\ granted' = IF call[c].quiet THEN granted \cup {call[c].entry} ELSE granted
                 /\ mount_table[numMounts] # Empty =>
                        \A k \in Clients \ {c} : call'[k] = Hushed(call[k])
<1> DEFINE S == {k \in Clients : mount_table[numMounts] # Empty}
<1>1. call[c].at = "store" /\ UNCHANGED <<numMounts, diskVars, calls>>
    BY DEF StoreMount
<1>2. call[c] \in MountCall /\ call[c].entry \in Entry /\ call[c] \in Calls
    BY <1>1, MountAt DEF Calls
<1>3. numMounts \in Nat /\ Len(mount_table) \in Nat /\ DOMAIN mount_table = 1 .. Len(mount_table)
    BY LenProperties DEF TypeInv, TableTypes, Table
<1>4. CASE numMounts > Len(mount_table) /\ Raise(c) /\ UNCHANGED <<mount_table, granted>>
    BY <1>1, <1>2, <1>3, <1>4, ReturnEffect DEF Raise
<1>5. CASE /\ numMounts \in DOMAIN mount_table
           /\ mount_table' = [mount_table EXCEPT ![numMounts] = call[c].entry]
           /\ granted' = IF call[c].quiet THEN granted \cup {call[c].entry} ELSE granted
           /\ LET Replaced(k) == mount_table[numMounts] # Empty
              IN  call' = [Others(c, Replaced) EXCEPT ![c] = Over(@, "ok")]
    <2>1. call' = [[k \in Clients |-> IF k # c /\ k \in S THEN [call[k] EXCEPT !.quiet = FALSE]
                                      ELSE call[k]] EXCEPT ![c] = Over(call[c], "ok")]
        BY <1>5 DEF Others
    <2>2. Over(call[c], "ok") \in EndedCall
        BY <1>2, OverType
    <2>3. /\ Moves(c) /\ call'[c] = Over(call[c], "ok")
          /\ \A k \in Clients \ {c} : call'[k] = IF k \in S THEN Hushed(call[k]) ELSE call[k]
        <3> HIDE DEF S
        <3> QED BY <2>1, <2>2, MovesOthers DEF TypeInv, Calls
    <2>4. mount_table' \in Table /\ Len(mount_table') = Len(mount_table)
        BY <1>2, <1>3, <1>5, ExceptSeq DEF Table, TypeInv, TableTypes
    <2> QED BY <1>1, <1>2, <1>3, <1>5, <2>2, <2>3, <2>4
<1> QED BY <1>4, <1>5 DEF StoreMount

LEMMA StoreTypes == ASSUME TypeInv, NEW c \in Clients, StoreMount(c) PROVE TypeInv'
<1>1. call'[c] \notin FileCall
    BY StoreEffect, NotFile
<1>2. TableTypes'
    BY StoreEffect DEF TypeInv, TableTypes
<1> QED BY <1>1, <1>2, StoreEffect, RemountTypes DEF diskVars

LEMMA CallUnmountEffect ==
    ASSUME TypeInv, NEW c \in Clients, CallUnmount(c)
    PROVE  /\ ~Running(call[c]) /\ Moves(c) /\ UNCHANGED <<numMounts, diskVars>>
           /\ \E op \in Operations : Ready(c, op)
           /\ \/ call'[c] \in EndedCall /\ UNCHANGED <<mount_table, granted>>
              \/ /\ call'[c] \in UnmountCall
                 /\ \A k \in Clients \ {c} : Running(call[k]) => call'[k] = Hushed(call[k])
                 /\ \E i \in DOMAIN mount_table :
                        /\ mount_table[i] # Empty /\ mount_table' = RemoveAt(mount_table, i)
                        /\ granted' = {e \in granted : e.mountPoint # mount_table[i].mountPoint}
<1> DEFINE Hits(point) == {i \in 1 .. numMounts :
                              i > Len(mount_table) \/ mount_table[i].mountPoint = point}
           Missing(point) == \/ Hits(point) = {}
                             \/ Min(Hits(point) \cup {numMounts + 1}) > Len(mount_table)
           new == [at |-> "uncount", op |-> "unmount",
                   quiet |-> TRUE, meant |-> << >>, before |-> << >>]
           S == {k \in Clients : Running(call[k])}
<1>1. PICK point \in Points :
          \/ /\ Missing(point)
             /\ call' = [call EXCEPT ![c] = Over(new, "raised")]
             /\ UNCHANGED <<mount_table, granted>>
          \/ /\ ~Missing(point)
             /\ mount_table' = RemoveAt(mount_table, Min(Hits(point)))
             /\ granted' = {e \in granted : e.mountPoint # point}
             /\ call' = [Others(c, Running) EXCEPT ![c] = new]
    BY DEF CallUnmount
<1>2. ~Running(call[c]) /\ (\E op \in Operations : Ready(c, op)) /\ UNCHANGED <<numMounts,
                                                                                diskVars>>
    BY DEF CallUnmount, Ready, Operations
<1>3. << >> \in Meant /\ << >> \in Before
    BY EmptySeq DEF Meant, Before
<1>4. new \in UnmountCall /\ new \in Calls
    BY <1>3 DEF UnmountCall, Calls
<1> HIDE DEF new
<1>5. CASE /\ call' = [call EXCEPT ![c] = Over(new, "raised")]
           /\ UNCHANGED <<mount_table, granted>>
    <2>1. Over(new, "raised") \in EndedCall
        BY <1>4, OverType
    <2> QED BY <1>2, <1>5, <2>1, MovesPlain DEF TypeInv, Calls
<1>6. CASE /\ ~Missing(point)
           /\ mount_table' = RemoveAt(mount_table, Min(Hits(point)))
           /\ granted' = {e \in granted : e.mountPoint # point}
           /\ call' = [Others(c, Running) EXCEPT ![c] = new]
    <2>1. call' = [[k \in Clients |-> IF k # c /\ k \in S THEN [call[k] EXCEPT !.quiet = FALSE]
                                      ELSE call[k]] EXCEPT ![c] = new]
        BY <1>6 DEF Others
    <2>2. /\ Moves(c) /\ call'[c] = new
          /\ \A k \in Clients \ {c} : call'[k] = IF k \in S THEN Hushed(call[k]) ELSE call[k]
        <3> HIDE DEF S
        <3> QED BY <1>4, <2>1, MovesOthers DEF TypeInv
    <2> DEFINE h == Hits(point)
               i == Min(h)
    <2>3. numMounts \in Nat /\ Len(mount_table) \in Nat /\ DOMAIN mount_table = 1 .. Len(mount_table)
        BY LenProperties DEF TypeInv, TableTypes, Table
    <2>4. h # {} /\ Min(h \cup {numMounts + 1}) <= Len(mount_table)
        <3>1. h # {} /\ ~(Min(h \cup {numMounts + 1}) > Len(mount_table))
            BY <1>6
        <3>2. h \cup {numMounts + 1} \in SUBSET Nat
            BY <2>3
        <3>3. Min(h \cup {numMounts + 1}) \in Nat
            <4> HIDE DEF h
            <4> QED BY <3>2, MinExists
        <3> QED BY <2>3, <3>1, <3>3
    <2>5. h \in SUBSET Nat /\ \A y \in h : y < numMounts + 1
        BY <2>3
    <2>6. Min(h) = Min(h \cup {numMounts + 1})
        <3> HIDE DEF h
        <3>1. /\ Min(h) \in h /\ \A y \in h : Min(h) <= y
            BY <2>4, <2>5, MinExists
        <3>2. /\ Min(h \cup {numMounts + 1}) \in h \cup {numMounts + 1}
              /\ \A y \in h \cup {numMounts + 1} : Min(h \cup {numMounts + 1}) <= y
            <4>1. h \cup {numMounts + 1} \in SUBSET Nat
                BY <2>3, <2>5
            <4> QED BY <4>1, MinExists
        <3> DEFINE b == Min(h \cup {numMounts + 1})
        <3>3. Min(h) \in h /\ Min(h) \in Nat /\ Min(h) < numMounts + 1
            BY <2>5, <3>1
        <3>4. b <= Min(h) /\ (b \in h \/ b = numMounts + 1)
            BY <3>2, <3>3
        <3> HIDE DEF b
        <3>5. b \in h /\ b \in Nat
            <4>1. numMounts \in Nat
                BY <2>3
            <4>2. b # numMounts + 1
                BY <3>3, <3>4, <4>1
            <4>3. b \in h
                BY <3>4, <4>2
            <4> QED BY <2>5, <4>3
        <3> QED BY <3>1, <3>3, <3>4, <3>5 DEF b
    <2>7. i \in h
        <3> HIDE DEF h
        <3> QED BY <2>4, <2>5, MinExists
    <2>8. i \in DOMAIN mount_table /\ mount_table[i].mountPoint = point
        <3>1. i \in 1 .. numMounts /\ (i > Len(mount_table) \/ mount_table[i].mountPoint = point)
            <4> HIDE DEF i
            <4> QED BY <2>7
        <3>2. i <= Len(mount_table)
            BY <2>4, <2>6
        <3> HIDE DEF i
        <3> QED BY <2>3, <3>1, <3>2
    <2>9. mount_table[i] # Empty
        BY <2>8, MarkAssumption DEF Empty
    <2>10. mount_table' = RemoveAt(mount_table, i)
        BY <1>6
    <2> HIDE DEF h, i
    <2> QED BY <1>2, <1>4, <1>6, <2>2, <2>8, <2>9, <2>10
<1> HIDE DEF Missing, Hits
<1> QED BY <1>1, <1>5, <1>6

LEMMA CallUnmountTypes == ASSUME TypeInv, NEW c \in Clients, CallUnmount(c) PROVE TypeInv'
<1>1. call'[c] \notin FileCall
    BY CallUnmountEffect, NotFile
<1>2. CASE UNCHANGED <<mount_table, granted>>
    BY <1>1, <1>2, CallUnmountEffect, RemountTypes DEF TypeInv, TableTypes, diskVars
<1>3. CASE \E i \in DOMAIN mount_table :
               /\ mount_table' = RemoveAt(mount_table, i)
               /\ granted' = {e \in granted : e.mountPoint # mount_table[i].mountPoint}
    <2>1. mount_table \in Table /\ DOMAIN mount_table = 1 .. Len(mount_table)
        BY LenProperties DEF TypeInv, TableTypes, Table
    <2>2. mount_table' \in Table
        BY <1>3, <2>1, RemoveAtElement DEF Table
    <2>3. TableTypes'
        BY <1>3, <2>2, CallUnmountEffect DEF TypeInv, TableTypes
    <2> QED BY <1>1, <2>3, CallUnmountEffect, RemountTypes DEF diskVars
<1> QED BY <1>2, <1>3, CallUnmountEffect

\* How many mounts and unmounts there are on the way.
LEMMA Counted ==
    ASSUME TypeInv
    PROVE  /\ IsFiniteSet(Growing) /\ IsFiniteSet(Shrinking)
           /\ Cardinality(Growing) \in Nat /\ Cardinality(Shrinking) \in Nat
BY FileManagerBounds, FS_Subset, FS_CardinalityType DEF Growing, Shrinking

LEMMA AfterFinite ==
    ASSUME NEW T \in Table, NEW i \in Nat
    PROVE  IsFiniteSet(After(T, i)) /\ Cardinality(After(T, i)) \in Nat
<1>1. DOMAIN T = 1 .. Len(T) /\ Len(T) \in Nat
    BY LenProperties DEF Table
<1>2. IsFiniteSet(1 .. Len(T)) /\ After(T, i) \in SUBSET (1 .. Len(T))
    BY <1>1, FS_Interval DEF After
<1> QED BY <1>2, FS_Subset, FS_CardinalityType

LEMMA OthersAt ==
    ASSUME TypeInv, NEW c \in Clients, Moves(c)
    PROVE  \A k \in Clients \ {c} :
               /\ call'[k].at = call[k].at /\ call'[k].op = call[k].op
               /\ call'[k].quiet => call[k].quiet /\ call'[k] = call[k]
               /\ Remounting(call'[k]) <=> Remounting(call[k])
               /\ call'[k] \in MountCall => call[k] \in MountCall
<1> SUFFICES ASSUME NEW k \in Clients \ {c}
             PROVE  /\ call'[k].at = call[k].at /\ call'[k].op = call[k].op
                    /\ call'[k].quiet => call[k].quiet /\ call'[k] = call[k]
                    /\ Remounting(call'[k]) <=> Remounting(call[k])
                    /\ call'[k] \in MountCall => call[k] \in MountCall
    OBVIOUS
<1>1. call[k] \in Calls /\ (call'[k] = call[k] \/ call'[k] = Hushed(call[k]))
    BY DEF TypeInv, CallTypes, Moves
<1>2. CASE call'[k] = call[k]
    BY <1>2
<1>3. CASE call'[k] = Hushed(call[k])
    <2>1. /\ Hushed(call[k]).at = call[k].at /\ Hushed(call[k]).op = call[k].op
          /\ Hushed(call[k]).quiet = FALSE
          /\ Hushed(call[k]) \in MountCall => call[k] \in MountCall
        BY <1>1, HushedType
    <2> QED BY <1>3, <2>1 DEF Remounting, Running
<1> QED BY <1>1, <1>2, <1>3

LEMMA CountedStep ==
    ASSUME TypeInv, NEW c \in Clients, Moves(c)
    PROVE  /\ Cardinality(Growing') =
                  Cardinality(Growing) - (IF call[c].at \in {"length", "store"} THEN 1 ELSE 0)
                                       + (IF call'[c].at \in {"length", "store"} THEN 1 ELSE 0)
           /\ Cardinality(Shrinking') =
                  Cardinality(Shrinking) - (IF call[c].at = "uncount" THEN 1 ELSE 0)
                                         + (IF call'[c].at = "uncount" THEN 1 ELSE 0)
<1>1. \A k \in Clients \ {c} : call'[k].at = call[k].at
    BY OthersAt
<1>2. /\ IsFiniteSet(Growing) /\ IsFiniteSet(Shrinking)
      /\ Cardinality(Growing) \in Nat /\ Cardinality(Shrinking) \in Nat
    BY Counted
<1>3. /\ IsFiniteSet(Growing \ {c}) /\ IsFiniteSet(Shrinking \ {c})
      /\ Cardinality(Growing \ {c}) = IF c \in Growing THEN Cardinality(Growing) - 1
                                      ELSE Cardinality(Growing)
      /\ Cardinality(Shrinking \ {c}) = IF c \in Shrinking THEN Cardinality(Shrinking) - 1
                                        ELSE Cardinality(Shrinking)
    BY <1>2, FS_RemoveElement
<1>4. /\ Cardinality((Growing \ {c}) \cup {c}) = Cardinality(Growing \ {c}) + 1
      /\ Cardinality((Shrinking \ {c}) \cup {c}) = Cardinality(Shrinking \ {c}) + 1
    BY <1>3, FS_AddElement
<1>5. Growing' = IF call'[c].at \in {"length", "store"} THEN (Growing \ {c}) \cup {c}
                 ELSE Growing \ {c}
    BY <1>1 DEF Growing
<1>6. Shrinking' = IF call'[c].at = "uncount" THEN (Shrinking \ {c}) \cup {c} ELSE Shrinking \ {c}
    BY <1>1 DEF Shrinking
<1>7. /\ c \in Growing <=> call[c].at \in {"length", "store"}
      /\ c \in Shrinking <=> call[c].at = "uncount"
    BY DEF Growing, Shrinking
<1>8. Cardinality(Growing') =
          Cardinality(Growing) - (IF call[c].at \in {"length", "store"} THEN 1 ELSE 0)
                               + (IF call'[c].at \in {"length", "store"} THEN 1 ELSE 0)
    <2>1. CASE call'[c].at \in {"length", "store"}
        BY <1>2, <1>3, <1>4, <1>5, <1>7, <2>1
    <2>2. CASE call'[c].at \notin {"length", "store"}
        BY <1>2, <1>3, <1>5, <1>7, <2>2
    <2> QED BY <2>1, <2>2
<1>9. Cardinality(Shrinking') =
          Cardinality(Shrinking) - (IF call[c].at = "uncount" THEN 1 ELSE 0)
                                 + (IF call'[c].at = "uncount" THEN 1 ELSE 0)
    <2>1. CASE call'[c].at = "uncount"
        BY <1>2, <1>3, <1>4, <1>6, <1>7, <2>1
    <2>2. CASE call'[c].at # "uncount"
        BY <1>2, <1>3, <1>6, <1>7, <2>2
    <2> QED BY <2>1, <2>2
<1> QED BY <1>8, <1>9

LEMMA CountUnmountEffect ==
    ASSUME TypeInv, RoomInv, NEW c \in Clients, CountUnmount(c)
    PROVE  /\ call[c].at = "uncount" /\ Moves(c) /\ call'[c] \in EndedCall
           /\ numMounts' = numMounts - 1 /\ numMounts' \in Nat
           /\ \A k \in Clients \ {c} : call'[k] = call[k]
           /\ UNCHANGED <<mount_table, granted, diskVars, calls>>
<1>1. /\ call[c].at = "uncount" /\ numMounts' = numMounts - 1 /\ Return(c, "ok")
      /\ UNCHANGED <<mount_table, granted, diskVars, calls>>
    BY DEF CountUnmount
<1>2. /\ Moves(c) /\ call'[c] \in EndedCall /\ \A k \in Clients \ {c} : call'[k] = call[k]
    BY <1>1, ReturnEffect
<1>3. /\ Cardinality(Growing) \in Nat /\ Cardinality(Shrinking) \in Nat
      /\ Cardinality(After(mount_table, 0)) \in Nat /\ numMounts \in Nat
    BY Counted, AfterFinite DEF TypeInv, TableTypes
<1>4. Cardinality(Shrinking) >= 1
    <2>1. c \in Shrinking
        BY <1>1 DEF Shrinking
    <2> QED BY <1>3, <2>1, Counted, FS_EmptySet
<1>5. numMounts >= 1
    BY <1>3, <1>4 DEF RoomInv, Room
<1> QED BY <1>1, <1>2, <1>3, <1>5

LEMMA CountUnmountTypes ==
    ASSUME TypeInv, RoomInv, NEW c \in Clients, CountUnmount(c) PROVE TypeInv'
<1>1. call'[c] \notin FileCall
    BY CountUnmountEffect, NotFile
<1>2. TableTypes'
    BY CountUnmountEffect DEF TypeInv, TableTypes
<1> QED BY <1>1, <1>2, CountUnmountEffect, RemountTypes DEF diskVars

-----------------------------------------------------------------------------
(* The counts.                                                             *)

Counts(i) ==
    /\ Cardinality(After(mount_table, i)) \in Nat
    /\ Cardinality(Growing) \in Nat /\ Cardinality(Shrinking) \in Nat
    /\ numMounts \in Nat /\ i \in Nat

LEMMA CountsType == ASSUME TypeInv, NEW i \in Nat PROVE Counts(i)
BY Counted, AfterFinite DEF Counts, TypeInv, TableTypes

LEMMA TableIndex == TypeInv => DOMAIN mount_table = 1 .. Len(mount_table) /\ Len(mount_table) \in Nat
BY LenProperties DEF TypeInv, TableTypes, Table

\* A step after which client c is neither mounting nor unmounting.
LEMMA QuietEnds ==
    ASSUME TypeInv, RoomInv, NEW c \in Clients, Moves(c), ~Remounting(call'[c]),
           call'[c] \notin MountCall,
           UNCHANGED <<mount_table, numMounts>> \/ Remounting(call[c])
    PROVE  \A k \in Clients : call'[k] \in MountCall /\ call'[k].quiet => (Alone(k))'
<1> SUFFICES ASSUME NEW k \in Clients, call'[k] \in MountCall, call'[k].quiet PROVE (Alone(k))'
    OBVIOUS
<1>1. k # c
    OBVIOUS
<1>2. call'[k] = call[k] /\ call[k] \in MountCall /\ call[k].quiet
    BY <1>1, OthersAt
<1>3. Alone(k)
    BY <1>2 DEF RoomInv
<1>4. UNCHANGED <<mount_table, numMounts>>
    BY <1>1, <1>3 DEF Alone
<1>5. \A j \in Clients \ {k} : ~Remounting(call'[j])
    BY <1>3, OthersAt DEF Alone
<1> QED BY <1>2, <1>3, <1>4, <1>5 DEF Alone

\* A step of a mount that goes on.
LEMMA QuietGoesOn ==
    ASSUME TypeInv, RoomInv, NEW c \in Clients, Moves(c),
           \/ Remounting(call[c]) /\ (call'[c].quiet => call[c] \in MountCall /\ call[c].quiet)
           \/ /\ \A k \in Clients \ {c} : Remounting(call[k]) => call'[k] = Hushed(call[k])
              /\ call'[c] \in MountCall /\ call'[c].quiet =>
                     \A k \in Clients \ {c} : ~Remounting(call[k]),
           call'[c] \in MountCall /\ call'[c].at = "store" => Len(mount_table') = numMounts'
    PROVE  \A k \in Clients : call'[k] \in MountCall /\ call'[k].quiet => (Alone(k))'
<1> SUFFICES ASSUME NEW k \in Clients, call'[k] \in MountCall, call'[k].quiet PROVE (Alone(k))'
    OBVIOUS
<1>1. CASE k = c
    <2>1. \A j \in Clients \ {c} : ~Remounting(call[j])
        BY <1>1 DEF RoomInv, Alone
    <2>2. \A j \in Clients \ {c} : ~Remounting(call'[j])
        BY <2>1, OthersAt
    <2> QED BY <1>1, <2>2 DEF Alone
<1>2. CASE k # c
    <2>1. call'[k] = call[k] /\ call[k] \in MountCall /\ call[k].quiet
        BY <1>2, OthersAt
    <2>2. Alone(k) /\ ~Remounting(call[c])
        BY <1>2, <2>1 DEF RoomInv, Alone
    <2>3. call[k] \in Calls /\ Remounting(call[k])
        BY <2>1, KindOfCall DEF Calls
    <2>4. call'[k] = Hushed(call[k])
        BY <1>2, <2>2, <2>3
    <2>5. Hushed(call[k]).quiet = FALSE
        BY <2>3, HushedType
    <2>6. call'[k].quiet = FALSE
        BY <2>4, <2>5
    <2> QED BY <2>6
<1> QED BY <1>1, <1>2

\* Where the counts of the table's entries do not grow, what is granted stays.
LEMMA RoomStays ==
    ASSUME TypeInv, TypeInv', NEW i \in Nat, Room(i),
           After(mount_table', i) \subseteq After(mount_table, i),
           Cardinality(Growing') + Cardinality(Shrinking') - numMounts'
               <= Cardinality(Growing) + Cardinality(Shrinking) - numMounts
    PROVE  (Room(i))'
<1>1. Counts(i)
    BY CountsType
<1>2. (Counts(i))'
    BY CountsType, PTL
<1>3. IsFiniteSet(After(mount_table, i))
    BY AfterFinite DEF TypeInv, TableTypes
<1>4. Cardinality(After(mount_table', i)) <= Cardinality(After(mount_table, i))
    BY <1>3, FS_Subset
<1> QED BY <1>1, <1>2, <1>4 DEF Room, Counts

LEMMA SameTable ==
    ASSUME TypeInv, RoomInv, TypeInv', UNCHANGED <<mount_table, granted>>,
           Cardinality(Growing') + Cardinality(Shrinking') - numMounts'
               <= Cardinality(Growing) + Cardinality(Shrinking) - numMounts,
           \A k \in Clients : call'[k] \in MountCall /\ call'[k].quiet => (Alone(k))'
    PROVE  RoomInv'
<1>1. \A i \in Nat : Room(i) => (Room(i))'
    BY RoomStays
<1>2. (Room(0))' /\ DOMAIN mount_table \subseteq Nat
    BY <1>1, TableIndex DEF RoomInv
<1>3. \A e \in granted' : \E i \in DOMAIN mount_table' : mount_table'[i] = e /\ (Room(i))'
    BY <1>1, <1>2 DEF RoomInv
<1> QED BY <1>2, <1>3 DEF RoomInv

LEMMA CallMountRoom ==
    ASSUME TypeInv, RoomInv, NEW c \in Clients, CallMount(c) PROVE RoomInv'
<1>1. TypeInv' /\ Moves(c) /\ UNCHANGED tableVars
    BY CallMountTypes, CallMountEffect
<1>2. call[c] \in EndedCall /\ call[c] \in Calls
    BY CallMountEffect, KindOfCall DEF TypeInv, CallTypes
<1>3. /\ call[c].at \notin {"length", "store", "uncount"}
      /\ call'[c].at \notin {"length", "store", "uncount"}
    BY <1>2, CallMountEffect DEF EndedCall
<1>4. Cardinality(Growing') = Cardinality(Growing) /\ Cardinality(Shrinking') = Cardinality(Shrinking)
    BY <1>1, <1>3, CountedStep, Counted
<1>5. call'[c] \in EndedCall => call'[c] \notin MountCall
    BY DEF EndedCall, MountCall
<1>6. \A k \in Clients : call'[k] \in MountCall /\ call'[k].quiet => (Alone(k))'
    BY <1>1, <1>3, <1>5, CallMountEffect, QuietGoesOn
<1>7. UNCHANGED <<mount_table, granted, numMounts>> /\ numMounts \in Nat
    BY <1>1 DEF tableVars, TypeInv, TableTypes
<1> QED BY <1>1, <1>4, <1>6, <1>7, SameTable, Counted

LEMMA CountMountRoom ==
    ASSUME TypeInv, RoomInv, NEW c \in Clients, CountMount(c) PROVE RoomInv'
<1>1. TypeInv' /\ Moves(c) /\ UNCHANGED <<mount_table, granted>> /\ numMounts' = numMounts + 1
    BY CountMountTypes, CountMountEffect
<1>2. call[c] \in MountCall /\ call[c] \in Calls
    BY CountMountEffect, MountAt DEF Calls
<1>3. call[c].at = "count" /\ call'[c].at = "length"
    BY CountMountEffect
<1>4. /\ Cardinality(Growing') = Cardinality(Growing) + 1
      /\ Cardinality(Shrinking') = Cardinality(Shrinking)
    BY <1>1, <1>3, CountedStep, Counted
<1>5. Remounting(call[c])
    BY <1>2, KindOfCall
<1>6. \A k \in Clients : call'[k] \in MountCall /\ call'[k].quiet => (Alone(k))'
    BY <1>1, <1>2, <1>3, <1>5, CountMountEffect, QuietGoesOn
<1>7. numMounts \in Nat
    BY DEF TypeInv, TableTypes
<1> QED BY <1>1, <1>4, <1>6, <1>7, SameTable, Counted

LEMMA GrowRoom ==
    ASSUME TypeInv, RoomInv, NEW c \in Clients, GrowTable(c) PROVE RoomInv'
<1>1. /\ TypeInv' /\ Moves(c) /\ UNCHANGED <<numMounts, granted>> /\ numMounts \in Nat
      /\ DOMAIN mount_table = 1 .. Len(mount_table) /\ Len(mount_table) \in Nat
    BY GrowTypes, GrowEffect, TableIndex DEF TypeInv, TableTypes
<1>2. /\ DOMAIN mount_table' = 1 .. numMounts /\ Len(mount_table') = numMounts
      /\ \A i \in 1 .. numMounts :
             mount_table'[i] = IF i <= Len(mount_table) THEN mount_table[i] ELSE Empty
    BY <1>1, GrowEffect, LenProperties DEF Table
<1>3. call[c].at = "length" /\ call'[c].at = "store"
    BY GrowEffect
<1>4. /\ Cardinality(Growing') = Cardinality(Growing)
      /\ Cardinality(Shrinking') = Cardinality(Shrinking)
      /\ Cardinality(Growing) \in Nat /\ Cardinality(Shrinking) \in Nat
    BY <1>1, <1>3, CountedStep, Counted
<1>5. call[c] \in MountCall /\ Remounting(call[c])
    BY <1>3, MountAt, KindOfCall DEF Calls
<1>6. \A k \in Clients : call'[k] \in MountCall /\ call'[k].quiet => (Alone(k))'
    BY <1>1, <1>2, <1>5, GrowEffect, QuietGoesOn
<1>7. \A i \in Nat : After(mount_table', i) \subseteq After(mount_table, i)
    BY <1>1, <1>2 DEF After
<1>8. \A i \in Nat : Room(i) => (Room(i))'
    BY <1>1, <1>4, <1>7, RoomStays
<1>9. ASSUME NEW e \in granted PROVE \E i \in DOMAIN mount_table' : mount_table'[i] = e /\ (Room(i))'
    <2>1. PICK i \in DOMAIN mount_table : mount_table[i] = e /\ Room(i)
        BY <1>9 DEF RoomInv
    <2>2. i \in Nat /\ i <= Len(mount_table) /\ i >= 1
        BY <1>1
    <2>3. i <= numMounts
        <3>1. Counts(i)
            BY <2>2, CountsType
        <3> QED BY <2>1, <3>1 DEF Room, Counts
    <2>4. i \in DOMAIN mount_table' /\ mount_table'[i] = e
        BY <1>1, <1>2, <2>1, <2>2, <2>3
    <2> QED BY <1>8, <2>1, <2>2, <2>4
<1>10. (Room(0))'
    BY <1>8 DEF RoomInv
<1> QED BY <1>1, <1>6, <1>9, <1>10 DEF RoomInv

LEMMA StoreRoom ==
    ASSUME TypeInv, RoomInv, NEW c \in Clients, StoreMount(c) PROVE RoomInv'
<1>1. /\ TypeInv' /\ Moves(c) /\ UNCHANGED numMounts /\ numMounts \in Nat
      /\ DOMAIN mount_table = 1 .. Len(mount_table) /\ Len(mount_table) \in Nat
      /\ call[c].at = "store" /\ call[c] \in MountCall /\ call[c].entry \in Entry
      /\ call'[c] \in EndedCall
    BY StoreTypes, StoreEffect, TableIndex DEF TypeInv, TableTypes
<1>2. call'[c].at \in {"idle", "done"} /\ call'[c] \notin MountCall /\ ~Remounting(call'[c])
    BY <1>1 DEF EndedCall, MountCall, Remounting, Running
<1>3. /\ Cardinality(Growing') = Cardinality(Growing) - 1
      /\ Cardinality(Shrinking') = Cardinality(Shrinking)
      /\ Cardinality(Growing) \in Nat \ {0} /\ Cardinality(Shrinking) \in Nat
    <2>1. /\ Cardinality(Growing) \in Nat /\ Cardinality(Shrinking) \in Nat
          /\ IsFiniteSet(Growing)
        BY Counted
    <2>2. c \in Growing
        BY <1>1 DEF Growing
    <2>3. Cardinality(Growing) >= 1
        BY <2>1, <2>2, FS_EmptySet
    <2> QED BY <1>1, <1>2, <2>1, <2>3, CountedStep
<1>4. Remounting(call[c])
    BY <1>1, KindOfCall DEF Calls
<1>5. \A k \in Clients : call'[k] \in MountCall /\ call'[k].quiet => (Alone(k))'
    BY <1>1, <1>2, <1>4, QuietEnds
<1>6. CASE UNCHANGED <<mount_table, granted>>
    BY <1>1, <1>3, <1>5, <1>6, SameTable
<1>7. CASE /\ numMounts \in 1 .. Len(mount_table) /\ mount_table' \in Table
           /\ Len(mount_table') = Len(mount_table)
           /\ mount_table' = [mount_table EXCEPT ![numMounts] = call[c].entry]
           /\ granted' = IF call[c].quiet THEN granted \cup {call[c].entry} ELSE granted
    <2>1. \A i \in DOMAIN mount_table :
              mount_table'[i] = IF i = numMounts THEN call[c].entry ELSE mount_table[i]
        BY <1>1, <1>7
    <2>2. DOMAIN mount_table' = DOMAIN mount_table
        BY <1>7
    <2>3. ASSUME NEW i \in Nat, Room(i) PROVE (Room(i))'
        <3>1. Counts(i) /\ (Counts(i))'
            BY <1>1, CountsType, PTL
        <3>2. After(mount_table', i) \subseteq After(mount_table, i) \cup {numMounts}
            BY <2>1, <2>2 DEF After
        <3>3. IsFiniteSet(After(mount_table, i))
            BY AfterFinite DEF TypeInv, TableTypes
        <3>4. /\ IsFiniteSet(After(mount_table, i) \cup {numMounts})
              /\ Cardinality(After(mount_table, i) \cup {numMounts})
                     <= Cardinality(After(mount_table, i)) + 1
            <4>1. Cardinality(After(mount_table, i)) \in Nat
                BY <3>1 DEF Counts
            <4>2. Cardinality(After(mount_table, i) \cup {numMounts})
                      \in {Cardinality(After(mount_table, i)), Cardinality(After(mount_table, i)) + 1}
                BY <3>3, FS_AddElement
            <4>3. IsFiniteSet(After(mount_table, i) \cup {numMounts})
                BY <3>3, FS_AddElement
            <4> QED BY <4>1, <4>2, <4>3
        <3>5. /\ Cardinality(After(mount_table', i))
                    <= Cardinality(After(mount_table, i) \cup {numMounts})
              /\ Cardinality(After(mount_table, i) \cup {numMounts}) \in Nat
            BY <3>2, <3>4, FS_Subset, FS_CardinalityType
        <3>6. Cardinality(After(mount_table', i)) <= Cardinality(After(mount_table, i)) + 1
            <4>1. /\ Cardinality(After(mount_table, i)) \in Nat
                  /\ Cardinality(After(mount_table', i)) \in Nat
                BY <3>1 DEF Counts
            <4> QED BY <3>4, <3>5, <4>1
        <3>7. /\ i \in Nat /\ numMounts \in Nat
              /\ Cardinality(After(mount_table, i)) \in Nat
              /\ Cardinality(After(mount_table', i)) \in Nat
            BY <3>1 DEF Counts
        <3>8. i + Cardinality(After(mount_table, i)) + Cardinality(Growing)
                  + Cardinality(Shrinking) <= numMounts
            BY <2>3 DEF Room
        <3>9. i + Cardinality(After(mount_table', i)) + Cardinality(Growing')
                  + Cardinality(Shrinking') <= numMounts
            BY <1>3, <3>6, <3>7, <3>8
        <3> QED BY <1>1, <3>9 DEF Room
    <2>4. ASSUME NEW e \in granted
          PROVE  \E i \in DOMAIN mount_table' : mount_table'[i] = e /\ (Room(i))'
        <3>1. PICK i \in DOMAIN mount_table : mount_table[i] = e /\ Room(i)
            BY <2>4 DEF RoomInv
        <3>2. i \in Nat /\ Cardinality(Growing) >= 1
            BY <1>1, <1>3
        <3>3. i < numMounts
            <4>1. Counts(i)
                BY <3>2, CountsType
            <4> QED BY <3>1, <3>2, <4>1 DEF Room, Counts
        <3> QED BY <2>1, <2>2, <2>3, <3>1, <3>2, <3>3
    <2>5. ASSUME call[c].quiet
          PROVE  numMounts \in DOMAIN mount_table' /\ mount_table'[numMounts] = call[c].entry
                 /\ (Room(numMounts))'
        <3>1. Alone(c)
            BY <1>1, <2>5 DEF RoomInv
        <3>2. numMounts \in DOMAIN mount_table' /\ mount_table'[numMounts] = call[c].entry
            BY <1>1, <1>7, <2>1, <2>2
        <3>3. After(mount_table', numMounts) = {}
            BY <1>1, <2>2, <3>1 DEF After, Alone
        <3>4. \A k \in Clients : ~Remounting(call'[k])
            BY <1>1, <1>2, <3>1, OthersAt DEF Alone
        <3>5. \A k \in Clients : call'[k] \in Calls
            BY <1>1 DEF Moves
        <3>6. Growing' = {} /\ Shrinking' = {}
            BY <3>4, <3>5, KindOfCall DEF Growing, Shrinking
        <3>7. Cardinality({}) = 0
            BY FS_EmptySet
        <3> QED BY <1>1, <3>2, <3>3, <3>6, <3>7 DEF Room
    <2>6. (Room(0))'
        BY <2>3 DEF RoomInv
    <2>7. \A e \in granted' : \E i \in DOMAIN mount_table' : mount_table'[i] = e /\ (Room(i))'
        <3>1. CASE call[c].quiet
            <4>1. granted' = granted \cup {call[c].entry}
                BY <1>7, <3>1
            <4>2. \E i \in DOMAIN mount_table' : mount_table'[i] = call[c].entry /\ (Room(i))'
                <5>1. /\ numMounts \in DOMAIN mount_table'
                      /\ mount_table'[numMounts] = call[c].entry
                      /\ (Room(numMounts))'
                    BY <2>5, <3>1
                <5>2. numMounts' = numMounts
                    BY <1>1
                <5> QED BY <5>1, <5>2
            <4> QED BY <2>4, <4>1, <4>2
        <3>2. CASE ~call[c].quiet
            <4>1. granted' = granted
                BY <1>7, <3>2
            <4> QED BY <2>4, <4>1
        <3> QED BY <3>1, <3>2
    <2> QED BY <1>5, <2>6, <2>7 DEF RoomInv
<1> QED BY <1>6, <1>7, StoreEffect

\* Taking the m-th entry out shifts those after it by one.
LEMMA RemoveAfter ==
    ASSUME NEW T \in Table, NEW m \in 1 .. Len(T), NEW i \in 0 .. Len(T)
    PROVE  LET j == IF i < m THEN i ELSE i - 1
           IN  Cardinality(After(RemoveAt(T, m), j)) <= Cardinality(After(T, i) \ {m})
<1> DEFINE R == RemoveAt(T, m)
           j == IF i < m THEN i ELSE i - 1
           A == After(T, i) \ {m}
           B == After(R, j)
           g == [x \in A |-> IF x < m THEN x ELSE x - 1]
<1>1. Len(T) \in Nat /\ DOMAIN T = 1 .. Len(T) /\ i \in Nat
    BY LenProperties DEF Table
<1>2. /\ R \in Table /\ Len(R) = Len(T) - 1 /\ DOMAIN R = 1 .. Len(R)
      /\ \A k \in 1 .. (Len(T) - 1) : R[k] = IF k < m THEN T[k] ELSE T[k + 1]
    BY RemoveAtElement, LenProperties DEF Table
<1>3. IsFiniteSet(A)
    BY <1>1, AfterFinite, FS_RemoveElement
<1> HIDE DEF R
<1>4. ASSUME NEW x \in A PROVE g[x] \in B
    <2>1. x \in 1 .. Len(T) /\ x > i /\ T[x] # Empty /\ x # m
        BY <1>1, <1>4 DEF After
    <2>2. CASE x < m
        BY <1>1, <1>2, <1>4, <2>1, <2>2 DEF After
    <2>3. CASE ~(x < m)
        <3>1. g[x] = x - 1 /\ x - 1 \in 1 .. (Len(T) - 1) /\ ~(x - 1 < m) /\ x - 1 > j
            BY <1>1, <1>4, <2>1, <2>3
        <3>2. R[x - 1] = T[x]
            BY <1>1, <1>2, <2>1, <3>1
        <3> QED BY <1>2, <2>1, <3>1, <3>2 DEF After
    <2> QED BY <2>2, <2>3
<1>5. ASSUME NEW y \in B PROVE \E x \in A : g[x] = y
    <2>1. y \in 1 .. (Len(T) - 1) /\ y > j /\ R[y] # Empty
        BY <1>2, <1>5 DEF After
    <2>2. CASE y < m
        <3>1. y \in A
            BY <1>1, <1>2, <2>1, <2>2 DEF After
        <3> QED BY <2>2, <3>1
    <2>3. CASE ~(y < m)
        <3>1. y + 1 \in 1 .. Len(T) /\ y + 1 > i /\ y + 1 # m /\ T[y + 1] # Empty
            BY <1>1, <1>2, <2>1, <2>3
        <3>2. y + 1 \in A /\ ~(y + 1 < m)
            BY <1>1, <2>1, <2>3, <3>1 DEF After
        <3>3. g[y + 1] = y
            BY <2>1, <3>2
        <3> QED BY <3>2, <3>3
    <2> QED BY <2>2, <2>3
<1>6. g \in Surjection(A, B)
    <2>1. g \in [A -> B]
        BY <1>4
    <2> HIDE DEF g, A, B
    <2> QED BY <1>5, <2>1 DEF Surjection
<1>7. Cardinality(B) <= Cardinality(A)
    <2> HIDE DEF g, A, B
    <2> QED BY <1>3, <1>6, FS_Surjection
<1> QED BY <1>7 DEF R

LEMMA CallUnmountRoom ==
    ASSUME TypeInv, RoomInv, NEW c \in Clients, CallUnmount(c) PROVE RoomInv'
<1>1. /\ TypeInv' /\ Moves(c) /\ UNCHANGED numMounts /\ numMounts \in Nat
      /\ DOMAIN mount_table = 1 .. Len(mount_table) /\ Len(mount_table) \in Nat
    BY CallUnmountTypes, CallUnmountEffect, TableIndex DEF TypeInv, TableTypes
<1>2. call[c].at \notin {"length", "store", "uncount"}
    <2>1. call[c] \in EndedCall
        BY CallUnmountEffect, KindOfCall DEF TypeInv, CallTypes
    <2> QED BY <2>1 DEF EndedCall
<1>3. CASE call'[c] \in EndedCall /\ UNCHANGED <<mount_table, granted>>
    <2>1. call'[c].at \in {"idle", "done"} /\ call'[c] \notin MountCall /\ ~Remounting(call'[c])
        BY <1>3 DEF EndedCall, MountCall, Remounting, Running
    <2>2. /\ Cardinality(Growing') = Cardinality(Growing)
          /\ Cardinality(Shrinking') = Cardinality(Shrinking)
        BY <1>1, <1>2, <2>1, CountedStep, Counted
    <2>3. \A k \in Clients : call'[k] \in MountCall /\ call'[k].quiet => (Alone(k))'
        BY <1>1, <1>3, <2>1, QuietEnds
    <2> QED BY <1>1, <1>3, <2>2, <2>3, SameTable, Counted
<1>4. CASE /\ call'[c] \in UnmountCall
           /\ \A k \in Clients \ {c} : Running(call[k]) => call'[k] = Hushed(call[k])
           /\ \E i \in DOMAIN mount_table :
                  /\ mount_table[i] # Empty /\ mount_table' = RemoveAt(mount_table, i)
                  /\ granted' = {e \in granted : e.mountPoint # mount_table[i].mountPoint}
    <2>1. PICK m \in DOMAIN mount_table :
              /\ mount_table[m] # Empty /\ mount_table' = RemoveAt(mount_table, m)
              /\ granted' = {e \in granted : e.mountPoint # mount_table[m].mountPoint}
        BY <1>4
    <2>2. call'[c].at = "uncount" /\ call'[c] \notin MountCall
        BY <1>4 DEF UnmountCall, MountCall
    <2>3. /\ Cardinality(Growing') = Cardinality(Growing)
          /\ Cardinality(Shrinking') = Cardinality(Shrinking) + 1
          /\ Cardinality(Growing) \in Nat /\ Cardinality(Shrinking) \in Nat
        BY <1>1, <1>2, <2>2, CountedStep, Counted
    <2>4. \A k \in Clients \ {c} : Remounting(call[k]) => call'[k] = Hushed(call[k])
        BY <1>4 DEF Remounting
    <2>5. \A k \in Clients : call'[k] \in MountCall /\ call'[k].quiet => (Alone(k))'
        BY <1>1, <2>2, <2>4, QuietGoesOn
    <2>6. /\ m \in 1 .. Len(mount_table) /\ mount_table \in Table
          /\ mount_table' \in Table /\ Len(mount_table') = Len(mount_table) - 1
          /\ DOMAIN mount_table' = 1 .. (Len(mount_table) - 1)
          /\ \A k \in 1 .. (Len(mount_table) - 1) :
                 mount_table'[k] = IF k < m THEN mount_table[k] ELSE mount_table[k + 1]
        <3>1. mount_table \in Table /\ m \in 1 .. Len(mount_table)
            BY <1>1, <2>1 DEF TypeInv, TableTypes
        <3>2. /\ mount_table' \in Table /\ Len(mount_table') = Len(mount_table) - 1
              /\ \A k \in 1 .. (Len(mount_table) - 1) :
                     mount_table'[k] = IF k < m THEN mount_table[k] ELSE mount_table[k + 1]
            BY <2>1, <3>1, RemoveAtElement DEF Table
        <3>3. DOMAIN mount_table' = 1 .. Len(mount_table')
            BY <3>2, LenProperties DEF Table
        <3> QED BY <3>1, <3>2, <3>3
    <2>7. ASSUME NEW i \in 0 .. Len(mount_table), Room(i), i # m
          PROVE  LET j == IF i < m THEN i ELSE i - 1 IN (Room(j))'
        <3> DEFINE j == IF i < m THEN i ELSE i - 1
                   A == After(mount_table, i)
        <3>1. /\ IsFiniteSet(A) /\ Cardinality(A) \in Nat
              /\ Cardinality(After(mount_table', j)) <= Cardinality(A \ {m})
              /\ i \in Nat /\ j \in Nat
            <4>1. i \in Nat /\ j \in Nat
                BY <1>1, <2>6, <2>7
            <4>2. IsFiniteSet(A) /\ Cardinality(A) \in Nat
                BY <2>6, <4>1, AfterFinite
            <4>3. Cardinality(After(mount_table', j)) <= Cardinality(A \ {m})
                BY <2>1, <2>6, <2>7, RemoveAfter
            <4> QED BY <4>1, <4>2, <4>3
        <3>2. Cardinality(A \ {m}) = IF i < m THEN Cardinality(A) - 1 ELSE Cardinality(A)
            <4>1. m \in A <=> i < m
                BY <1>1, <2>1, <2>6 DEF After
            <4> QED BY <3>1, <4>1, FS_RemoveElement
        <3>3. Cardinality(After(mount_table', j)) \in Nat
            BY <2>6, <3>1, AfterFinite
        <3> HIDE DEF A
        <3>4. i + Cardinality(A) + Cardinality(Growing) + Cardinality(Shrinking) <= numMounts
            BY <2>7 DEF Room, A
        <3>5. j + Cardinality(After(mount_table', j)) + Cardinality(Growing)
                  + (Cardinality(Shrinking) + 1) <= numMounts
            <4>1. /\ Cardinality(Growing) \in Nat /\ Cardinality(Shrinking) \in Nat
                  /\ m \in Nat /\ numMounts \in Nat
                BY <1>1, <2>3, <2>6
            <4>2. CASE i < m
                <5>1. j = i /\ Cardinality(A \ {m}) = Cardinality(A) - 1
                    BY <3>2, <4>2
                <5> QED BY <3>1, <3>3, <3>4, <4>1, <5>1, SMTT(30)
            <4>3. CASE ~(i < m)
                <5>1. j = i - 1 /\ Cardinality(A \ {m}) = Cardinality(A)
                    BY <3>2, <4>3
                <5> QED BY <3>1, <3>3, <3>4, <4>1, <5>1, SMTT(30)
            <4> QED BY <4>2, <4>3
        <3> QED BY <1>1, <2>3, <3>5 DEF Room
    <2>8. ASSUME NEW e \in granted'
          PROVE  \E i \in DOMAIN mount_table' : mount_table'[i] = e /\ (Room(i))'
        <3>1. PICK i \in DOMAIN mount_table : mount_table[i] = e /\ Room(i)
            BY <2>1, <2>8 DEF RoomInv
        <3>2. i # m /\ i \in 0 .. Len(mount_table) /\ i >= 1
            BY <1>1, <2>1, <2>8, <3>1
        <3> DEFINE j == IF i < m THEN i ELSE i - 1
        <3>3. (Room(j))'
            BY <2>7, <3>1, <3>2
        <3>4. j \in 1 .. (Len(mount_table) - 1) /\ mount_table'[j] = mount_table[i]
            BY <1>1, <2>6, <3>1, <3>2
        <3> QED BY <2>6, <3>1, <3>3, <3>4
    <2>9. (Room(0))'
        <3>1. 0 \in 0 .. Len(mount_table) /\ 0 < m /\ Room(0)
            BY <1>1, <2>6 DEF RoomInv
        <3> QED BY <2>7, <3>1
    <2> QED BY <2>5, <2>8, <2>9 DEF RoomInv
<1> QED BY <1>3, <1>4, CallUnmountEffect

LEMMA CountUnmountRoom ==
    ASSUME TypeInv, RoomInv, NEW c \in Clients, CountUnmount(c) PROVE RoomInv'
<1>1. /\ TypeInv' /\ Moves(c) /\ numMounts' = numMounts - 1 /\ numMounts \in Nat
      /\ UNCHANGED <<mount_table, granted>> /\ call[c].at = "uncount" /\ call'[c] \in EndedCall
    BY CountUnmountTypes, CountUnmountEffect DEF TypeInv, TableTypes
<1>2. call'[c].at \in {"idle", "done"} /\ call'[c] \notin MountCall /\ ~Remounting(call'[c])
    BY <1>1 DEF EndedCall, MountCall, Remounting, Running
<1>3. /\ Cardinality(Growing') = Cardinality(Growing)
      /\ Cardinality(Shrinking') = Cardinality(Shrinking) - 1
    BY <1>1, <1>2, CountedStep, Counted
<1>4. Remounting(call[c])
    <2>1. call[c] \in Calls
        BY DEF TypeInv, CallTypes
    <2>2. call[c] \in UnmountCall
        BY <1>1, <2>1, KindOfCall
    <2> QED BY <2>1, <2>2, KindOfCall
<1>5. \A k \in Clients : call'[k] \in MountCall /\ call'[k].quiet => (Alone(k))'
    BY <1>1, <1>2, <1>4, QuietEnds
<1> QED BY <1>1, <1>3, <1>5, SameTable, Counted

-----------------------------------------------------------------------------
(* Types: the calls on files.                                              *)

\* What every step of a call on files keeps to.
FileStep(c) ==
    /\ Moves(c) /\ UNCHANGED tableVars
    /\ UNCHANGED calls \/ \E op \in Operations : Ready(c, op)
    /\ call[c] \in FileCall \cup EndedCall /\ call'[c] \in FileCall \cup EndedCall
    /\ DOMAIN data \subseteq DOMAIN data'
    /\ call'[c] \in FileCall => (FileInv(call[c]))'
    /\ DiskInv'

LEMMA FileStepKeeps ==
    ASSUME TypeInv, RoomInv, NEW c \in Clients, FileStep(c)
    PROVE  TypeInv' /\ RoomInv'
<1>1. TypeInv'
    BY CallStep DEF FileStep, TypeInv, TableTypes, tableVars
<1>2. Moves(c) /\ UNCHANGED <<mount_table, granted, numMounts>>
    BY DEF FileStep, tableVars
<1>3. /\ call[c].at \notin {"length", "store", "uncount"}
      /\ call'[c].at \notin {"length", "store", "uncount"}
      /\ ~Remounting(call'[c]) /\ call'[c] \notin MountCall
    BY DEF FileStep, FileCall, EndedCall, FileSteps, CopySteps, FileOps, Remounting, Running,
       MountCall
<1>4. /\ Cardinality(Growing') = Cardinality(Growing)
      /\ Cardinality(Shrinking') = Cardinality(Shrinking)
    BY <1>2, <1>3, CountedStep, Counted
<1>5. \A k \in Clients : call'[k] \in MountCall /\ call'[k].quiet => (Alone(k))'
    BY <1>2, <1>3, QuietEnds
<1>6. numMounts \in Nat
    BY DEF TypeInv, TableTypes
<1> QED BY <1>1, <1>2, <1>4, <1>5, <1>6, SameTable, Counted

LEMMA FileAt ==
    ASSUME TypeInv, NEW c \in Clients, call[c].at \in FileSteps
    PROVE  /\ call[c] \in FileCall /\ FileInv(call[c]) /\ call[c] \in Calls
           /\ DOMAIN call[c].path = 1 .. Len(call[c].path)
           /\ DOMAIN call[c].fs = DOMAIN call[c].path
           /\ DOMAIN call[c].file = 1 .. Len(call[c].file)
           /\ \A n \in DOMAIN call[c].path :
                  Path(c, n) \in LocalPaths /\ call[c].fs[n] \in Nat \ {0}
           /\ \A n \in DOMAIN call[c].file : call[c].file[n] \in Handle
<1>1. call[c] \in FileCall /\ FileInv(call[c]) /\ call[c] \in Calls
    BY KindOfCall DEF TypeInv, CallTypes
<1>2. /\ call[c].path \in Seq(LocalPaths) /\ call[c].fs \in Seq(Nat \ {0})
      /\ call[c].file \in Seq(Handle)
    BY <1>1 DEF FileCall
<1>3. Len(call[c].fs) = Len(call[c].path)
    BY <1>1 DEF FileInv, Named
<1>4. /\ DOMAIN call[c].path = 1 .. Len(call[c].path)
      /\ DOMAIN call[c].fs = 1 .. Len(call[c].fs)
      /\ DOMAIN call[c].file = 1 .. Len(call[c].file)
    BY <1>2, LenProperties
<1> QED BY <1>1, <1>2, <1>3, <1>4, ElementOfSeq DEF Path

\* What a file system that answers holds at a path.
LEMMA NodeType ==
    ASSUME TypeInv, NEW c \in Clients, call[c].at \in FileSteps,
           NEW n \in DOMAIN call[c].path, Answers(c, n)
    PROVE  /\ Fs(c, n) \in FileSystems /\ Path(c, n) \in LocalPaths
           /\ call[c].fs[n] \in DOMAIN mount_table /\ mount_table[call[c].fs[n]] # Empty
           /\ Node(c, n) \in DOMAIN data \cup {Nothing, Directory}
           /\ call[c].op \in {"create", "open", "copy"} =>
                  Path(c, n) \in FilePaths /\ Node(c, n) # Directory
<1>1. call[c].fs[n] \in DOMAIN mount_table /\ mount_table[call[c].fs[n]] # Empty
    BY FileAt, TableIndex DEF Answers
<1>2. mount_table[call[c].fs[n]] \in Entry
    BY <1>1, ElementOfSeq, TableIndex DEF TypeInv, TableTypes, Table
<1>3. Fs(c, n) \in FileSystems /\ Path(c, n) \in LocalPaths
    BY <1>2, FileAt DEF Entry, Fs
<1>4. Node(c, n) \in DOMAIN data \cup {Nothing, Directory}
    BY <1>3 DEF Node, TypeInv, DiskInv
<1>5. call[c].op \in {"create", "open", "copy"} => Path(c, n) \in FilePaths
    BY FileAt DEF FileInv, Named, Path
<1> QED BY <1>1, <1>3, <1>4, <1>5 DEF Node, TypeInv, DiskInv

LEMMA Returned ==
    ASSUME TypeInv, NEW c \in Clients, call[c].at \in FileSteps,
           NEW result \in {"ok", "raised", "cut"}, Return(c, result),
           UNCHANGED <<tableVars, node, data, calls>>, down' \subseteq FileSystems
    PROVE  FileStep(c)
<1>1. Moves(c) /\ call'[c] \in EndedCall
    BY ReturnEffect
<1>2. DiskInv'
    BY DiskStays DEF TypeInv
<1> QED BY <1>1, <1>2, FileAt, NotFile DEF FileStep

LEMMA Unheard ==
    ASSUME TypeInv, NEW c \in Clients, call[c].at \in FileSteps,
           UNCHANGED <<tableVars, diskVars, calls>>, Raise(c)
    PROVE  FileStep(c)
BY Returned DEF Raise, diskVars, TypeInv, DiskInv

LEMMA Advanced ==
    ASSUME TypeInv, NEW c \in Clients, call[c].at \in FileSteps,
           NEW x \in FileCall, FileInv(x), call' = [call EXCEPT ![c] = x],
           UNCHANGED <<tableVars, diskVars, calls>>
    PROVE  FileStep(c)
<1>1. Moves(c) /\ call'[c] = x
    BY MovesPlain DEF TypeInv, Calls
<1>2. DiskInv' /\ UNCHANGED data
    BY DiskStays DEF TypeInv, DiskInv, diskVars
<1>3. (FileInv(call[c]))'
    BY <1>1, <1>2 DEF FileInv, Named, Opened, CopyOpened
<1> QED BY <1>1, <1>2, <1>3, FileAt DEF FileStep

LEMMA AtFields ==
    ASSUME NEW k \in FileCall, NEW step \in FileSteps
    PROVE  LET x == [k EXCEPT !.at = step]
           IN  /\ x \in FileCall /\ x.at = step /\ x.got = k.got /\ x.file = k.file
               /\ x.op = k.op /\ x.fs = k.fs /\ x.path = k.path /\ x.quiet = k.quiet
               /\ x.meant = k.meant /\ x.before = k.before
BY DEF FileCall

LEMMA GoneOn ==
    ASSUME TypeInv, NEW c \in Clients, call[c].at \in FileSteps,
           NEW step \in FileSteps, Goto(c, step), UNCHANGED <<tableVars, diskVars, calls>>,
           FileInv([call[c] EXCEPT !.at = step])
    PROVE  FileStep(c)
<1>1. call' = [call EXCEPT ![c] = [call[c] EXCEPT !.at = step]]
    BY DEF Goto
<1>2. [call[c] EXCEPT !.at = step] \in FileCall
    BY FileAt, AtFields
<1> QED BY <1>1, <1>2, Advanced

\* A call of one name that goes on with nothing open.
LEMMA GoneOnClosed ==
    ASSUME TypeInv, NEW c \in Clients, call[c].at \in FileSteps, call[c].op # "copy",
           NEW step \in FileSteps \ {"held", "close"}, Goto(c, step),
           UNCHANGED <<tableVars, diskVars, calls>>
    PROVE  FileStep(c)
<1> DEFINE x == [call[c] EXCEPT !.at = step]
<1>1. /\ x \in FileCall /\ x.at = step /\ x.file = call[c].file /\ x.op = call[c].op
      /\ x.fs = call[c].fs /\ x.path = call[c].path
    BY FileAt, AtFields
<1>2. FileInv(call[c])
    BY FileAt
<1> HIDE DEF x
<1>3. FileInv(x)
    BY <1>1, <1>2 DEF FileInv, Named, Opened
<1> QED BY <1>3, GoneOn DEF x

LEMMA TouchEffect ==
    ASSUME TypeInv, NEW c \in Clients, NEW f, NEW p, NEW x \in Calls, Touch(c, f, p, x)
    PROVE  /\ Moves(c) /\ call'[c] = x
           /\ \A k \in Clients \ {c} : call'[k] = IF Contains(call[k].meant, <<f, p>>)
                                                  THEN Hushed(call[k]) ELSE call[k]
<1> DEFINE S == {k \in Clients : Contains(call[k].meant, <<f, p>>)}
<1>1. call' = [[k \in Clients |-> IF k # c /\ k \in S THEN [call[k] EXCEPT !.quiet = FALSE]
                                  ELSE call[k]] EXCEPT ![c] = x]
    BY DEF Touch, Others
<1>2. /\ Moves(c) /\ call'[c] = x
      /\ \A k \in Clients \ {c} : call'[k] = IF k \in S THEN Hushed(call[k]) ELSE call[k]
    <2> HIDE DEF S
    <2> QED BY <1>1, MovesOthers DEF TypeInv
<1> QED BY <1>2

LEMMA PutNode ==
    ASSUME DiskInv, NEW f \in FileSystems, NEW p \in LocalPaths,
           data' \in Seq(Seq(Byte)), DOMAIN data \subseteq DOMAIN data',
           NEW v \in DOMAIN data' \cup {Nothing}, node' = [node EXCEPT ![f][p] = v],
           UNCHANGED down
    PROVE  DiskInv'
<1>1. node' \in [FileSystems -> [LocalPaths -> DOMAIN data' \cup {Nothing, Directory}]]
    BY DEF DiskInv
<1>2. DOMAIN data' \subseteq Nat
    BY LenProperties
<1>3. \A g \in FileSystems, q \in FilePaths : node'[g][q] # Directory
    <2> TAKE g \in FileSystems, q \in FilePaths
    <2>1. CASE g = f /\ q = p
        BY <1>2, <2>1, MarkAssumption DEF DiskInv
    <2>2. CASE ~(g = f /\ q = p)
        BY <2>2 DEF DiskInv
    <2> QED BY <2>1, <2>2
<1> QED BY <1>1, <1>3 DEF DiskInv

LEMMA EndedType ==
    ASSUME TypeInv, NEW c \in Clients
    PROVE  Ended(c) \in EndedCall /\ Ended(c) \in Calls
BY OverType DEF Ended, TypeInv, CallTypes, Calls

LEMMA StepAt ==
    ASSUME NEW c, NEW op, NEW step \in FileSteps, Step(c, op, step)
    PROVE  call[c].op = op /\ call[c].at = step /\ call[c].at \in FileSteps
BY DEF Step

LEMMA Unanswering ==
    ASSUME TypeInv, NEW c \in Clients, call[c].at \in FileSteps, NEW n, Unanswered(c, n)
    PROVE  FileStep(c)
BY Unheard DEF Unanswered

LEMMA RemoveExistsTypes ==
    ASSUME TypeInv, NEW c \in Clients, RemoveExists(c) PROVE FileStep(c)
<1>1. call[c].op = "remove" /\ call[c].at \in FileSteps
    BY StepAt DEF RemoveExists, FileSteps, CopySteps
<1>2. CASE Unanswered(c, 1)
    BY <1>1, <1>2, Unanswering
<1>3. CASE Found(c, 1, "remove")
    BY <1>1, <1>3, GoneOnClosed DEF Found, FileSteps
<1>4. CASE Return(c, "ok") /\ UNCHANGED <<tableVars, diskVars, calls>>
    BY <1>1, <1>4, Returned DEF diskVars, TypeInv, DiskInv
<1> QED BY <1>2, <1>3, <1>4 DEF RemoveExists

LEMMA AbortTypes ==
    ASSUME TypeInv, NEW c \in Clients, call[c].at \in FileSteps, NEW n,
           Fs(c, n) \in FileSystems, Abort(c, n)
    PROVE  FileStep(c)
BY Returned DEF Abort, Raise, TypeInv, DiskInv

LEMMA OneName ==
    ASSUME TypeInv, NEW c \in Clients, call[c].at \in FileSteps
    PROVE  1 \in DOMAIN call[c].path /\ (call[c].op = "copy" => 2 \in DOMAIN call[c].path)
BY FileAt DEF FileInv, Named

LEMMA FileRemoveTypes ==
    ASSUME TypeInv, NEW c \in Clients, FileRemove(c) PROVE FileStep(c)
<1>1. call[c].op = "remove" /\ call[c].at \in FileSteps /\ 1 \in DOMAIN call[c].path
    BY StepAt, OneName DEF FileRemove, FileSteps, CopySteps
<1>2. CASE Unanswered(c, 1)
    BY <1>1, <1>2, Unanswering
<1>3. CASE Raise(c) /\ UNCHANGED <<tableVars, diskVars, calls>>
    BY <1>1, <1>3, Unheard
<1>4. CASE Answers(c, 1) /\ Abort(c, 1)
    BY <1>1, <1>4, NodeType, AbortTypes
<1>5. CASE /\ Answers(c, 1)
           /\ node' = [node EXCEPT ![Fs(c, 1)][Path(c, 1)] = Nothing]
           /\ Touch(c, Fs(c, 1), Path(c, 1), Ended(c))
           /\ UNCHANGED <<tableVars, data, down, calls>>
    <2>1. Fs(c, 1) \in FileSystems /\ Path(c, 1) \in LocalPaths
        BY <1>1, <1>5, NodeType
    <2>2. DiskInv'
        BY <1>5, <2>1, PutNode DEF TypeInv, DiskInv
    <2>3. Moves(c) /\ call'[c] \in EndedCall
        BY <1>5, EndedType, TouchEffect
    <2> QED BY <1>1, <1>5, <2>2, <2>3, FileAt, NotFile DEF FileStep
<1> QED BY <1>2, <1>3, <1>4, <1>5 DEF FileRemove

\* No file is above a directory that is made.
LEMMA SparesFiles ==
    ASSUME NEW p \in LocalPaths, Prefixes(p) \cap FilePaths = {}, NEW q \in FilePaths
    PROVE  ~IsPrefix(q, p)
<1>1. q \in Seq(Elements) /\ p \in Seq(Elements)
    BY PathTypes
<1>2. q = SubSeq(q, 1, Len(q)) /\ Len(q) \in Nat /\ Len(p) \in Nat
    BY <1>1, LenProperties
<1>3. ASSUME IsPrefix(q, p) PROVE q \in Prefixes(p)
    <2>1. Len(q) \in 0 .. Len(p) /\ q = SubSeq(p, 1, Len(q))
        BY <1>2, <1>3 DEF IsPrefix
    <2> QED BY <2>1 DEF Prefixes
<1> QED BY <1>3

LEMMA FileMkdirTypes ==
    ASSUME TypeInv, NEW c \in Clients, FileMkdir(c) PROVE FileStep(c)
<1>1. call[c].op = "mkdir" /\ call[c].at \in FileSteps /\ 1 \in DOMAIN call[c].path
    BY StepAt, OneName DEF FileMkdir, FileSteps, CopySteps
<1>2. CASE Unanswered(c, 1)
    BY <1>1, <1>2, Unanswering
<1>3. CASE Raise(c) /\ UNCHANGED <<tableVars, diskVars, calls>>
    BY <1>1, <1>3, Unheard
<1>4. CASE /\ Answers(c, 1)
           /\ node' = [node EXCEPT ![Fs(c, 1)] = [q \in LocalPaths |->
                          IF IsPrefix(q, Path(c, 1)) THEN Directory ELSE @[q]]]
           /\ Return(c, "ok")
           /\ UNCHANGED <<tableVars, data, down, calls>>
    <2>1. Fs(c, 1) \in FileSystems /\ Path(c, 1) \in LocalPaths
        BY <1>1, <1>4, NodeType
    <2>2. Prefixes(Path(c, 1)) \cap FilePaths = {}
        BY <1>1, FileAt DEF FileInv, Named, Path
    <2>3. \A q \in FilePaths : ~IsPrefix(q, Path(c, 1))
        BY <2>1, <2>2, SparesFiles
    <2>4. node' \in [FileSystems -> [LocalPaths -> DOMAIN data \cup {Nothing, Directory}]]
        BY <1>4, <2>1 DEF TypeInv, DiskInv
    <2>5. \A f \in FileSystems, q \in FilePaths : node'[f][q] # Directory
        <3> TAKE f \in FileSystems, q \in FilePaths
        <3>1. node[f][q] # Directory /\ q \in LocalPaths /\ ~IsPrefix(q, Path(c, 1))
            BY <2>3, PathTypes DEF TypeInv, DiskInv
        <3>2. node'[f][q] = node[f][q]
            BY <1>4, <2>1, <3>1 DEF TypeInv, DiskInv
        <3> QED BY <3>1, <3>2
    <2>6. DiskInv'
        BY <1>4, <2>4, <2>5 DEF TypeInv, DiskInv
    <2>7. Moves(c) /\ call'[c] \in EndedCall
        BY <1>4, ReturnEffect
    <2> QED BY <1>1, <1>4, <2>6, <2>7, FileAt, NotFile DEF FileStep
<1> QED BY <1>2, <1>3, <1>4 DEF FileMkdir

LEMMA RmdirCheckTypes ==
    ASSUME TypeInv, NEW c \in Clients, RmdirCheck(c) PROVE FileStep(c)
<1>1. call[c].op = "rmdir" /\ call[c].at \in FileSteps
    BY StepAt DEF RmdirCheck, FileSteps, CopySteps
<1>2. CASE Unanswered(c, 1)
    BY <1>1, <1>2, Unanswering
<1>3. CASE Raise(c) /\ UNCHANGED <<tableVars, diskVars, calls>>
    BY <1>1, <1>3, Unheard
<1>4. CASE Found(c, 1, "purge")
    BY <1>1, <1>4, GoneOnClosed DEF Found, FileSteps
<1> QED BY <1>2, <1>3, <1>4 DEF RmdirCheck

LEMMA RmdirPurgeTypes ==
    ASSUME TypeInv, NEW c \in Clients, RmdirPurge(c) PROVE FileStep(c)
<1>1. call[c].op = "rmdir" /\ call[c].at \in FileSteps /\ 1 \in DOMAIN call[c].path
    BY StepAt, OneName DEF RmdirPurge, FileSteps, CopySteps
<1>2. CASE Unanswered(c, 1)
    BY <1>1, <1>2, Unanswering
<1>3. CASE Answers(c, 1) /\ Abort(c, 1)
    BY <1>1, <1>3, NodeType, AbortTypes
<1>4. CASE /\ Answers(c, 1)
           /\ \E gone \in SUBSET {d \in DirsIn(c) : ~HoldsFile(c, d)} :
                  node' = [node EXCEPT ![Fs(c, 1)] = [q \in LocalPaths |->
                              IF q \in gone THEN Nothing ELSE @[q]]]
           /\ Return(c, IF HoldsFile(c, Path(c, 1)) THEN "raised" ELSE "ok")
           /\ UNCHANGED <<tableVars, data, down, calls>>
    <2>1. Fs(c, 1) \in FileSystems
        BY <1>1, <1>4, NodeType
    <2>2. PICK gone : node' = [node EXCEPT ![Fs(c, 1)] = [q \in LocalPaths |->
                                  IF q \in gone THEN Nothing ELSE @[q]]]
        BY <1>4
    <2>3. node' \in [FileSystems -> [LocalPaths -> DOMAIN data \cup {Nothing, Directory}]]
        BY <2>1, <2>2 DEF TypeInv, DiskInv
    <2>4. \A f \in FileSystems, q \in FilePaths : node'[f][q] # Directory
        <3> TAKE f \in FileSystems, q \in FilePaths
        <3>1. node[f][q] # Directory /\ q \in LocalPaths
            BY PathTypes DEF TypeInv, DiskInv
        <3>2. node'[f][q] \in {node[f][q], Nothing}
            BY <2>1, <2>2, <3>1 DEF TypeInv, DiskInv
        <3> QED BY <3>1, <3>2, MarkAssumption
    <2>5. DiskInv'
        BY <1>4, <2>3, <2>4 DEF TypeInv, DiskInv
    <2>6. Moves(c) /\ call'[c] \in EndedCall
        BY <1>4, ReturnEffect
    <2> QED BY <1>1, <1>4, <2>5, <2>6, FileAt, NotFile DEF FileStep
<1> QED BY <1>2, <1>3, <1>4 DEF RmdirPurge

\* A file that is made goes to the end of the data.
LEMMA NewFile ==
    ASSUME TypeInv, NEW f \in FileSystems, NEW p \in LocalPaths, NEW bytes \in Seq(Byte),
           data' = Append(data, bytes), node' = [node EXCEPT ![f][p] = Len(data) + 1],
           UNCHANGED down
    PROVE  /\ DiskInv' /\ DOMAIN data \subseteq DOMAIN data' /\ Len(data) + 1 \in DOMAIN data'
           /\ Len(data) + 1 \in Nat /\ data'[Len(data) + 1] = bytes
           /\ \A i \in DOMAIN data : data'[i] = data[i]
<1>1. data \in Seq(Seq(Byte)) /\ Len(data) \in Nat /\ DOMAIN data = 1 .. Len(data)
    BY LenProperties DEF TypeInv, DiskInv
<1>2. /\ data' \in Seq(Seq(Byte)) /\ Len(data') = Len(data) + 1
      /\ data'[Len(data) + 1] = bytes /\ \A i \in 1 .. Len(data) : data'[i] = data[i]
    BY <1>1, AppendProperties
<1>3. DOMAIN data' = 1 .. (Len(data) + 1)
    BY <1>2, LenProperties
<1>4. DiskInv'
    <2>1. DOMAIN data \subseteq DOMAIN data' /\ Len(data) + 1 \in DOMAIN data' \cup {Nothing}
        BY <1>1, <1>3
    <2> HIDE DEF DiskInv
    <2> QED BY <1>2, <2>1, PutNode DEF TypeInv
<1> QED BY <1>1, <1>2, <1>3, <1>4

\* The bytes of a file change.
LEMMA NewBytes ==
    ASSUME TypeInv, NEW i \in DOMAIN data, NEW bytes \in Seq(Byte),
           data' = [data EXCEPT ![i] = bytes], UNCHANGED <<node, down>>
    PROVE  DiskInv' /\ DOMAIN data' = DOMAIN data
<1>1. data \in Seq(Seq(Byte)) /\ DOMAIN data = 1 .. Len(data)
    BY LenProperties DEF TypeInv, DiskInv
<1>2. data' \in Seq(Seq(Byte)) /\ Len(data') = Len(data)
    BY <1>1, ExceptSeq
<1>3. DOMAIN data' = DOMAIN data
    BY <1>1, <1>2, LenProperties
<1> QED BY <1>2, <1>3 DEF TypeInv, DiskInv

LEMMA OverwriteType ==
    ASSUME NEW old \in Seq(Byte), NEW new \in Seq(Byte)
    PROVE  /\ Overwrite(old, new) \in Seq(Byte)
           /\ Overwrite(old, << >>) = old /\ Overwrite(<< >>, new) = new
<1>1. Len(old) \in Nat /\ Len(new) \in Nat /\ Len(<< >>) = 0 /\ << >> \in Seq(Byte)
    BY LenProperties, EmptySeq
<1>2. ASSUME NEW k \in Nat PROVE SubSeq(old, k + 1, Len(old)) \in Seq(Byte)
    BY <1>1, <1>2, SubSeqProperties, ElementOfSeq
<1>3. Overwrite(old, new) \in Seq(Byte)
    BY <1>1, <1>2, ConcatProperties DEF Overwrite
<1>4. SubSeq(old, 0 + 1, Len(old)) = old
    BY <1>1
<1>5. Overwrite(old, << >>) = old
    BY <1>1, <1>4, ConcatEmptySeq DEF Overwrite
<1>6. SubSeq(<< >>, Len(new) + 1, 0) = << >>
    BY <1>1
<1>7. Overwrite(<< >>, new) = new
    BY <1>1, <1>6, ConcatEmptySeq DEF Overwrite
<1> QED BY <1>3, <1>5, <1>7

LEMMA HeldType ==
    ASSUME TypeInv, NEW c \in Clients, call[c].at \in FileSteps, Fs(c, 1) \in FileSystems,
           NEW v \in Nat \cup {Nothing}
    PROVE  LET x == Held(c, v)
           IN  /\ x \in FileCall /\ x.at = "held"
               /\ x.file = <<[home |-> Fs(c, 1), node |-> v]>> /\ Len(x.file) = 1
               /\ x.op = call[c].op /\ x.fs = call[c].fs /\ x.path = call[c].path
<1>1. /\ [home |-> Fs(c, 1), node |-> v] \in Handle
      /\ <<[home |-> Fs(c, 1), node |-> v]>> \in Seq(Handle)
    BY DEF Handle
<1>2. call[c] \in FileCall
    BY FileAt
<1>3. "held" \in FileSteps
    BY DEF FileSteps
<1>4. Held(c, v) = [call[c] EXCEPT !.at = "held",
                                  !.file = <<[home |-> Fs(c, 1), node |-> v]>>]
    BY DEF Held
<1>5. Len(<<[home |-> Fs(c, 1), node |-> v]>>) = 1
    OBVIOUS
<1> QED BY <1>1, <1>2, <1>3, <1>4, <1>5 DEF FileCall

LEMMA HeldStep ==
    ASSUME TypeInv, NEW c \in Clients, call[c].at \in FileSteps,
           call[c].op \in {"create", "open"}, Fs(c, 1) \in FileSystems,
           NEW v \in Nat \cup {Nothing}, v \in DOMAIN data' \cup {Nothing},
           Moves(c), call'[c] = Held(c, v)
    PROVE  call'[c] \in FileCall /\ (FileInv(call[c]))'
<1>1. FileInv(call[c])
    BY FileAt
<1>2. /\ call'[c] \in FileCall /\ call'[c].at = "held"
      /\ call'[c].file = <<[home |-> Fs(c, 1), node |-> v]>> /\ Len(call'[c].file) = 1
      /\ call'[c].op = call[c].op /\ call'[c].fs = call[c].fs /\ call'[c].path = call[c].path
    BY HeldType
<1>3. (Named(call[c]))'
    BY <1>1, <1>2 DEF FileInv, Named
<1>4. DOMAIN call'[c].file = {1} /\ call'[c].file[1].node = v
    BY <1>2
<1>5. (Opened(call[c]))'
    BY <1>2, <1>4 DEF Opened
<1> QED BY <1>2, <1>3, <1>5 DEF FileInv

LEMMA FileCreateTypes ==
    ASSUME TypeInv, NEW c \in Clients, FileCreate(c) PROVE FileStep(c)
<1>1. call[c].op = "create" /\ call[c].at \in FileSteps /\ 1 \in DOMAIN call[c].path
    BY StepAt, OneName DEF FileCreate, FileSteps, CopySteps
<1>2. CASE Unanswered(c, 1)
    BY <1>1, <1>2, Unanswering
<1>3. CASE Raise(c) /\ UNCHANGED <<tableVars, diskVars, calls>>
    BY <1>1, <1>3, Unheard
<1>4. CASE /\ Answers(c, 1) /\ call' = [call EXCEPT ![c] = Held(c, Nothing)]
           /\ UNCHANGED <<tableVars, diskVars, calls>>
    <2>1. Fs(c, 1) \in FileSystems
        BY <1>1, <1>4, NodeType
    <2>2. Held(c, Nothing) \in FileCall
        BY <1>1, <2>1, HeldType
    <2>3. Moves(c) /\ call'[c] = Held(c, Nothing)
        BY <1>4, <2>2, MovesPlain DEF TypeInv, Calls
    <2>4. (FileInv(call[c]))' /\ call'[c] \in FileCall
        BY <1>1, <2>1, <2>3, HeldStep
    <2> QED BY <1>1, <1>4, <2>3, <2>4, FileAt, DiskStays DEF FileStep, diskVars, TypeInv, DiskInv
<1>5. CASE /\ Answers(c, 1) /\ data' = Append(data, << >>)
           /\ node' = [node EXCEPT ![Fs(c, 1)][Path(c, 1)] = Len(data) + 1]
           /\ Touch(c, Fs(c, 1), Path(c, 1), Held(c, Len(data) + 1))
           /\ UNCHANGED <<tableVars, down, calls>>
    <2>1. Fs(c, 1) \in FileSystems /\ Path(c, 1) \in LocalPaths
        BY <1>1, <1>5, NodeType
    <2>2. << >> \in Seq(Byte)
        BY EmptySeq
    <2>3. /\ DiskInv' /\ DOMAIN data \subseteq DOMAIN data' /\ Len(data) + 1 \in DOMAIN data'
          /\ Len(data) + 1 \in Nat
        BY <1>5, <2>1, <2>2, NewFile
    <2>4. Held(c, Len(data) + 1) \in Calls
        BY <1>1, <2>1, <2>3, HeldType DEF Calls
    <2>5. Moves(c) /\ call'[c] = Held(c, Len(data) + 1)
        BY <1>5, <2>4, TouchEffect
    <2>6. (FileInv(call[c]))' /\ call'[c] \in FileCall
        BY <1>1, <2>1, <2>3, <2>5, HeldStep
    <2> QED BY <1>1, <1>5, <2>3, <2>5, <2>6, FileAt DEF FileStep
<1> QED BY <1>2, <1>3, <1>4, <1>5 DEF FileCreate, Creates

LEMMA FileOpenTypes ==
    ASSUME TypeInv, NEW c \in Clients, FileOpen(c) PROVE FileStep(c)
<1>1. call[c].op = "open" /\ call[c].at \in FileSteps /\ 1 \in DOMAIN call[c].path
    BY StepAt, OneName DEF FileOpen, FileSteps, CopySteps
<1>2. CASE Unanswered(c, 1)
    BY <1>1, <1>2, Unanswering
<1>3. CASE Raise(c) /\ UNCHANGED <<tableVars, diskVars, calls>>
    BY <1>1, <1>3, Unheard
<1>4. CASE /\ Answers(c, 1) /\ call' = [call EXCEPT ![c] = Held(c, Node(c, 1))]
           /\ UNCHANGED <<tableVars, diskVars, calls>>
    <2>1. Fs(c, 1) \in FileSystems /\ Node(c, 1) \in DOMAIN data \cup {Nothing}
        BY <1>1, <1>4, NodeType
    <2>2. DOMAIN data \subseteq Nat /\ UNCHANGED data
        BY <1>4, LenProperties DEF TypeInv, DiskInv, diskVars
    <2>3. Held(c, Node(c, 1)) \in FileCall
        BY <1>1, <2>1, <2>2, HeldType
    <2>4. Moves(c) /\ call'[c] = Held(c, Node(c, 1))
        BY <1>4, <2>3, MovesPlain DEF TypeInv, Calls
    <2>5. (FileInv(call[c]))' /\ call'[c] \in FileCall
        BY <1>1, <2>1, <2>2, <2>4, HeldStep
    <2> QED BY <1>1, <1>4, <2>4, <2>5, FileAt, DiskStays DEF FileStep, diskVars, TypeInv, DiskInv
<1> QED BY <1>2, <1>3, <1>4 DEF FileOpen

\* What a device reads or takes of some bytes.
LEMMA SomeTypes ==
    ASSUME NEW bytes \in Seq(Byte), NEW t \in Some(bytes)
    PROVE  /\ t \in Seq(Byte) /\ Len(t) \in 0 .. Len(bytes)
           /\ \A i \in 1 .. Len(t) : t[i] = bytes[i]
<1>1. PICK m \in 0 .. Len(bytes) : t = SubSeq(bytes, 1, m)
    BY DEF Some
<1>2. Len(bytes) \in Nat /\ \A i \in 1 .. m : bytes[i] \in Byte
    BY ElementOfSeq, LenProperties
<1>3. /\ SubSeq(bytes, 1, m) \in Seq(Byte)
      /\ Len(SubSeq(bytes, 1, m)) = IF 1 <= m THEN m - 1 + 1 ELSE 0
      /\ \A i \in 1 .. (m - 1 + 1) : SubSeq(bytes, 1, m)[i] = bytes[1 + i - 1]
    BY <1>2, SubSeqProperties
<1> QED BY <1>1, <1>2, <1>3

\* Bytes that reach the file.
LEMMA FlushTypes ==
    ASSUME TypeInv, NEW c \in Clients, call[c].at \in FileSteps,
           NEW n \in DOMAIN call[c].file, call[c].file[n].node # Nothing,
           NEW bytes \in Seq(Byte), NEW x \in FileCall \cup EndedCall, x \in FileCall => FileInv(x),
           Flush(c, n, bytes, x)
    PROVE  /\ FileStep(c) /\ call'[c] = x /\ call[c].file[n].node \in DOMAIN data
           /\ UNCHANGED <<node, down>>
           /\ data' = [data EXCEPT ![call[c].file[n].node] = Overwrite(@, bytes)]
<1> DEFINE i == call[c].file[n].node
<1>1. /\ data' = [data EXCEPT ![i] = Overwrite(data[i], bytes)]
      /\ Touch(c, call[c].file[n].home, Path(c, n), x)
      /\ UNCHANGED <<tableVars, node, down, calls>>
    BY DEF Flush
<1>2. i \in DOMAIN data
    BY FileAt DEF FileInv, Opened
<1>3. data[i] \in Seq(Byte)
    BY <1>2, ElementOfSeq, LenProperties DEF TypeInv, DiskInv
<1>4. Overwrite(data[i], bytes) \in Seq(Byte)
    BY <1>3, OverwriteType
<1> HIDE DEF i
<1>5. DiskInv' /\ DOMAIN data' = DOMAIN data
    BY <1>1, <1>2, <1>4, NewBytes
<1>6. Moves(c) /\ call'[c] = x
    <2>1. x \in Calls
        BY DEF Calls
    <2> DEFINE home == call[c].file[n].home
               path == Path(c, n)
    <2>2. Touch(c, home, path, x)
        BY <1>1
    <2> HIDE DEF home, path
    <2> QED BY <2>1, <2>2, TouchEffect
<1>7. x \in FileCall => (FileInv(call[c]))'
    BY <1>5, <1>6 DEF FileInv, Named, Opened, CopyOpened
<1> QED BY <1>1, <1>2, <1>5, <1>6, <1>7, FileAt DEF FileStep, i

LEMMA Silence ==
    ASSUME TypeInv, NEW c \in Clients, call[c].at \in FileSteps, NEW n, Silent(c, n)
    PROVE  FileStep(c)
BY Unheard DEF Silent

LEMMA FileWriteTypes ==
    ASSUME TypeInv, NEW c \in Clients, FileWrite(c) PROVE FileStep(c)
<1>1. call[c].at = "held" /\ call[c].at \in FileSteps
    BY DEF FileWrite, FileSteps
<1>2. call[c].op # "copy" /\ Len(call[c].file) = 1 /\ 1 \in DOMAIN call[c].file
    BY <1>1, FileAt DEF FileInv, Opened
<1>3. CASE Silent(c, 1)
    BY <1>1, <1>3, Silence
<1>4. CASE Raise(c) /\ UNCHANGED <<tableVars, diskVars, calls>>
    BY <1>1, <1>4, Unheard
<1>5. CASE call[c].file[1].node # Nothing /\ \E b \in Block : Write(c, 1, <<b>>, "close")
    <2>1. PICK b \in Block : Write(c, 1, <<b>>, "close")
        BY <1>5
    <2>2. <<b>> \in Seq(Byte) /\ << >> \in Seq(Byte)
        BY EmptySeq DEF Byte
    <2>3. ASSUME NEW got \in {<< >>, <<b>>}
          PROVE  /\ [call[c] EXCEPT !.at = "close", !.got = got] \in FileCall
                 /\ FileInv([call[c] EXCEPT !.at = "close", !.got = got])
        <3> DEFINE x == [call[c] EXCEPT !.at = "close", !.got = got]
        <3>1. call[c] \in FileCall /\ FileInv(call[c]) /\ got \in Seq(Byte)
            BY <1>1, <2>2, FileAt
        <3>2. /\ x \in FileCall /\ x.at = "close" /\ x.got = got /\ x.file = call[c].file
              /\ x.op = call[c].op /\ x.fs = call[c].fs /\ x.path = call[c].path
            <4>1. "close" \in FileSteps /\ got \in Nat \cup Seq(Byte)
                BY <3>1 DEF FileSteps
            <4> QED BY <3>1, <4>1 DEF FileCall
        <3> HIDE DEF x
        <3>3. FileInv(x)
            BY <1>2, <1>5, <3>1, <3>2 DEF FileInv, Named, Opened
        <3> QED BY <3>2, <3>3 DEF x
    <2>4. CASE Flush(c, 1, <<b>>, [call[c] EXCEPT !.at = "close", !.got = << >>])
        BY <1>1, <1>2, <1>5, <2>2, <2>3, <2>4, FlushTypes
    <2>5. CASE /\ call' = [call EXCEPT ![c].at = "close", ![c].got = <<b>>]
               /\ UNCHANGED <<tableVars, diskVars, calls>>
        <3>1. call' = [call EXCEPT ![c] = [call[c] EXCEPT !.at = "close", !.got = <<b>>]]
            BY <2>5
        <3> QED BY <1>1, <2>3, <2>5, <3>1, Advanced
    <2>6. ASSUME NEW taken \in Some(<<b>>), Flush(c, 1, taken, Over(call[c], "raised"))
          PROVE  FileStep(c)
        <3>1. Over(call[c], "raised") \in EndedCall /\ Over(call[c], "raised") \notin FileCall
            BY OverType, NotFile DEF TypeInv, CallTypes
        <3> QED BY <1>1, <1>2, <1>5, <2>2, <2>6, <3>1, SomeTypes, FlushTypes
    <2> QED BY <2>1, <2>4, <2>5, <2>6 DEF Write
<1> QED BY <1>3, <1>4, <1>5 DEF FileWrite

LEMMA FileCloseTypes ==
    ASSUME TypeInv, NEW c \in Clients, FileClose(c) PROVE FileStep(c)
<1>1. call[c].at = "close" /\ call[c].at \in FileSteps
    BY DEF FileClose, FileSteps
<1>2. CASE Silent(c, 1)
    BY <1>1, <1>2, Silence
<1>3. CASE \E taken \in Some(call[c].got) : Flush(c, 1, taken, Ended(c))
    <2>1. /\ 1 \in DOMAIN call[c].file /\ call[c].file[1].node # Nothing
          /\ call[c].got \in Seq(Byte)
        BY <1>1, FileAt DEF FileInv, Opened
    <2>2. Ended(c) \in EndedCall /\ Ended(c) \notin FileCall
        BY EndedType, NotFile
    <2>3. PICK taken \in Some(call[c].got) : Flush(c, 1, taken, Ended(c))
        BY <1>3
    <2>4. taken \in Seq(Byte)
        BY <2>1, SomeTypes
    <2> QED BY <1>1, <2>1, <2>2, <2>3, <2>4, FlushTypes
<1> QED BY <1>2, <1>3 DEF FileClose

-----------------------------------------------------------------------------
(* Types: copy.                                                            *)

LEMMA CopyAt ==
    ASSUME TypeInv, NEW c \in Clients, NEW step \in CopySteps, Step(c, "copy", step)
    PROVE  /\ call[c].op = "copy" /\ call[c].at = step /\ call[c].at \in FileSteps
           /\ call[c] \in FileCall /\ FileInv(call[c]) /\ CopyOpened(call[c])
           /\ 1 \in DOMAIN call[c].path /\ 2 \in DOMAIN call[c].path
           /\ call[c].file \in Seq(Handle)
           /\ DOMAIN call[c].file = 1 .. Len(call[c].file) /\ Len(call[c].file) \in Nat
           /\ \A n \in DOMAIN call[c].file :
                  call[c].file[n] \in Handle /\ call[c].file[n].node \in DOMAIN data
<1>1. call[c].op = "copy" /\ call[c].at = step /\ call[c].at \in FileSteps
    BY DEF Step, FileSteps
<1>2. call[c] \in FileCall /\ FileInv(call[c]) /\ CopyOpened(call[c])
    BY <1>1, FileAt DEF FileInv
<1>3. call[c].file \in Seq(Handle)
    BY <1>2 DEF FileCall
<1>4. \A n \in DOMAIN call[c].file : call[c].file[n].node \in DOMAIN data
    BY <1>2 DEF FileInv, Opened, CopyOpened
<1>5. Len(call[c].file) \in Nat
    BY <1>3, LenProperties
<1> QED BY <1>1, <1>2, <1>3, <1>4, <1>5, FileAt, OneName

\* A step of a copy that keeps its names.
LEMMA CopyKept ==
    ASSUME TypeInv, NEW c \in Clients, call[c].at \in FileSteps, call[c].op = "copy",
           NEW x \in FileCall, x.op = "copy", x.fs = call[c].fs, x.path = call[c].path,
           x.at \in CopySteps, CopyOpened(x),
           \A n \in DOMAIN x.file : x.file[n].node \in DOMAIN data
    PROVE  FileInv(x)
<1>1. Named(x)
    BY FileAt DEF FileInv, Named
<1>2. x.at \notin {"held", "close"}
    BY DEF CopySteps
<1>3. Opened(x)
    BY <1>2 DEF Opened
<1> QED BY <1>1, <1>3 DEF FileInv

LEMMA CopyGoesOn ==
    ASSUME TypeInv, NEW c \in Clients, NEW from \in CopySteps, Step(c, "copy", from),
           NEW step \in CopySteps, Goto(c, step), UNCHANGED <<tableVars, diskVars, calls>>,
           CopyOpened([call[c] EXCEPT !.at = step])
    PROVE  FileStep(c)
<1> DEFINE x == [call[c] EXCEPT !.at = step]
<1>1. /\ x \in FileCall /\ x.at = step /\ x.file = call[c].file /\ x.op = "copy"
      /\ x.fs = call[c].fs /\ x.path = call[c].path
    BY CopyAt, AtFields DEF FileSteps
<1>2. CopyOpened(x)
    OBVIOUS
<1> HIDE DEF x
<1>3. FileInv(x)
    BY <1>1, <1>2, CopyAt, CopyKept
<1> QED BY <1>3, GoneOn, CopyAt DEF x, FileSteps

LEMMA CopyExistsTypes ==
    ASSUME TypeInv, NEW c \in Clients, CopyExists(c) PROVE FileStep(c)
<1>0. Step(c, "copy", "exists") /\ "exists" \in CopySteps
    BY DEF CopyExists, CopySteps
<1>1. CASE Unanswered(c, 1)
    BY <1>0, <1>1, CopyAt, Unanswering
<1>2. CASE Raise(c) /\ UNCHANGED <<tableVars, diskVars, calls>>
    BY <1>0, <1>2, CopyAt, Unheard
<1>3. CASE Found(c, 1, IF call[c].fs[1] = call[c].fs[2] THEN "copyFile" ELSE "openSource")
    <2> DEFINE step == IF call[c].fs[1] = call[c].fs[2] THEN "copyFile" ELSE "openSource"
               x == [call[c] EXCEPT !.at = step]
    <2>1. step \in {"copyFile", "openSource"} /\ step \in CopySteps /\ step \in FileSteps
          /\ (step = "copyFile" => call[c].fs[1] = call[c].fs[2])
        BY DEF CopySteps, FileSteps
    <2> HIDE DEF step
    <2>2. /\ x \in FileCall /\ x.at = step /\ x.file = call[c].file /\ x.fs = call[c].fs
        BY <1>0, <2>1, CopyAt, AtFields
    <2>3. call[c].file = << >>
        BY <1>0, CopyAt DEF CopyOpened
    <2> HIDE DEF x
    <2>4. CopyOpened(x)
        BY <2>1, <2>2, <2>3 DEF CopyOpened
    <2>5. Goto(c, step) /\ UNCHANGED <<tableVars, diskVars, calls>>
        BY <1>3 DEF Found, step
    <2> QED BY <1>0, <2>1, <2>4, <2>5, CopyGoesOn DEF x
<1> QED BY <1>1, <1>2, <1>3 DEF CopyExists

LEMMA CopyFileTypes ==
    ASSUME TypeInv, NEW c \in Clients, CopyFile(c) PROVE FileStep(c)
<1>0. Step(c, "copy", "copyFile") /\ "copyFile" \in CopySteps
    BY DEF CopyFile, CopySteps
<1>1. CASE Unanswered(c, 1)
    BY <1>0, <1>1, CopyAt, Unanswering
<1>2. CASE Raise(c) /\ UNCHANGED <<tableVars, diskVars, calls>>
    BY <1>0, <1>2, CopyAt, Unheard
<1>3. CASE /\ Return(c, "ok") \/ Return(c, "cut")
           /\ UNCHANGED <<tableVars, diskVars, calls>>
    BY <1>0, <1>3, CopyAt, Returned DEF diskVars, TypeInv, DiskInv
<1>4. ASSUME Answers(c, 1), Node(c, 1) # Nothing, NEW taken \in Some(data[Node(c, 1)]),
             data' = Append(data, taken),
             node' = [node EXCEPT ![Fs(c, 1)][Path(c, 2)] = Len(data) + 1],
             Touch(c, Fs(c, 1), Path(c, 2),
                   Over(call[c], Complete(data[Node(c, 1)], taken))),
             UNCHANGED <<tableVars, down, calls>>
      PROVE  FileStep(c)
    <2>1. Fs(c, 1) \in FileSystems /\ Node(c, 1) \in DOMAIN data /\ Path(c, 2) \in LocalPaths
        BY <1>0, <1>4, CopyAt, NodeType, FileAt
    <2>2. data[Node(c, 1)] \in Seq(Byte)
        BY <2>1, ElementOfSeq, LenProperties DEF TypeInv, DiskInv
    <2>3. DiskInv' /\ DOMAIN data \subseteq DOMAIN data'
        BY <1>4, <2>1, <2>2, SomeTypes, NewFile
    <2>4. Moves(c) /\ call'[c] \in EndedCall
        <3> DEFINE x == Over(call[c], Complete(data[Node(c, 1)], taken))
        <3>1. x \in EndedCall
            BY OverType DEF Complete, TypeInv, CallTypes
        <3>2. x \in Calls /\ Touch(c, Fs(c, 1), Path(c, 2), x)
            BY <1>4, <3>1 DEF Calls
        <3> HIDE DEF x
        <3> QED BY <3>1, <3>2, TouchEffect
    <2> QED BY <1>0, <1>4, <2>3, <2>4, CopyAt, NotFile DEF FileStep
<1> QED BY <1>1, <1>2, <1>3, <1>4 DEF CopyFile

\* A copy has one file more open.
OpensOne(c, n, step) ==
    /\ Answers(c, n) /\ Node(c, n) # Nothing
    /\ call' = [call EXCEPT ![c].at = step,
                  ![c].file = Append(@, [home |-> Fs(c, n), node |-> Node(c, n)])]
Order(n, from, step) ==
    \/ n = 1 /\ from = "openSource" /\ step = "sizeOf"
    \/ n = 2 /\ from = "openCopy" /\ step = "read"
\* What it then is.
OneMore(c, n, step, x) ==
    /\ call' = [call EXCEPT ![c] = x] /\ x.at = step /\ x.op = "copy"
    /\ x.fs = call[c].fs /\ x.path = call[c].path /\ x.got = call[c].got
    /\ x.quiet = call[c].quiet /\ x.meant = call[c].meant /\ x.before = call[c].before
    /\ DOMAIN x.file = 1 .. n /\ Len(x.file) = n
    /\ x.file[n].home = Fs(c, n) /\ x.file[n].node = Node(c, n)
    /\ \A i \in 1 .. (n - 1) : x.file[i] = call[c].file[i]

LEMMA OpensEffect ==
    ASSUME TypeInv, NEW c \in Clients, NEW n \in {1, 2}, NEW from \in CopySteps,
           NEW step \in CopySteps, Step(c, "copy", from),
           Order(n, from, step), OpensOne(c, n, step)
    PROVE  /\ Fs(c, n) \in FileSystems /\ Node(c, n) \in DOMAIN data
           /\ DOMAIN call[c].file = 1 .. (n - 1)
           /\ \E x \in FileCall : OneMore(c, n, step, x)
<1> DEFINE h == [home |-> Fs(c, n), node |-> Node(c, n)]
           file == Append(call[c].file, h)
           x == [call[c] EXCEPT !.at = step, !.file = file]
<1> USE DEF Order, OpensOne
<1>1. Fs(c, n) \in FileSystems /\ Node(c, n) \in DOMAIN data
    <2>1. n \in DOMAIN call[c].path
        BY CopyAt
    <2> QED BY <2>1, CopyAt, NodeType
<1>2. h \in Handle /\ h.home = Fs(c, n) /\ h.node = Node(c, n)
    BY <1>1, LenProperties DEF Handle, TypeInv, DiskInv
<1> HIDE DEF h
<1>3. call[c].file \in Seq(Handle) /\ Len(call[c].file) = n - 1
    <2>1. call[c].at = from /\ CopyOpened(call[c]) /\ call[c].file \in Seq(Handle)
        BY CopyAt
    <2>2. Len(<< >>) = 0
        BY EmptySeq
    <2>3. CASE n = 1
        BY <2>1, <2>2, <2>3 DEF CopyOpened
    <2>4. CASE n = 2
        BY <2>1, <2>4 DEF CopyOpened
    <2> QED BY <2>3, <2>4
<1>4. /\ file \in Seq(Handle) /\ Len(file) = n /\ file[n] = h
      /\ \A i \in 1 .. (n - 1) : file[i] = call[c].file[i]
    BY <1>2, <1>3, AppendProperties
<1>5. DOMAIN file = 1 .. n /\ DOMAIN call[c].file = 1 .. (n - 1)
    BY <1>3, <1>4, LenProperties
<1> HIDE DEF file
<1>6. step \in FileSteps /\ call[c] \in FileCall /\ call[c].op = "copy"
    BY CopyAt DEF FileSteps
<1>7. /\ x \in FileCall /\ x.at = step /\ x.file = file /\ x.op = "copy"
      /\ x.fs = call[c].fs /\ x.path = call[c].path /\ x.got = call[c].got
      /\ x.quiet = call[c].quiet /\ x.meant = call[c].meant /\ x.before = call[c].before
    BY <1>4, <1>6 DEF FileCall
<1>8. call' = [call EXCEPT ![c] = x]
    BY DEF file, h
<1> HIDE DEF x
<1>9. OneMore(c, n, step, x)
    BY <1>2, <1>4, <1>5, <1>7, <1>8 DEF OneMore
<1> HIDE DEF OneMore
<1> QED BY <1>1, <1>5, <1>7, <1>9

LEMMA OpensTypes ==
    ASSUME TypeInv, NEW c \in Clients, NEW n \in {1, 2}, NEW from \in CopySteps,
           NEW step \in CopySteps, Opens(c, n, from, step), Order(n, from, step)
    PROVE  FileStep(c)
<1>0. Step(c, "copy", from)
    BY DEF Opens
<1>1. CASE Unanswered(c, n)
    BY <1>0, <1>1, CopyAt, Unanswering
<1>2. CASE Raise(c) /\ UNCHANGED <<tableVars, diskVars, calls>>
    BY <1>0, <1>2, CopyAt, Unheard
<1>3. CASE /\ Answers(c, n) /\ Node(c, n) # Nothing
           /\ call' = [call EXCEPT ![c].at = step,
                         ![c].file = Append(@, [home |-> Fs(c, n), node |-> Node(c, n)])]
           /\ UNCHANGED <<tableVars, diskVars, calls>>
    <2>0. OpensOne(c, n, step)
        BY <1>3 DEF OpensOne
    <2>1. Node(c, n) \in DOMAIN data /\ DOMAIN call[c].file = 1 .. (n - 1)
        BY <1>0, <2>0, OpensEffect
    <2>8. PICK x \in FileCall : OneMore(c, n, step, x)
        BY <1>0, <2>0, OpensEffect
    <2>2. /\ call' = [call EXCEPT ![c] = x] /\ x.at = step /\ x.op = "copy"
          /\ x.fs = call[c].fs /\ x.path = call[c].path /\ x.got = call[c].got
          /\ DOMAIN x.file = 1 .. n /\ Len(x.file) = n
          /\ x.file[n].home = Fs(c, n) /\ x.file[n].node = Node(c, n)
          /\ \A i \in 1 .. (n - 1) : x.file[i] = call[c].file[i]
        BY <2>8 DEF OneMore
    <2>3. \A i \in DOMAIN x.file : x.file[i].node \in DOMAIN data
        <3> TAKE i \in DOMAIN x.file
        <3>1. CASE i = n
            BY <2>1, <2>2, <3>1
        <3>2. CASE i # n
            <4>1. i \in 1 .. (n - 1)
                BY <2>2, <3>2
            <4> QED BY <1>0, <2>1, <2>2, <4>1, CopyAt
        <3> QED BY <3>1, <3>2
    <2>4. \A i \in DOMAIN x.file : x.file[i].node # Nothing
        BY <2>3, MarkAssumption, LenProperties DEF TypeInv, DiskInv
    <2>5. step = "read" => call[c].got \in Nat
        BY <1>0, CopyAt DEF CopyOpened, Order
    <2>6. CopyOpened(x)
        BY <2>2, <2>4, <2>5 DEF CopyOpened, Order
    <2>7. FileInv(x)
        BY <1>0, <2>2, <2>3, <2>6, CopyAt, CopyKept
    <2> QED BY <1>0, <1>3, <2>2, <2>7, CopyAt, Advanced
<1> QED BY <1>1, <1>2, <1>3 DEF Opens

LEMMA OpenTypes ==
    ASSUME TypeInv, NEW c \in Clients, OpenSource(c) \/ OpenDestination(c) PROVE FileStep(c)
BY OpensTypes DEF OpenSource, OpenDestination, CopySteps, Order

\* A copy that goes on with something to read or write.
LEMMA CopyCarries ==
    ASSUME TypeInv, NEW c \in Clients, NEW from \in CopySteps, Step(c, "copy", from),
           NEW step \in CopySteps, NEW got,
           \/ from = "sizeOf" /\ step = "destination" /\ got \in Nat
           \/ from = "read" /\ step = "write" /\ got \in Seq(Byte)
           \/ from = "write" /\ step = "closeSource" /\ got \in Seq(Byte)
    PROVE  LET x == [call[c] EXCEPT !.at = step, !.got = got]
           IN  /\ x \in FileCall /\ FileInv(x) /\ x.at = step /\ x.got = got
               /\ x.op = "copy" /\ x.file = call[c].file /\ x.path = call[c].path
               /\ x.fs = call[c].fs /\ x.quiet = call[c].quiet
               /\ x.meant = call[c].meant /\ x.before = call[c].before
<1> DEFINE x == [call[c] EXCEPT !.at = step, !.got = got]
<1>1. /\ call[c] \in FileCall /\ step \in FileSteps /\ got \in Nat \cup Seq(Byte)
      /\ call[c].op = "copy" /\ CopyOpened(call[c]) /\ call[c].at = from
      /\ call[c].at \in FileSteps
    BY CopyAt DEF FileSteps
<1>2. /\ x \in FileCall /\ x.at = step /\ x.got = got
      /\ x.op = "copy" /\ x.file = call[c].file /\ x.path = call[c].path
      /\ x.fs = call[c].fs /\ x.quiet = call[c].quiet
      /\ x.meant = call[c].meant /\ x.before = call[c].before
    BY <1>1 DEF FileCall
<1> HIDE DEF x
<1>3. CopyOpened(x)
    BY <1>1, <1>2 DEF CopyOpened
<1>4. \A n \in DOMAIN x.file : x.file[n].node \in DOMAIN data
    BY <1>2, CopyAt
<1>5. FileInv(x)
    BY <1>1, <1>2, <1>3, <1>4, CopyKept
<1> QED BY <1>2, <1>5 DEF x

LEMMA SizeOfTypes ==
    ASSUME TypeInv, NEW c \in Clients, SizeOf(c) PROVE FileStep(c)
<1>0. Step(c, "copy", "sizeOf") /\ {"sizeOf", "destination"} \subseteq CopySteps
    BY DEF SizeOf, CopySteps
<1>1. CASE Silent(c, 1)
    BY <1>0, <1>1, CopyAt, Silence
<1>2. CASE Raise(c) /\ UNCHANGED <<tableVars, diskVars, calls>>
    BY <1>0, <1>2, CopyAt, Unheard
<1>3. CASE /\ call' = [call EXCEPT ![c].at = "destination",
                         ![c].got = Len(data[call[c].file[1].node])]
           /\ UNCHANGED <<tableVars, diskVars, calls>>
    <2> DEFINE got == Len(data[call[c].file[1].node])
               x == [call[c] EXCEPT !.at = "destination", !.got = got]
    <2>1. 1 \in DOMAIN call[c].file /\ call[c].file[1].node \in DOMAIN data
        BY <1>0, CopyAt DEF CopyOpened
    <2>2. got \in Nat
        BY <2>1, ElementOfSeq, LenProperties DEF TypeInv, DiskInv
    <2> HIDE DEF got
    <2>3. x \in FileCall /\ FileInv(x)
        BY <1>0, <2>2, CopyCarries
    <2>4. call' = [call EXCEPT ![c] = x]
        BY <1>3 DEF got
    <2> QED BY <1>0, <1>3, <2>3, <2>4, CopyAt, Advanced
<1> QED BY <1>1, <1>2, <1>3 DEF SizeOf

LEMMA DestinationExistsTypes ==
    ASSUME TypeInv, NEW c \in Clients, DestinationExists(c) PROVE FileStep(c)
<1>0. /\ Step(c, "copy", "destination")
      /\ {"destination", "create", "openCopy"} \subseteq CopySteps
    BY DEF DestinationExists, CopySteps
<1>1. CASE Unanswered(c, 2)
    BY <1>0, <1>1, CopyAt, Unanswering
<1>2. CASE \E step \in {"create", "openCopy"} : Found(c, 2, step)
    <2>1. PICK step \in {"create", "openCopy"} : Found(c, 2, step)
        BY <1>2
    <2> DEFINE x == [call[c] EXCEPT !.at = step]
    <2>2. /\ x.at = step /\ x.file = call[c].file /\ x.got = call[c].got
        BY <1>0, CopyAt DEF FileCall
    <2>3. CopyOpened(call[c]) /\ call[c].at = "destination"
        BY <1>0, CopyAt
    <2> HIDE DEF x
    <2>4. CopyOpened(x)
        BY <1>0, <2>2, <2>3 DEF CopyOpened
    <2> QED BY <1>0, <2>1, <2>4, CopyGoesOn DEF x, Found
<1> QED BY <1>1, <1>2 DEF DestinationExists

LEMMA CreateDestinationTypes ==
    ASSUME TypeInv, NEW c \in Clients, CreateDestination(c) PROVE FileStep(c)
<1> DEFINE x == [call[c] EXCEPT !.at = "openCopy"]
<1>0. Step(c, "copy", "create") /\ {"create", "openCopy"} \subseteq CopySteps
    BY DEF CreateDestination, CopySteps
<1>1. /\ x \in FileCall /\ x.at = "openCopy" /\ x.file = call[c].file /\ x.got = call[c].got
      /\ x.op = "copy" /\ x.fs = call[c].fs /\ x.path = call[c].path
    BY <1>0, CopyAt DEF FileCall, FileSteps
<1>2. CopyOpened(call[c]) /\ call[c].at = "create"
    BY <1>0, CopyAt
<1>3. CASE Unanswered(c, 2)
    BY <1>0, <1>3, CopyAt, Unanswering
<1>4. CASE Raise(c) /\ UNCHANGED <<tableVars, diskVars, calls>>
    BY <1>0, <1>4, CopyAt, Unheard
<1>5. FileInv(x)
    <2> HIDE DEF x
    <2>1. CopyOpened(x)
        BY <1>0, <1>1, <1>2 DEF CopyOpened
    <2> QED BY <1>0, <1>1, <2>1, CopyAt, CopyKept
<1> HIDE DEF x
<1>6. CASE call' = [call EXCEPT ![c] = x] /\ UNCHANGED <<tableVars, diskVars, calls>>
    BY <1>0, <1>1, <1>5, <1>6, CopyAt, Advanced
<1>7. CASE /\ Answers(c, 2) /\ data' = Append(data, << >>)
           /\ node' = [node EXCEPT ![Fs(c, 2)][Path(c, 2)] = Len(data) + 1]
           /\ Touch(c, Fs(c, 2), Path(c, 2), x)
           /\ UNCHANGED <<tableVars, down, calls>>
    <2>1. Fs(c, 2) \in FileSystems /\ Path(c, 2) \in LocalPaths /\ << >> \in Seq(Byte)
        BY <1>0, <1>7, CopyAt, NodeType, EmptySeq
    <2>2. DiskInv' /\ DOMAIN data \subseteq DOMAIN data'
        BY <1>7, <2>1, NewFile
    <2>3. Moves(c) /\ call'[c] = x
        <3>1. x \in Calls
            BY <1>1 DEF Calls
        <3> QED BY <1>7, <3>1, TouchEffect
    <2>4. (FileInv(call[c]))'
        BY <1>5, <2>2, <2>3 DEF FileInv, Named, Opened, CopyOpened
    <2> QED BY <1>0, <1>1, <1>7, <2>2, <2>3, <2>4, CopyAt DEF FileStep
<1> QED BY <1>3, <1>4, <1>6, <1>7 DEF CreateDestination, Creates, x

LEMMA ReadSourceTypes ==
    ASSUME TypeInv, NEW c \in Clients, ReadSource(c) PROVE FileStep(c)
<1>0. Step(c, "copy", "read") /\ {"read", "write"} \subseteq CopySteps
    BY DEF ReadSource, CopySteps
<1>1. CASE Silent(c, 1)
    BY <1>0, <1>1, CopyAt, Silence
<1>2. ASSUME UNCHANGED <<tableVars, diskVars, calls>>,
             LET bytes == data[call[c].file[1].node]
                 asked == SubSeq(bytes, 1, Min({call[c].got, Len(bytes)}))
             IN  \E read \in Some(asked) :
                     call' = [call EXCEPT ![c].at = "write", ![c].got = read,
                                          ![c].cut = read # asked]
      PROVE  FileStep(c)
    <2> DEFINE bytes == data[call[c].file[1].node]
               m == Min({call[c].got, Len(bytes)})
               asked == SubSeq(bytes, 1, m)
               x(got) == [[call[c] EXCEPT !.at = "write", !.got = got]
                              EXCEPT !.cut = got # asked]
    <2>1. 1 \in DOMAIN call[c].file /\ call[c].file[1].node \in DOMAIN data /\ call[c].got \in Nat
        BY <1>0, CopyAt DEF CopyOpened
    <2>2. bytes \in Seq(Byte) /\ Len(bytes) \in Nat
        BY <2>1, ElementOfSeq, LenProperties DEF TypeInv, DiskInv
    <2>3. PICK got \in Some(asked) : call' = [call EXCEPT ![c] = x(got)]
        BY <1>2
    <2> HIDE DEF bytes
    <2>4. m \in Nat /\ m <= Len(bytes)
        BY <2>1, <2>2, MinOfTwo
    <2> HIDE DEF m
    <2>5. asked \in Seq(Byte)
        BY <2>2, <2>4, SubSeqProperties, ElementOfSeq
    <2> HIDE DEF asked
    <2>6. got \in Seq(Byte)
        BY <2>5, SomeTypes
    <2> DEFINE y == [call[c] EXCEPT !.at = "write", !.got = got]
    <2>7. y \in FileCall /\ FileInv(y)
        BY <1>0, <2>6, CopyCarries
    <2>8. x(got) = [y EXCEPT !.cut = got # asked]
        OBVIOUS
    <2> HIDE DEF x, y
    <2>9. x(got) \in FileCall /\ FileInv(x(got))
        <3>1. /\ x(got) \in FileCall /\ x(got).at = y.at /\ x(got).got = y.got
              /\ x(got).file = y.file /\ x(got).fs = y.fs /\ x(got).path = y.path
              /\ x(got).op = y.op
            BY <2>7, <2>8 DEF FileCall
        <3> QED BY <2>7, <3>1 DEF FileInv, Named, Opened, CopyOpened
    <2> QED BY <1>0, <1>2, <2>3, <2>9, CopyAt, Advanced
<1> QED BY <1>1, <1>2 DEF ReadSource

LEMMA WriteDestinationTypes ==
    ASSUME TypeInv, NEW c \in Clients, WriteDestination(c) PROVE FileStep(c)
<1>0. Step(c, "copy", "write") /\ {"write", "closeSource"} \subseteq CopySteps
    BY DEF WriteDestination, CopySteps
<1>1. CASE Silent(c, 2)
    BY <1>0, <1>1, CopyAt, Silence
<1>2. /\ 2 \in DOMAIN call[c].file /\ call[c].file[2].node # Nothing
      /\ call[c].got \in Seq(Byte) /\ << >> \in Seq(Byte)
    BY <1>0, CopyAt, EmptySeq DEF CopyOpened
<1>3. ASSUME NEW got \in Seq(Byte)
      PROVE  /\ [call[c] EXCEPT !.at = "closeSource", !.got = got] \in FileCall
             /\ FileInv([call[c] EXCEPT !.at = "closeSource", !.got = got])
    BY <1>0, CopyCarries
<1>4. CASE Flush(c, 2, call[c].got, [call[c] EXCEPT !.at = "closeSource", !.got = << >>])
    <2> DEFINE x == [call[c] EXCEPT !.at = "closeSource", !.got = << >>]
    <2>1. x \in FileCall /\ FileInv(x)
        BY <1>2, <1>3
    <2>2. Flush(c, 2, call[c].got, x)
        BY <1>4
    <2> HIDE DEF x
    <2> QED BY <1>0, <1>2, <2>1, <2>2, CopyAt, FlushTypes
<1>5. CASE /\ call' = [call EXCEPT ![c].at = "closeSource", ![c].got = call[c].got]
           /\ UNCHANGED <<tableVars, diskVars, calls>>
    <2>1. call' = [call EXCEPT ![c] = [call[c] EXCEPT !.at = "closeSource", !.got = call[c].got]]
        BY <1>5
    <2> QED BY <1>0, <1>2, <1>3, <1>5, <2>1, CopyAt, Advanced
<1>6. ASSUME NEW taken \in Some(call[c].got), Flush(c, 2, taken, Over(call[c], "raised"))
      PROVE  FileStep(c)
    <2>1. Over(call[c], "raised") \in EndedCall /\ Over(call[c], "raised") \notin FileCall
        BY OverType, NotFile DEF TypeInv, CallTypes
    <2> QED BY <1>0, <1>2, <1>6, <2>1, CopyAt, SomeTypes, FlushTypes
<1> QED BY <1>1, <1>4, <1>5, <1>6 DEF WriteDestination, Write

LEMMA CloseTypes ==
    ASSUME TypeInv, NEW c \in Clients, CloseSource(c) \/ CloseDestination(c) PROVE FileStep(c)
<1>1. CASE CloseSource(c)
    <2>0. /\ Step(c, "copy", "closeSource")
          /\ {"closeSource", "closeCopy"} \subseteq CopySteps
        BY <1>1 DEF CloseSource, CopySteps
    <2>1. CASE Silent(c, 1)
        BY <2>0, <2>1, CopyAt, Silence
    <2>2. CASE Found(c, 1, "closeCopy")
        <3> DEFINE x == [call[c] EXCEPT !.at = "closeCopy"]
        <3>1. x.at = "closeCopy" /\ x.file = call[c].file /\ x.got = call[c].got
            BY <2>0, CopyAt DEF FileCall
        <3>2. CopyOpened(call[c]) /\ call[c].at = "closeSource"
            BY <2>0, CopyAt
        <3> HIDE DEF x
        <3>3. CopyOpened(x)
            BY <2>0, <3>1, <3>2 DEF CopyOpened
        <3> QED BY <2>0, <2>2, <3>3, CopyGoesOn DEF x, Found
    <2> QED BY <1>1, <2>1, <2>2 DEF CloseSource
<1>2. CASE CloseDestination(c)
    <2>0. Step(c, "copy", "closeCopy") /\ "closeCopy" \in CopySteps
        BY <1>2 DEF CloseDestination, CopySteps
    <2>1. CASE Silent(c, 2)
        BY <2>0, <2>1, CopyAt, Silence
    <2>2. ASSUME NEW taken \in Some(call[c].got), NEW result \in {"ok", "cut"},
                 Flush(c, 2, taken, Over(call[c], result))
          PROVE  FileStep(c)
        <3>1. /\ 2 \in DOMAIN call[c].file /\ call[c].file[2].node # Nothing
              /\ call[c].got \in Seq(Byte)
            BY <2>0, CopyAt DEF CopyOpened
        <3>2. Over(call[c], result) \in EndedCall /\ Over(call[c], result) \notin FileCall
            BY OverType, NotFile DEF TypeInv, CallTypes
        <3> QED BY <2>0, <2>2, <3>1, <3>2, CopyAt, SomeTypes, FlushTypes
    <2> QED BY <1>2, <2>1, <2>2 DEF CloseDestination, Complete
<1> QED BY <1>1, <1>2

-----------------------------------------------------------------------------
(* Types: a call on files begins.                                          *)

\* What a call keeps of its names, and what they denote.
LEMMA CallFileEffect ==
    ASSUME TypeInv, NEW c \in Clients, NEW op \in FileOps, NEW a \in {1, 2},
           a = (IF op = "copy" THEN 2 ELSE 1), NEW names \in Seq(FileNames \cup DirNames),
           Len(names) = a,
           op \in {"create", "open", "copy"} => \A n \in 1 .. a : names[n] \in FileNames,
           op = "mkdir" => \A n \in 1 .. a : names[n] \in DirNames,
           CallFile(c, op, names)
    PROVE  /\ ~Running(call[c]) /\ call[c] \in EndedCall /\ Ready(c, op)
           /\ UNCHANGED <<tableVars, diskVars>> /\ Moves(c)
           /\ \A k \in Clients \ {c} : call'[k] = call[k]
           /\ call'[c] \in EndedCall \/ (call'[c] \in FileCall /\ FileInv(call'[c]))
           /\ \/ call'[c] \in EndedCall /\ ~call'[c].quiet
              \/ /\ call'[c] \in FileCall /\ FileInv(call'[c]) /\ call'[c].op = op
                 /\ call'[c].file = << >>
                 /\ op = "copy" => call'[c].at = "exists"
                 /\ call'[c].quiet =>
                        /\ Len(call'[c].meant) = a
                        /\ \A n \in 1 .. a :
                               /\ call'[c].fs[n] \in DOMAIN mount_table
                               /\ mount_table[call'[c].fs[n]] # Empty
                               /\ call'[c].meant[n] =
                                      <<mount_table[call'[c].fs[n]].fs, call'[c].path[n]>>
                               /\ call'[c].before[n] =
                                      node[call'[c].meant[n][1]][call'[c].meant[n][2]]
<1> DEFINE table == SubSeq(mount_table, 1, numMounts)
           known == numMounts # 0 /\ numMounts <= Len(mount_table)
           meant == IF known /\ CoreTable(table)
                    THEN [n \in DOMAIN names |-> Denotes(table, names[n])] ELSE << >>
           first == CASE op = "remove" -> "exists" [] op = "copy" -> "exists"
                      [] op = "rmdir" -> "check" [] OTHER -> op
           fs == [n \in DOMAIN names |-> getFS(table, names[n])]
           path == [n \in DOMAIN names |-> getFSPath(table, names[n])]
           before == [n \in DOMAIN meant |-> node[meant[n][1]][meant[n][2]]]
           new == [at |-> first, op |-> op, fs |-> fs, path |-> path,
                   file |-> << >>, got |-> << >>, cut |-> FALSE,
                   quiet |-> meant # << >>, meant |-> meant, before |-> before]
           failed == Over([Idle EXCEPT !.op = op], "raised")
<1>1. /\ Ready(c, op) /\ UNCHANGED <<tableVars, diskVars>>
      /\ \/ known /\ call' = [call EXCEPT ![c] = new]
         \/ ~known /\ call' = [call EXCEPT ![c] = failed]
    BY DEF CallFile
<1>2. ~Running(call[c]) /\ call[c] \in EndedCall
    BY <1>1, KindOfCall DEF Ready, TypeInv, CallTypes
<1>3. CASE ~known
    <2>1. << >> \in Meant /\ << >> \in Before /\ op \in Operations
        BY EmptySeq DEF Meant, Before, FileOps
    <2>2. [Idle EXCEPT !.op = op] \in EndedCall
        BY <2>1 DEF Idle, EndedCall
    <2>3. failed \in EndedCall /\ ~failed.quiet
        BY <2>2, OverType DEF Calls, Over
    <2> HIDE DEF failed, new, known
    <2>4. call' = [call EXCEPT ![c] = failed]
        BY <1>1, <1>3
    <2>5. /\ Moves(c) /\ call'[c] = failed /\ \A k \in Clients \ {c} : call'[k] = call[k]
        BY <2>3, <2>4, MovesPlain DEF TypeInv, Calls
    <2>6. call'[c] \in EndedCall /\ ~call'[c].quiet
        BY <2>3, <2>5
    <2>7. call'[c] \in EndedCall \/ (call'[c] \in FileCall /\ FileInv(call'[c]))
        BY <2>6
    <2>8. Ready(c, op) /\ UNCHANGED <<tableVars, diskVars>>
        BY <1>1
    <2> QED BY <1>2, <2>5, <2>6, <2>7, <2>8, Zenon
<1>4. CASE known
    <2>1. /\ mount_table \in Table /\ numMounts \in Nat /\ Len(mount_table) \in Nat
          /\ numMounts <= Len(mount_table) /\ numMounts # 0
        BY <1>4, TableIndex DEF TypeInv, TableTypes
    <2>2. /\ table \in Table /\ Len(table) = numMounts
          /\ \A i \in 1 .. numMounts : table[i] = mount_table[i]
        <3>1. \A i \in 1 .. numMounts : mount_table[i] \in Entry \cup {Empty}
            BY <2>1, ElementOfSeq DEF Table
        <3> QED BY <2>1, <3>1, SubSeqProperties DEF Table
    <2> HIDE DEF table
    <2>3. table # << >> /\ DOMAIN table = 1 .. numMounts /\ DOMAIN names = 1 .. a
        BY <2>1, <2>2, EmptySeq, LenProperties DEF Table
    <2>4. \A n \in 1 .. a : names[n] \in FileNames \cup DirNames /\ names[n] \in Seq(Elements)
        BY EntryType, ElementOfSeq
    <2>5. \A n \in 1 .. a : /\ getFS(table, names[n]) \in 1 .. numMounts
                            /\ getFSPath(table, names[n]) \in LocalPaths
        BY <2>2, <2>3, <2>4, BestMatch, NamePaths
    <2>6. /\ fs \in [1 .. a -> Nat \ {0}] /\ path \in [1 .. a -> LocalPaths]
          /\ fs \in Seq(Nat \ {0}) /\ path \in Seq(LocalPaths) /\ Len(fs) = a /\ Len(path) = a
          /\ \A n \in 1 .. a : fs[n] = getFS(table, names[n]) /\ path[n] = getFSPath(table, names[n])
        <3>1. fs \in [1 .. a -> Nat \ {0}] /\ path \in [1 .. a -> LocalPaths]
            BY <2>1, <2>3, <2>5
        <3>2. \A n \in 1 .. a : fs[n] = getFS(table, names[n]) /\ path[n] = getFSPath(table, names[n])
            BY <2>3
        <3> HIDE DEF fs, path
        <3>3. fs \in Seq(Nat \ {0}) /\ path \in Seq(LocalPaths)
            BY <3>1, SeqDef
        <3> QED BY <3>1, <3>2, <3>3
    <2>7. CoreTable(table) =>
              \A n \in 1 .. a : /\ table[getFS(table, names[n])] # Empty
                                /\ Denotes(table, names[n]) =
                                       <<table[getFS(table, names[n])].fs, getFSPath(table,
                                         names[n])>>
        BY <2>2, <2>4, Resolved
    <2>8. ASSUME CoreTable(table), NEW n \in 1 .. a
          PROVE  /\ fs[n] \in DOMAIN mount_table /\ mount_table[fs[n]] # Empty
                 /\ Denotes(table, names[n]) = <<mount_table[fs[n]].fs, path[n]>>
                 /\ Denotes(table, names[n]) \in FileSystems \X LocalPaths
        <3>1. fs[n] \in 1 .. numMounts /\ fs[n] \in DOMAIN mount_table /\ path[n] \in LocalPaths
            BY <2>1, <2>5, <2>6, <2>8, TableIndex
        <3>2. table[fs[n]] = mount_table[fs[n]]
            BY <2>2, <3>1
        <3>3. mount_table[fs[n]] \in Entry \cup {Empty}
            BY <2>1, <3>1, ElementOfSeq, TableIndex DEF Table
        <3> HIDE DEF fs, path
        <3>4. mount_table[fs[n]] # Empty
            BY <2>6, <2>7, <2>8, <3>2
        <3>5. Denotes(table, names[n]) = <<mount_table[fs[n]].fs, path[n]>>
            BY <2>6, <2>7, <2>8, <3>2
        <3>6. mount_table[fs[n]].fs \in FileSystems
            BY <3>3, <3>4 DEF Entry
        <3> QED BY <3>1, <3>4, <3>5, <3>6
    <2> HIDE DEF fs, path
    <2>9. meant = IF CoreTable(table) THEN [n \in 1 .. a |-> Denotes(table, names[n])] ELSE << >>
        BY <1>4, <2>3
    <2> HIDE DEF meant
    <2>10. /\ meant \in Meant /\ before \in Before
           /\ meant # << >> => /\ CoreTable(table) /\ Len(meant) = a
                               /\ \A n \in 1 .. a : meant[n] = Denotes(table, names[n])
                               /\ \A n \in 1 .. a : before[n] = node[meant[n][1]][meant[n][2]]
        <3>1. CASE ~CoreTable(table)
            BY <2>9, <3>1, EmptySeq DEF Meant, Before
        <3>2. CASE CoreTable(table)
            <4>1. meant \in [1 .. a -> FileSystems \X LocalPaths]
                BY <2>8, <2>9, <3>2
            <4>2. meant \in Meant /\ Len(meant) = a /\ DOMAIN meant = 1 .. a
                BY <4>1, SeqDef DEF Meant
            <4>3. \A n \in 1 .. a : node[meant[n][1]][meant[n][2]] \in Nat \cup {Nothing, Directory}
                <5>1. DOMAIN data \subseteq Nat
                    BY LenProperties DEF TypeInv, DiskInv
                <5> QED BY <4>1, <5>1 DEF TypeInv, DiskInv
            <4>4. before \in [1 .. a -> Nat \cup {Nothing, Directory}]
                BY <4>2, <4>3
            <4>5. \A n \in 1 .. a : before[n] = node[meant[n][1]][meant[n][2]]
                BY <4>2
            <4> HIDE DEF before
            <4>6. before \in Before
                BY <4>4, SeqDef DEF Before
            <4> QED BY <2>9, <3>2, <4>2, <4>5, <4>6
        <3> QED BY <3>1, <3>2
    <2> HIDE DEF before
    <2>11. /\ first \in FileSteps \ {"held", "close"} /\ first # "copyFile"
           /\ op = "copy" => first = "exists"
        BY DEF FileOps, Operations, FileSteps, CopySteps
    <2> HIDE DEF first
    <2>12. << >> \in Seq(Handle) /\ << >> \in Seq(Byte) /\ (meant # << >>) \in BOOLEAN
        BY EmptySeq
    <2>13. /\ new \in FileCall /\ new.at = first /\ new.op = op /\ new.fs = fs /\ new.path = path
           /\ new.file = << >> /\ new.meant = meant /\ new.before = before
           /\ new.quiet = (meant # << >>)
        BY <2>6, <2>10, <2>11, <2>12 DEF FileCall
    <2> HIDE DEF new
    <2>14. Named(new)
        <3>1. DOMAIN path = 1 .. a
            BY <2>6
        <3>2. \A n \in 1 .. a : /\ names[n] \in FileNames => path[n] \in FilePaths
                                /\ names[n] \in DirNames => Prefixes(path[n]) \cap FilePaths = {}
            BY <2>2, <2>3, <2>4, <2>6, NamePaths
        <3> QED BY <2>6, <2>13, <3>1, <3>2 DEF Named
    <2>15. Opened(new) /\ (op = "copy" => CopyOpened(new))
        BY <2>11, <2>13, EmptySeq DEF Opened, CopyOpened, CopySteps
    <2>16. call' = [call EXCEPT ![c] = new]
        BY <1>1, <1>4
    <2>17. /\ Moves(c) /\ call'[c] = new /\ \A k \in Clients \ {c} : call'[k] = call[k]
        BY <2>13, <2>16, MovesPlain DEF TypeInv, Calls
    <2>18. new.quiet => /\ Len(new.meant) = a
                        /\ \A n \in 1 .. a :
                               /\ new.fs[n] \in DOMAIN mount_table
                               /\ mount_table[new.fs[n]] # Empty
                               /\ new.meant[n] = <<mount_table[new.fs[n]].fs, new.path[n]>>
                               /\ new.before[n] = node[new.meant[n][1]][new.meant[n][2]]
        BY <2>8, <2>10, <2>13
    <2>19. FileInv(new)
        BY <2>13, <2>14, <2>15 DEF FileInv
    <2> QED BY <1>1, <1>2, <2>11, <2>13, <2>17, <2>18, <2>19
<1> QED BY <1>3, <1>4

LEMMA CallOnFileTypes ==
    ASSUME TypeInv, NEW c \in Clients, CallOnFile(c) PROVE FileStep(c)
<1>1. /\ {"remove", "create", "open", "mkdir", "rmdir", "copy"} \subseteq FileOps
      /\ FileOps \subseteq Operations
    BY DEF FileOps, Operations
<1>2. ASSUME NEW op \in FileOps, NEW a \in {1, 2}, a = (IF op = "copy" THEN 2 ELSE 1),
             NEW names \in Seq(FileNames \cup DirNames), Len(names) = a,
             op \in {"create", "open", "copy"} => \A n \in 1 .. a : names[n] \in FileNames,
             op = "mkdir" => \A n \in 1 .. a : names[n] \in DirNames,
             CallFile(c, op, names)
      PROVE  FileStep(c)
    <2>1. /\ call[c] \in EndedCall /\ Ready(c, op) /\ UNCHANGED <<tableVars, diskVars>> /\ Moves(c)
          /\ call'[c] \in EndedCall \/ (call'[c] \in FileCall /\ FileInv(call'[c]))
        BY <1>2, CallFileEffect, SMTT(20)
    <2>2. DOMAIN data \subseteq DOMAIN data' /\ DiskInv'
        BY <2>1, DiskStays DEF diskVars, TypeInv, DiskInv
    <2>3. call'[c] \in FileCall => (FileInv(call[c]))'
        <3>1. call'[c] \in EndedCall => call'[c] \notin FileCall
            BY NotFile
        <3>2. FileInv(call'[c]) => (FileInv(call[c]))'
            BY <2>1 DEF FileInv, Named, Opened, CopyOpened, diskVars
        <3> QED BY <2>1, <3>1, <3>2
    <2>4. op \in Operations
        BY <1>1
    <2> QED BY <2>1, <2>2, <2>3, <2>4 DEF FileStep
<1>3. ASSUME NEW op \in {"remove", "create", "open"}, NEW n \in FileNames, CallFile(c, op, <<n>>)
      PROVE  FileStep(c)
    <2>1. <<n>> \in Seq(FileNames \cup DirNames) /\ Len(<<n>>) = 1 /\ \A i \in 1 .. 1 : <<n>>[i] \in FileNames
        OBVIOUS
    <2> QED BY <1>1, <1>2, <1>3, <2>1
<1>4. ASSUME NEW op \in {"remove", "mkdir", "rmdir"}, NEW n \in DirNames, CallFile(c, op, <<n>>)
      PROVE  FileStep(c)
    <2>1. <<n>> \in Seq(FileNames \cup DirNames) /\ Len(<<n>>) = 1 /\ \A i \in 1 .. 1 : <<n>>[i] \in DirNames
        OBVIOUS
    <2> QED BY <1>1, <1>2, <1>4, <2>1
<1>5. ASSUME NEW src \in FileNames, NEW dst \in FileNames, CallFile(c, "copy", <<src, dst>>)
      PROVE  FileStep(c)
    <2>1. /\ <<src, dst>> \in Seq(FileNames \cup DirNames) /\ Len(<<src, dst>>) = 2
          /\ \A i \in 1 .. 2 : <<src, dst>>[i] \in FileNames
        OBVIOUS
    <2> QED BY <1>1, <1>2, <1>5, <2>1
<1> QED BY <1>3, <1>4, <1>5 DEF CallOnFile

-----------------------------------------------------------------------------
(* The invariants hold.                                                    *)

LEMMA Started == Init => TypeInv /\ RoomInv
<1> SUFFICES ASSUME Init PROVE TypeInv /\ RoomInv
    OBVIOUS
<1> DEFINE own == [mountPoint |-> Root, fs |-> Own]
<1>1. /\ mount_table = <<own>> /\ numMounts = 1 /\ granted = Range(mount_table)
      /\ node = Initially /\ data = InitialData /\ down = {}
      /\ call = [c \in Clients |-> Idle] /\ calls = [c \in Clients |-> 0]
    BY DEF Init
<1>2. own \in Entry
    BY NameAssumption, FileManagerBounds DEF Entry
<1> HIDE DEF own
<1>3. /\ mount_table \in Table /\ Len(mount_table) = 1 /\ mount_table[1] = own
      /\ DOMAIN mount_table = {1}
    <2>1. <<own>> \in Seq(Entry \cup {Empty}) /\ Len(<<own>>) = 1 /\ <<own>>[1] = own
        BY <1>2
    <2>2. DOMAIN <<own>> = {1}
        BY <2>1
    <2> QED BY <1>1, <2>1, <2>2 DEF Table
<1>4. granted = {own}
    BY <1>1, <1>3 DEF Range
<1>5. TableTypes
    BY <1>1, <1>2, <1>3, <1>4 DEF TableTypes
<1>6. DiskInv
    BY <1>1, DiskAssumption DEF DiskInv
<1>7. Idle \in EndedCall /\ Idle.at = "idle"
    <2>1. << >> \in Meant /\ << >> \in Before
        BY EmptySeq DEF Meant, Before
    <2> QED BY <2>1 DEF Idle, EndedCall
<1>8. \A c \in Clients : call[c] \in EndedCall /\ call[c].at = "idle"
    BY <1>1, <1>7
<1>9. CallTypes
    <2>1. call \in [Clients -> Calls]
        BY <1>1, <1>7 DEF Calls
    <2>2. \A c \in Clients : call[c] \notin FileCall
        BY <1>8, NotFile
    <2>3. calls \in [Clients -> Nat] /\ \A c \in Clients : calls[c] <= MaxCalls[c]
        BY <1>1, FileManagerBounds
    <2> QED BY <2>1, <2>2, <2>3 DEF CallTypes
<1>10. Growing = {} /\ Shrinking = {} /\ Cardinality({}) = 0
    BY <1>8, FS_EmptySet DEF Growing, Shrinking
<1>11. After(mount_table, 1) = {} /\ After(mount_table, 0) = {1}
    <2>1. own # Empty
        BY <1>2, EntryType
    <2> QED BY <1>3, <2>1 DEF After
<1>12. Room(0) /\ Room(1)
    <2>1. Cardinality({1}) = 1
        BY FS_Singleton
    <2> QED BY <1>1, <1>10, <1>11, <2>1 DEF Room
<1>13. \A c \in Clients : call[c] \notin MountCall
    BY <1>8 DEF EndedCall, MountCall
<1> QED BY <1>3, <1>4, <1>5, <1>6, <1>9, <1>12, <1>13 DEF TypeInv, RoomInv

LEMMA ClientStep ==
    ASSUME TypeInv, RoomInv, NEW c \in Clients,
           Remounts(c) \/ CallOnFile(c) \/ Single(c) \/ Copying(c)
    PROVE  TypeInv' /\ RoomInv'
<1>1. CASE Remounts(c)
    <2>1. CASE CallMount(c)
        BY <2>1, CallMountTypes, CallMountRoom
    <2>2. CASE CountMount(c)
        BY <2>2, CountMountTypes, CountMountRoom
    <2>3. CASE GrowTable(c)
        BY <2>3, GrowTypes, GrowRoom
    <2>4. CASE StoreMount(c)
        BY <2>4, StoreTypes, StoreRoom
    <2>5. CASE CallUnmount(c)
        BY <2>5, CallUnmountTypes, CallUnmountRoom
    <2>6. CASE CountUnmount(c)
        BY <2>6, CountUnmountTypes, CountUnmountRoom
    <2> QED BY <1>1, <2>1, <2>2, <2>3, <2>4, <2>5, <2>6 DEF Remounts
<1>2. CASE CallOnFile(c)
    BY <1>2, CallOnFileTypes, FileStepKeeps
<1>3. CASE Single(c)
    <2>1. FileStep(c)
        BY <1>3, RemoveExistsTypes, FileRemoveTypes, FileMkdirTypes, RmdirCheckTypes,
           RmdirPurgeTypes, FileCreateTypes, FileOpenTypes, FileWriteTypes, FileCloseTypes
           DEF Single
    <2> QED BY <2>1, FileStepKeeps
<1>4. CASE Copying(c)
    <2>1. FileStep(c)
        BY <1>4, CopyExistsTypes, CopyFileTypes, OpenTypes, SizeOfTypes, DestinationExistsTypes,
           CreateDestinationTypes, ReadSourceTypes, WriteDestinationTypes, CloseTypes
           DEF Copying
    <2> QED BY <2>1, FileStepKeeps
<1> QED BY <1>1, <1>2, <1>3, <1>4

LEMMA NodeDiesKeeps ==
    ASSUME TypeInv, RoomInv, UNCHANGED <<tableVars, node, data, call, calls>>,
           down' \subseteq FileSystems
    PROVE  TypeInv' /\ RoomInv'
<1>1. DiskInv'
    BY DiskStays DEF TypeInv
<1>2. TableTypes' /\ CallTypes'
    BY DEF TypeInv, TableTypes, CallTypes, FileInv, Named, Opened, CopyOpened, tableVars
<1>3. RoomInv'
    BY DEF RoomInv, Room, Growing, Shrinking, Alone, tableVars
<1> QED BY <1>1, <1>2, <1>3 DEF TypeInv

LEMMA Inductive == TypeInv /\ RoomInv /\ [Next]_vars => TypeInv' /\ RoomInv'
<1> SUFFICES ASSUME TypeInv, RoomInv, [Next]_vars PROVE TypeInv' /\ RoomInv'
    OBVIOUS
<1>1. CASE \E c \in Clients : Remounts(c) \/ CallOnFile(c) \/ Single(c) \/ Copying(c)
    BY <1>1, ClientStep
<1>2. CASE \E f \in FileSystems : NodeDies(f)
    <2>1. UNCHANGED <<tableVars, node, data, call, calls>> /\ down' \subseteq FileSystems
        BY <1>2 DEF NodeDies, TypeInv, DiskInv
    <2> QED BY <2>1, NodeDiesKeeps
<1>3. CASE UNCHANGED vars
    <2>1. UNCHANGED <<tableVars, node, data, call, calls>> /\ down' \subseteq FileSystems
        BY <1>3 DEF vars, diskVars, TypeInv, DiskInv
    <2> QED BY <2>1, NodeDiesKeeps
<1> QED BY <1>1, <1>2, <1>3 DEF Next

LEMMA Invariants == Spec => [](TypeInv /\ RoomInv)
BY Started, Inductive, PTL DEF Spec

-----------------------------------------------------------------------------
(* The theorems.                                                           *)

\* The table, the directories, the bytes and the calls are what TypeOK says,
\* however many clients overlap their mounts, unmounts and calls on files.
THEOREM TypeCorrect == Spec => []TypeOK
<1>1. TypeInv => TypeOK
    <2> SUFFICES ASSUME TypeInv PROVE TypeOK
        OBVIOUS
    <2>1. \A c \in Clients : /\ call[c].op \in Operations \cup {"none"}
                             /\ call[c].quiet \in BOOLEAN
        <3>1. \A k \in Calls : k.op \in Operations \cup {"none"} /\ k.quiet \in BOOLEAN
            BY DEF Calls, EndedCall, MountCall, UnmountCall, FileCall, FileOps, Operations
        <3> QED BY <3>1 DEF TypeInv, CallTypes
    <2>2. \A c \in Clients : calls[c] \in 0 .. MaxCalls[c]
        BY FileManagerBounds DEF TypeInv, CallTypes
    <2> QED BY <2>1, <2>2 DEF TypeOK, TypeInv, TableTypes, DiskInv, Table, Entry
<1> QED BY <1>1, Invariants, PTL

\* A mount that met no other is in the part of the table that is searched
\* until it is unmounted (FileManager_impl.cpp:73-136 takes no lock).
THEOREM ListedAlways == Spec => []LoneMountListed
<1>1. TypeInv /\ RoomInv => LoneMountListed
    <2> SUFFICES ASSUME TypeInv, RoomInv, NEW e \in granted
                 PROVE  \E i \in 1 .. Min({numMounts, Len(mount_table)}) : mount_table[i] = e
        BY DEF LoneMountListed
    <2>1. PICK i \in DOMAIN mount_table : mount_table[i] = e /\ Room(i)
        BY DEF RoomInv
    <2>2. /\ i \in 1 .. Len(mount_table) /\ i \in Nat /\ Len(mount_table) \in Nat
          /\ numMounts \in Nat
        BY <2>1, TableIndex DEF TypeInv, TableTypes
    <2>3. i <= numMounts
        <3>1. Counts(i)
            BY <2>2, CountsType
        <3> QED BY <2>1, <2>2, <3>1 DEF Room, Counts
    <2>4. Min({numMounts, Len(mount_table)}) =
              IF numMounts <= Len(mount_table) THEN numMounts ELSE Len(mount_table)
        BY <2>2, MinOfTwo
    <2>5. i \in 1 .. Min({numMounts, Len(mount_table)})
        BY <2>2, <2>3, <2>4
    <2> QED BY <2>1, <2>5
<1> QED BY <1>1, Invariants, PTL

\* In every table the core framework makes, counting common elements finds
\* the longest mount point above a name (FileManager_impl.cpp:445-499).
THEOREM ResolvesAlways == Spec => []ResolvesLongest
<1>1. TypeInv => ResolvesLongest
    <2> SUFFICES ASSUME TypeInv, CoreTable(mount_table), NEW n \in FileNames \cup DirNames
                 PROVE  <<mount_table[getFS(mount_table, n)].fs, getFSPath(mount_table, n)>>
                            = Denotes(mount_table, n)
        BY DEF ResolvesLongest
    <2>1. n \in Seq(Elements) /\ mount_table \in Table
        BY EntryType DEF TypeInv, TableTypes
    <2> QED BY <2>1, Resolved
<1> QED BY <1>1, Invariants, PTL

=============================================================================
