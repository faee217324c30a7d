----------------------------- MODULE FixProofs -----------------------------
(***************************************************************************)
(* `kuro fix` for every number of sessions, every tree and every report.   *)
(***************************************************************************)
EXTENDS Fix, FiniteSetTheorems, SequenceTheorems, TLAPS

\* The findings of a list that are about a file and a value.
Left(q, f, v) == {i \in DOMAIN q : q[i].at.file = f /\ q[i].secret = v}

(***************************************************************************)
(* What is in a file is covered by what the walk did not report and by the *)
(* findings ahead.  Not every occurrence has a finding of its own: a fix   *)
(* replaces the first quoted one of the value, wherever the finding is.    *)
(***************************************************************************)
Covered(q) ==
  \A f \in ToSet(Files), v \in Secrets :
    Cardinality(Occurrences(tree[f], v)) <=
      Cardinality(Unreported(origin[f], v)) + Cardinality(Left(q, f, v))

AllFixed ==
  \A f \in ToSet(Files), v \in Secrets :
    Cardinality(Occurrences(tree[f], v)) <= Cardinality(Unreported(origin[f], v))

\* A session that has something to write got it for the finding at hand.
Pending ==
  \A s \in Sessions :
    /\ pc[s] = "idle" => failed[s] = 0
    /\ pc[s] # "ended" => status[s] = -1
    /\ pc[s] \in {"file", "manifest"} => findings[s] # <<>>

AloneInv ==
  /\ Started = {} => tree = origin
  /\ \A s \in Sessions : Started = {s} /\ mode[s] = WholeTree =>
       /\ pc[s] # "manifest"
       /\ pc[s] \in {"loop", "file"} /\ failed[s] = 0 => Covered(findings[s])
       /\ pc[s] = "file" =>
            LET x == Head(findings[s])
            IN  /\ toWrite[s].file = ApplyFixToContent(tree[x.at.file], x.secret)
                /\ toWrite[s].file # tree[x.at.file]
       /\ status[s] = 0 => AllFixed

\* What is on disk, and what is about to be, refers to what it imports and can be
\* given the import, if the file could from the start.
Sound(file) == ~Misleads(file) /\ Resolves(file)

FilesResolve ==
  /\ \A f \in ToSet(Files) : Misleads(origin[f]) \/ Sound(tree[f])
  /\ \A s \in Sessions : pc[s] = "file" =>
       Misleads(origin[Head(findings[s]).at.file]) \/ Sound(toWrite[s].file)

\* A manifest that is about to be written has what the one on disk says, if
\* nobody else is there, and the one on disk could be read.
ManifestInv ==
  \A s \in Sessions : pc[s] = "manifest" =>
    /\ manifest.state # "invalid" /\ toWrite[s].manifest.state = "valid"
    /\ Alone => manifest.records \subseteq toWrite[s].manifest.records

IInv == TypeOK /\ Pending /\ AloneInv /\ FilesResolve /\ ManifestInv

-----------------------------------------------------------------------------

LEMMA MinIsLeast ==
  ASSUME NEW S \in SUBSET Nat, S # {}
  PROVE  Min(S) \in S
<1>1. IsWellFoundedOn(OpToRel(<, Nat), Nat)
  BY NatLessThanWellFounded
<1>2. PICK x \in S : \A y \in S : ~(<<y, x>> \in OpToRel(<, Nat))
  BY <1>1, WFMin
<1>3. \A y \in S : x =< y
  <2> SUFFICES ASSUME NEW y \in S PROVE ~(y < x)
    OBVIOUS
  <2> QED BY <1>2 DEF OpToRel
<1> QED BY <1>3 DEF Min

LEMMA UpTo ==
  ASSUME NEW n \in Nat, NEW T \in SUBSET (1 .. n)
  PROVE  IsFiniteSet(T) /\ Cardinality(T) \in Nat
<1>1. IsFiniteSet(1 .. n)
  BY FS_Interval
<1> QED BY <1>1, FS_Subset, FS_CardinalityType

LEMMA FirstIsOne ==
  ASSUME NEW S \in SUBSET (Nat \X Nat), S # {}
  PROVE  First(S) \in S
<1> DEFINE K    == {o[1] : o \in S}
           I(k) == {o[2] : o \in {p \in S : p[1] = k}}
<1>1. Min(K) \in K
  <2>1. K \in SUBSET Nat /\ K # {}
    OBVIOUS
  <2> HIDE DEF K
  <2> QED BY <2>1, MinIsLeast
<1>2. PICK o \in S : o[1] = Min(K)
  BY <1>1
<1>3. Min(I(Min(K))) \in I(Min(K))
  <2>1. I(Min(K)) \in SUBSET Nat /\ I(Min(K)) # {}
    BY <1>2
  <2> HIDE DEF K, I
  <2> QED BY <2>1, MinIsLeast
<1>4. PICK q \in S : q[1] = Min(K) /\ q[2] = Min(I(Min(K)))
  BY <1>3
<1>5. First(S) = <<Min(K), Min(I(Min(K)))>>
  BY DEF First
<1>6. q = <<q[1], q[2]>>
  OBVIOUS
<1> HIDE DEF K, I
<1> QED BY <1>4, <1>5, <1>6

LEMMA FileLines ==
  ASSUME NEW file \in File
  PROVE  /\ file.kind \in {"go", "py", "js", "other"} /\ file.imports \in Imports
         /\ file.lines \in Seq(Line)
         /\ Len(file.lines) \in Nat /\ DOMAIN file.lines = 1 .. Len(file.lines)
         /\ file.lines \in [1 .. Len(file.lines) -> Line]
         /\ file = [kind |-> file.kind, imports |-> file.imports, lines |-> file.lines]
<1>1. /\ file.kind \in {"go", "py", "js", "other"} /\ file.imports \in Imports
      /\ file.lines \in Seq(Line)
      /\ file = [kind |-> file.kind, imports |-> file.imports, lines |-> file.lines]
  BY DEF File
<1> HIDE DEF Line
<1> QED BY <1>1

LEMMA LineTyped ==
  ASSUME NEW line \in Line
  PROVE  /\ Len(line) \in Nat /\ DOMAIN line = 1 .. Len(line)
         /\ \A i \in DOMAIN line : line[i] \in Occurrence \cup {Reference}
         /\ Recognized(line) # {} => Min(Recognized(line)) \in Recognized(line)
         /\ Detected(line) \in Secrets \cup {""}
<1>1. /\ Len(line) \in Nat /\ DOMAIN line = 1 .. Len(line)
      /\ \A i \in DOMAIN line : line[i] \in Occurrence \cup {Reference}
  <2> HIDE DEF Occurrence, Reference
  <2> QED BY DEF Line
<1>2. ASSUME Recognized(line) # {} PROVE Min(Recognized(line)) \in Recognized(line)
  <2>1. Recognized(line) \in SUBSET Nat
    BY <1>1 DEF Recognized
  <2> QED BY <1>2, <2>1, MinIsLeast
<1>3. \A x \in Occurrence \cup {Reference} : x.secret \in Secrets \cup {""}
  <2>1. \A x \in Occurrence : x.secret \in Secrets
    BY DEF Occurrence
  <2>2. Reference.secret = ""
    BY DEF Reference
  <2> HIDE DEF Occurrence, Reference
  <2> QED BY <2>1, <2>2
<1>4. Detected(line) \in Secrets \cup {""}
  <2>1. CASE Recognized(line) = {}
    BY <2>1 DEF Detected
  <2>2. CASE Recognized(line) # {}
    <3>1. Min(Recognized(line)) \in DOMAIN line
      BY <1>2, <2>2 DEF Recognized
    <3>2. line[Min(Recognized(line))] \in Occurrence \cup {Reference}
      BY <1>1, <3>1
    <3> QED BY <1>3, <2>2, <3>2 DEF Detected
  <2> QED BY <2>1, <2>2
<1> QED BY <1>1, <1>2, <1>4

LEMMA WhereItOccurs ==
  ASSUME NEW file, NEW v
  PROVE  /\ \A k \in DOMAIN file.lines : \A i \in DOMAIN file.lines[k] :
              file.lines[k][i].secret = v <=> <<k, i>> \in Occurrences(file, v)
         /\ \A o \in Occurrences(file, v) :
              /\ o = <<o[1], o[2]>> /\ o[1] \in DOMAIN file.lines
              /\ o[2] \in DOMAIN file.lines[o[1]] /\ file.lines[o[1]][o[2]].secret = v
BY DEF Occurrences

LEMMA OccurrencesFinite ==
  ASSUME NEW file \in File, NEW v
  PROVE  /\ IsFiniteSet(Occurrences(file, v)) /\ Cardinality(Occurrences(file, v)) \in Nat
         /\ Occurrences(file, v) \subseteq Nat \X Nat
         /\ IsFiniteSet(Unreported(file, v)) /\ Cardinality(Unreported(file, v)) \in Nat
<1> DEFINE D    == DOMAIN file.lines
           P(k) == {k} \X {i \in DOMAIN file.lines[k] : file.lines[k][i].secret = v}
           S    == {P(k) : k \in D}
           g    == [k \in D |-> P(k)]
<1>1. D = 1 .. Len(file.lines) /\ Len(file.lines) \in Nat /\ \A k \in D : file.lines[k] \in Line
  BY FileLines
<1>2. IsFiniteSet(D)
  BY <1>1, FS_Interval
<1>3. ASSUME NEW k \in D PROVE IsFiniteSet(P(k)) /\ P(k) \subseteq Nat \X Nat
  <2> DEFINE I == {i \in DOMAIN file.lines[k] : file.lines[k][i].secret = v}
  <2>1. Len(file.lines[k]) \in Nat /\ DOMAIN file.lines[k] = 1 .. Len(file.lines[k])
    BY <1>1, LineTyped
  <2>2. I \in SUBSET (1 .. Len(file.lines[k]))
    BY <2>1
  <2>3. IsFiniteSet(I)
    <3> HIDE DEF I, D, P, S, g
    <3> QED BY <2>1, <2>2, UpTo
  <2>4. IsFiniteSet({k})
    BY FS_Singleton
  <2>5. IsFiniteSet({k} \X I)
    BY <2>3, <2>4, FS_Product
  <2> QED BY <1>1, <2>1, <2>5
<1>4. g \in Surjection(D, S)
  <2>1. g \in [D -> S] /\ \A x \in S : \E k \in D : g[k] = x
    OBVIOUS
  <2> HIDE DEF D, g, S
  <2> QED BY <2>1 DEF Surjection
<1>5. IsFiniteSet(S)
  <2> HIDE DEF D, g, S
  <2> QED BY <1>2, <1>4, FS_Surjection
<1>6. IsFiniteSet(UNION S) /\ UNION S \subseteq Nat \X Nat
  <2>1. \A T \in S : IsFiniteSet(T) /\ T \subseteq Nat \X Nat
    <3> HIDE DEF D, P
    <3> QED BY <1>3
  <2> HIDE DEF S
  <2> QED BY <1>5, <2>1, FS_UNION
<1>7. Occurrences(file, v) = UNION S
  BY DEF Occurrences
<1>8. Unreported(file, v) \subseteq Occurrences(file, v)
  BY DEF Unreported
<1> HIDE DEF S
<1> QED BY <1>6, <1>7, <1>8, FS_Subset, FS_CardinalityType

LEMMA LeftFinite ==
  ASSUME NEW q \in Seq(Finding), NEW f, NEW v
  PROVE  IsFiniteSet(Left(q, f, v)) /\ Cardinality(Left(q, f, v)) \in Nat
<1>1. DOMAIN q = 1 .. Len(q) /\ Len(q) \in Nat
  OBVIOUS
<1>2. Left(q, f, v) \in SUBSET (1 .. Len(q))
  BY <1>1 DEF Left
<1> QED BY <1>1, <1>2, UpTo

-----------------------------------------------------------------------------

\* The file with one place turned into a reference.
FixedAt(file, o) ==
  [kind    |-> file.kind,
   imports |-> WithImport(file.kind, file.imports),
   lines   |-> [file.lines EXCEPT ![o[1]] = [file.lines[o[1]] EXCEPT ![o[2]] = Reference]]]

LEMMA FileFields ==
  ASSUME NEW file \in File, NEW e, NEW d
  PROVE  [[file EXCEPT !.lines = e] EXCEPT !.imports = d]
           = [kind |-> file.kind, imports |-> d, lines |-> e]
<1>1. PICK a \in {"go", "py", "js", "other"}, b \in Imports, c \in Seq(Line) :
        file = [kind |-> a, imports |-> b, lines |-> c]
  BY Zenon DEF File
<1>2. [file EXCEPT !.lines = e] = [kind |-> a, imports |-> b, lines |-> e]
  BY <1>1
<1>3. [[kind |-> a, imports |-> b, lines |-> e] EXCEPT !.imports = d]
        = [kind |-> a, imports |-> d, lines |-> e]
  OBVIOUS
<1>4. file.kind = a
  BY <1>1
<1> QED BY <1>2, <1>3, <1>4, Zenon

(***************************************************************************)
(* What a fix does to a file: nothing, or one place that holds the value   *)
(* becomes a reference, and the import is added if it takes one.           *)
(***************************************************************************)
LEMMA FixChangesOnePlace ==
  ASSUME NEW file \in File, NEW v, ApplyFixToContent(file, v) # file
  PROVE  /\ v # "" /\ file.kind # "other"
         /\ \E o \in Occurrences(file, v) : ApplyFixToContent(file, v) = FixedAt(file, o)
<1> DEFINE at == Replaced(file, v)
           o  == First(at)
<1>1. /\ v # "" /\ file.kind # "other" /\ at # {}
      /\ ApplyFixToContent(file, v) =
           [file EXCEPT !.lines[o[1]][o[2]] = Reference, !.imports = WithImport(file.kind, @)]
  BY DEF ApplyFixToContent, Fixable
<1>2. at \subseteq Occurrences(file, v)
  BY DEF Replaced, Holds
<1>3. o \in at
  <2>1. at \in SUBSET (Nat \X Nat)
    BY <1>2, OccurrencesFinite
  <2> QED BY <1>1, <2>1, FirstIsOne
<1> HIDE DEF o, at
<1> DEFINE new == [file.lines EXCEPT ![o[1]] = [file.lines[o[1]] EXCEPT ![o[2]] = Reference]]
           imp == WithImport(file.kind, file.imports)
<1>4. [file EXCEPT !.lines[o[1]][o[2]] = Reference, !.imports = WithImport(file.kind, @)] =
        [[file EXCEPT !.lines = new] EXCEPT !.imports = imp]
  OBVIOUS
<1>5. [[file EXCEPT !.lines = new] EXCEPT !.imports = imp]
        = [kind |-> file.kind, imports |-> imp, lines |-> new]
  <2> HIDE DEF new, imp
  <2> QED BY FileFields
<1>6. ApplyFixToContent(file, v) = FixedAt(file, o)
  BY <1>1, <1>4, <1>5 DEF FixedAt
<1> QED BY <1>1, <1>2, <1>3, <1>6

\* The fields of a fixed file.
LEMMA FixedFields ==
  ASSUME NEW file \in File, NEW v, NEW o \in Occurrences(file, v)
  PROVE  /\ FixedAt(file, o).kind = file.kind
         /\ FixedAt(file, o).imports = WithImport(file.kind, file.imports)
         /\ FixedAt(file, o).lines =
              [file.lines EXCEPT ![o[1]] = [file.lines[o[1]] EXCEPT ![o[2]] = Reference]]
         /\ FixedAt(file, o).lines \in Seq(Line)
<1> DEFINE line == [file.lines[o[1]] EXCEPT ![o[2]] = Reference]
<1>1. o[1] \in DOMAIN file.lines /\ o[2] \in DOMAIN file.lines[o[1]]
  BY WhereItOccurs
<1>2. file.lines[o[1]] \in Line
  BY <1>1, FileLines
<1>3. line \in Line
  <2>1. Reference \in Occurrence \cup {Reference}
    OBVIOUS
  <2> HIDE DEF Occurrence, Reference
  <2> QED BY <1>1, <1>2, <2>1, ExceptSeq DEF Line
<1> HIDE DEF line
<1>4. [file.lines EXCEPT ![o[1]] = line] \in Seq(Line)
  <2> HIDE DEF Line
  <2> QED BY <1>1, <1>3, FileLines, ExceptSeq
<1> QED BY <1>4 DEF FixedAt, line

LEMMA ImportAdded ==
  ASSUME NEW kind \in {"go", "py", "js", "other"}, NEW m \in Imports
  PROVE  /\ WithImport(kind, m) \in Imports
         /\ ~(~m.imported /\ (m.mentioned \/ m.place # "read")) =>
              LET n == WithImport(kind, m)
              IN  /\ ~(~n.imported /\ (n.mentioned \/ n.place # "read"))
                  /\ kind \in {"go", "py"} => n.imported
BY DEF WithImport, Imports

LEMMA FixTyped ==
  ASSUME NEW file \in File, NEW v
  PROVE  /\ ApplyFixToContent(file, v) \in File
         /\ Sound(file) => Sound(ApplyFixToContent(file, v))
<1>1. CASE ApplyFixToContent(file, v) = file
  BY <1>1
<1>2. CASE ApplyFixToContent(file, v) # file
  <2>1. PICK o \in Occurrences(file, v) : ApplyFixToContent(file, v) = FixedAt(file, o)
    BY <1>2, FixChangesOnePlace
  <2>2. file.kind \in {"go", "py", "js"} /\ file.imports \in Imports
    BY <1>2, FixChangesOnePlace, FileLines
  <2> DEFINE new == FixedAt(file, o)
             m   == WithImport(file.kind, file.imports)
  <2>3. new.kind = file.kind /\ new.imports = m /\ new.lines \in Seq(Line)
    BY FixedFields
  <2>4. m \in Imports
    BY <2>2, ImportAdded
  <2>5. new \in File
    <3>1. new = [kind |-> new.kind, imports |-> new.imports, lines |-> new.lines]
      BY DEF FixedAt
    <3> HIDE DEF new, m
    <3> QED BY <2>2, <2>3, <2>4, <3>1 DEF File
  <2>6. ASSUME Sound(file) PROVE Sound(new)
    <3>1. ~(~file.imports.imported /\ (file.imports.mentioned \/ file.imports.place # "read"))
      BY <2>6 DEF Sound, Misleads
    <3>2. /\ ~(~m.imported /\ (m.mentioned \/ m.place # "read"))
          /\ file.kind \in {"go", "py"} => m.imported
      BY <2>2, <3>1, ImportAdded
    <3> HIDE DEF new, m
    <3> QED BY <2>2, <2>3, <3>2 DEF Sound, Misleads, Resolves
  <2> QED BY <2>1, <2>5, <2>6
<1> QED BY <1>1, <1>2

\* A fix takes one occurrence of the value away, and none of another one.
LEMMA FixCounts ==
  ASSUME NEW file \in File, NEW v, NEW w \in Secrets, ApplyFixToContent(file, v) # file
  PROVE  Cardinality(Occurrences(ApplyFixToContent(file, v), w)) =
           IF w = v THEN Cardinality(Occurrences(file, w)) - 1 ELSE Cardinality(Occurrences(file, w))
<1>1. PICK o \in Occurrences(file, v) : ApplyFixToContent(file, v) = FixedAt(file, o)
  BY FixChangesOnePlace
<1> DEFINE new == FixedAt(file, o)
<1>2. w # "" /\ Reference.secret = ""
  BY FixAssumption DEF FixAssumption, Reference
<1>3. new.lines = [file.lines EXCEPT ![o[1]] = [file.lines[o[1]] EXCEPT ![o[2]] = Reference]]
  BY FixedFields
<1>4. /\ o = <<o[1], o[2]>> /\ o[1] \in DOMAIN file.lines /\ o[2] \in DOMAIN file.lines[o[1]]
      /\ file.lines[o[1]][o[2]].secret = v
  BY WhereItOccurs
<1>5. file.lines = [k \in DOMAIN file.lines |-> file.lines[k]]
  BY FileLines
<1>6. file.lines[o[1]] = [i \in DOMAIN file.lines[o[1]] |-> file.lines[o[1]][i]]
  BY <1>4, FileLines DEF Line
<1> HIDE DEF new
<1>7. /\ DOMAIN new.lines = DOMAIN file.lines
      /\ \A k \in DOMAIN file.lines :
           /\ DOMAIN new.lines[k] = DOMAIN file.lines[k]
           /\ \A i \in DOMAIN file.lines[k] :
                new.lines[k][i] = IF <<k, i>> = o THEN Reference ELSE file.lines[k][i]
  <2>1. DOMAIN new.lines = DOMAIN file.lines
    BY <1>3
  <2>2. \A k \in DOMAIN file.lines : k # o[1] => new.lines[k] = file.lines[k]
    BY <1>3
  <2>3. new.lines[o[1]] = [file.lines[o[1]] EXCEPT ![o[2]] = Reference]
    BY <1>3, <1>4
  <2>4. /\ DOMAIN new.lines[o[1]] = DOMAIN file.lines[o[1]]
        /\ \A i \in DOMAIN file.lines[o[1]] :
             new.lines[o[1]][i] = IF i = o[2] THEN Reference ELSE file.lines[o[1]][i]
    BY <1>6, <2>3
  <2>5. \A k, i : <<k, i>> = o <=> k = o[1] /\ i = o[2]
    BY <1>4
  <2> QED BY <2>1, <2>2, <2>4, <2>5
<1>8. ASSUME NEW k \in DOMAIN file.lines, NEW i \in DOMAIN file.lines[k]
      PROVE  <<k, i>> \in Occurrences(new, w) <=> <<k, i>> \in Occurrences(file, w) /\ <<k, i>> # o
  <2>1. <<k, i>> \in Occurrences(new, w) <=> new.lines[k][i].secret = w
    BY <1>7, WhereItOccurs
  <2>2. <<k, i>> \in Occurrences(file, w) <=> file.lines[k][i].secret = w
    BY WhereItOccurs
  <2> QED BY <1>2, <1>7, <2>1, <2>2
<1>9. Occurrences(new, w) = Occurrences(file, w) \ {o}
  <2>1. ASSUME NEW p \in Occurrences(new, w) PROVE p \in Occurrences(file, w) \ {o}
    <3>1. p = <<p[1], p[2]>> /\ p[1] \in DOMAIN file.lines /\ p[2] \in DOMAIN file.lines[p[1]]
      BY <1>7, WhereItOccurs
    <3> QED BY <1>8, <3>1
  <2>2. ASSUME NEW p \in Occurrences(file, w) \ {o} PROVE p \in Occurrences(new, w)
    <3>1. p = <<p[1], p[2]>> /\ p[1] \in DOMAIN file.lines /\ p[2] \in DOMAIN file.lines[p[1]]
      BY WhereItOccurs
    <3> QED BY <1>8, <3>1
  <2> QED BY <2>1, <2>2
<1>10. IsFiniteSet(Occurrences(file, w))
  BY OccurrencesFinite
<1>11. Cardinality(Occurrences(file, w) \ {o}) =
         IF o \in Occurrences(file, w) THEN Cardinality(Occurrences(file, w)) - 1
         ELSE Cardinality(Occurrences(file, w))
  BY <1>10, FS_RemoveElement
<1>12. o \in Occurrences(file, w) <=> w = v
  BY <1>4, WhereItOccurs
<1> QED BY <1>1, <1>9, <1>11, <1>12 DEF new

\* Going on to the next finding takes one away, the one at hand.
LEMMA TailCounts ==
  ASSUME NEW q \in Seq(Finding), q # <<>>, NEW f, NEW v
  PROVE  Cardinality(Left(Tail(q), f, v)) =
           IF Head(q).at.file = f /\ Head(q).secret = v THEN Cardinality(Left(q, f, v)) - 1
           ELSE Cardinality(Left(q, f, v))
<1> DEFINE A == Left(q, f, v) \ {1}
           B == Left(Tail(q), f, v)
           h == [i \in B |-> i + 1]
<1>1. /\ Len(q) \in Nat /\ Len(q) > 0 /\ DOMAIN q = 1 .. Len(q)
      /\ Tail(q) \in Seq(Finding) /\ DOMAIN Tail(q) = 1 .. Len(q) - 1
      /\ \A i \in 1 .. Len(q) - 1 : Tail(q)[i] = q[i + 1]
      /\ Head(q) = q[1]
  OBVIOUS
<1>2. h \in [B -> A]
  BY <1>1 DEF Left
<1>3. \A i, j \in B : h[i] = h[j] => i = j
  BY <1>1 DEF Left
<1>4. \A k \in A : \E i \in B : h[i] = k
  <2> SUFFICES ASSUME NEW k \in A PROVE k - 1 \in B /\ h[k - 1] = k
    OBVIOUS
  <2>1. k \in 2 .. Len(q) /\ q[k].at.file = f /\ q[k].secret = v
    BY <1>1 DEF Left
  <2>2. k - 1 \in 1 .. Len(q) - 1 /\ Tail(q)[k - 1] = q[k]
    BY <1>1, <2>1
  <2>3. k - 1 \in B
    BY <1>1, <2>1, <2>2 DEF Left
  <2> QED BY <2>1, <2>3
<1>5. ExistsBijection(B, A)
  <2> HIDE DEF A, B, h
  <2> QED BY <1>2, <1>3, <1>4 DEF ExistsBijection, Bijection, Injection, Surjection, IsInjective
<1>6. IsFiniteSet(B) /\ IsFiniteSet(Left(q, f, v))
  BY <1>1, LeftFinite
<1>7. Cardinality(A) = Cardinality(B)
  BY <1>5, <1>6, FS_Bijection
<1>8. 1 \in Left(q, f, v) <=> Head(q).at.file = f /\ Head(q).secret = v
  BY <1>1 DEF Left
<1> HIDE DEF B
<1> QED BY <1>6, <1>7, <1>8, FS_RemoveElement DEF B

-----------------------------------------------------------------------------

LEMMA FindingsFinite ==
  ASSUME TypeOK
  PROVE  IsFiniteSet(TreeFindings) /\ TreeFindings \subseteq Finding
<1> DEFINE At(f, k) == [at |-> [file |-> f, line |-> k], secret |-> Detected(tree[f].lines[k])]
<1>1. ASSUME NEW f \in ToSet(Files)
      PROVE  IsFiniteSet(FileFindings(f)) /\ FileFindings(f) \subseteq Finding
  <2> DEFINE S == {k \in DOMAIN tree[f].lines : Detected(tree[f].lines[k]) # ""}
             h == [k \in S |-> At(f, k)]
  <2>1. tree[f] \in File
    BY <1>1 DEF TypeOK, Tree
  <2>2. Len(tree[f].lines) \in Nat /\ S \in SUBSET (1 .. Len(tree[f].lines))
    BY <2>1, FileLines
  <2>3. IsFiniteSet(S)
    <3> HIDE DEF S
    <3> QED BY <2>2, UpTo
  <2>4. FileFindings(f) = {At(f, k) : k \in S}
    BY DEF FileFindings
  <2>5. h \in Surjection(S, FileFindings(f))
    <3>1. h \in [S -> FileFindings(f)] /\ \A x \in FileFindings(f) : \E k \in S : h[k] = x
      <4> HIDE DEF S, At
      <4> QED BY <2>4
    <3> HIDE DEF S, h
    <3> QED BY <3>1 DEF Surjection
  <2>6. FileFindings(f) \subseteq Finding
    <3>1. \A k \in S : k \in Nat /\ Detected(tree[f].lines[k]) \in Secrets \cup {""}
      <4> SUFFICES ASSUME NEW k \in S
                   PROVE  k \in Nat /\ Detected(tree[f].lines[k]) \in Secrets \cup {""}
        OBVIOUS
      <4>1. k \in Nat /\ tree[f].lines[k] \in Line
        <5>1. k \in 1 .. Len(tree[f].lines)
          BY <2>2
        <5> HIDE DEF S
        <5> QED BY <2>1, <5>1, FileLines
      <4> HIDE DEF S
      <4> QED BY <4>1, LineTyped
    <3>2. \A k \in S : At(f, k) \in Finding
      <4> HIDE DEF S
      <4> QED BY <1>1, <3>1 DEF Finding, Position
    <3> HIDE DEF S, At
    <3> QED BY <2>4, <3>2
  <2> HIDE DEF S, h
  <2> QED BY <2>3, <2>5, <2>6, FS_Surjection
<1> DEFINE Parts == {FileFindings(f) : f \in ToSet(Files)}
           g     == [i \in DOMAIN Files |-> FileFindings(Files[i])]
<1>2. IsFiniteSet(DOMAIN Files) /\ ToSet(Files) = {Files[i] : i \in DOMAIN Files}
  <2>1. Files \in Seq(STRING)
    BY FixAssumption DEF FixAssumption
  <2>2. DOMAIN Files = 1 .. Len(Files) /\ Len(Files) \in Nat
    BY <2>1
  <2>3. IsFiniteSet(1 .. Len(Files))
    BY <2>2, FS_Interval
  <2>4. ToSet(Files) = {Files[i] : i \in DOMAIN Files}
    BY Zenon DEF ToSet
  <2> HIDE DEF g, Parts
  <2> QED BY <2>2, <2>3, <2>4, Zenon
<1>3. g \in Surjection(DOMAIN Files, Parts)
  <2>1. g \in [DOMAIN Files -> Parts] /\ \A x \in Parts : \E i \in DOMAIN Files : g[i] = x
    BY <1>2
  <2> HIDE DEF g, Parts
  <2> QED BY <2>1 DEF Surjection
<1>4. IsFiniteSet(Parts)
  <2> HIDE DEF g, Parts
  <2> QED BY <1>2, <1>3, FS_Surjection
<1>5. IsFiniteSet(UNION Parts)
  BY <1>1, <1>4, FS_UNION
<1> QED BY <1>1, <1>5 DEF TreeFindings

(***************************************************************************)
(* The walk finds each line with a recognized value once, so there are as  *)
(* many findings of a value in a file as occurrences that it reports.      *)
(***************************************************************************)
LEMMA WalkCovers ==
  ASSUME TypeOK, NEW q \in TreeWalk
  PROVE  q \in Seq(Finding) /\ (tree = origin => Covered(q))
<1> DEFINE S == TreeFindings
           n == Cardinality(S)
<1>1. IsFiniteSet(S) /\ S \subseteq Finding /\ n \in Nat
  BY FindingsFinite, FS_CardinalityType
<1>2. q \in [1 .. n -> S] /\ \A i, j \in 1 .. n : i # j => q[i] # q[j]
  BY DEF TreeWalk, SetToSeqs
<1>3. q \in Injection(1 .. n, S)
  <2> HIDE DEF S, n
  <2> QED BY <1>2 DEF Injection, IsInjective
<1>4. \A x \in S : \E i \in 1 .. n : q[i] = x
  <2>1. Cardinality(1 .. n) = n
    BY <1>1, FS_Interval
  <2> HIDE DEF S, n
  <2>2. q \in Surjection(1 .. n, S)
    BY <1>1, <1>3, <2>1, FS_Injection DEF n
  <2> QED BY <2>2 DEF Surjection
<1>5. q \in Seq(Finding) /\ DOMAIN q = 1 .. n
  <2> HIDE DEF S, n
  <2> QED BY <1>1, <1>2
<1>6. ASSUME tree = origin, NEW f \in ToSet(Files), NEW v \in Secrets
      PROVE  Cardinality(Occurrences(tree[f], v)) <=
               Cardinality(Unreported(origin[f], v)) + Cardinality(Left(q, f, v))
  <2> DEFINE O == Occurrences(tree[f], v)
             U == Unreported(tree[f], v)
             A == O \ U
             B == Left(q, f, v)
             At(o) == [at |-> [file |-> f, line |-> o[1]], secret |-> v]
             h == [o \in A |-> CHOOSE i \in DOMAIN q : q[i] = At(o)]
  <2>1. v # ""
    BY FixAssumption DEF FixAssumption
  <2>2. tree[f] \in File
    BY <1>6 DEF TypeOK, Tree
  <2>3. ASSUME NEW o \in A
        PROVE  /\ o = <<o[1], o[2]>> /\ o[1] \in DOMAIN tree[f].lines
               /\ o[2] = Min(Recognized(tree[f].lines[o[1]]))
               /\ Detected(tree[f].lines[o[1]]) = v
    <3>1. /\ o = <<o[1], o[2]>> /\ o[1] \in DOMAIN tree[f].lines
          /\ tree[f].lines[o[1]][o[2]].secret = v
      BY WhereItOccurs
    <3>2. Recognized(tree[f].lines[o[1]]) # {} /\ o[2] = Min(Recognized(tree[f].lines[o[1]]))
      BY DEF Unreported
    <3> QED BY <3>1, <3>2 DEF Detected
  <2>4. \A o \in A : At(o) \in S
    <3> SUFFICES ASSUME NEW o \in A PROVE At(o) \in FileFindings(f)
      BY <1>6 DEF TreeFindings
    <3> QED BY <2>1, <2>3 DEF FileFindings
  <2>5. \A o \in A : h[o] \in DOMAIN q /\ q[h[o]] = At(o)
    <3> HIDE DEF A, At, S, n
    <3> QED BY <1>4, <1>5, <2>4
  <2>6. \A o \in A : At(o).at.file = f /\ At(o).secret = v /\ At(o).at.line = o[1]
    OBVIOUS
  <2>7. h \in [A -> B] /\ \A o, u \in A : h[o] = h[u] => o = u
    <3> HIDE DEF A, At, h, S, n
    <3>1. \A o \in A : h[o] \in B
      BY <2>5, <2>6 DEF Left
    <3>2. \A o, u \in A : h[o] = h[u] => o[1] = u[1]
      BY <2>5, <2>6
    <3>3. \A o, u \in A : h[o] = h[u] => o = u
      BY <2>3, <3>2
    <3> QED BY <3>1, <3>3 DEF h
  <2>8. h \in Injection(A, B)
    <3> HIDE DEF A, B, h
    <3> QED BY <2>7 DEF Injection, IsInjective
  <2>9. IsFiniteSet(B) /\ Cardinality(B) \in Nat
    BY <1>5, LeftFinite
  <2>10. /\ IsFiniteSet(O) /\ Cardinality(O) \in Nat /\ Cardinality(U) \in Nat
         /\ O \cap U = U
    BY <2>2, OccurrencesFinite DEF Unreported
  <2> HIDE DEF A, B, O, U, h
  <2>11. Cardinality(A) <= Cardinality(B)
    BY <2>8, <2>9, FS_Injection
  <2>12. Cardinality(A) = Cardinality(O) - Cardinality(U)
    BY <2>10, FS_Difference DEF A
  <2>13. Cardinality(O) <= Cardinality(U) + Cardinality(B)
    BY <2>9, <2>10, <2>11, <2>12
  <2> QED BY <1>6, <2>13 DEF O, U, B
<1> QED BY <1>5, <1>6 DEF Covered

\* What Start loads is a list of findings; that of a walk covers the tree.
LEMMA StartLoads ==
  ASSUME TypeOK, NEW s \in Sessions, Start(s)
  PROVE  \E m \in Modes, found \in Seq(Finding) :
           /\ mode' = [mode EXCEPT ![s] = m]
           /\ findings' = [findings EXCEPT ![s] = found]
           /\ ~m.report /\ tree = origin => Covered(found)
           /\ IF found = <<>> THEN End(s, 0)
              ELSE pc' = [pc EXCEPT ![s] = "loop"] /\ UNCHANGED status
<1>1. PICK m \in Modes :
        /\ mode' = [mode EXCEPT ![s] = m]
        /\ \E found \in IF m.report
                         THEN {ReportFindings(r) : r \in {q \in Reports : ReportValid(q)}}
                         ELSE TreeWalk :
             /\ findings' = [findings EXCEPT ![s] = found]
             /\ IF found = <<>> THEN End(s, 0)
                ELSE pc' = [pc EXCEPT ![s] = "loop"] /\ UNCHANGED status
  BY Zenon DEF Start
<1>2. CASE m.report
  <2>1. PICK r \in Reports :
          /\ ReportValid(r)
          /\ findings' = [findings EXCEPT ![s] = ReportFindings(r)]
          /\ IF ReportFindings(r) = <<>> THEN End(s, 0)
             ELSE pc' = [pc EXCEPT ![s] = "loop"] /\ UNCHANGED status
    BY <1>1, <1>2
  <2>2. ReportFindings(r) \in Seq(Finding)
    <3>1. r \in Seq(Position)
      BY ReportsAssumption
    <3>2. \A i \in DOMAIN r :
            [at |-> r[i], secret |-> Detected(tree[r[i].file].lines[r[i].line])] \in Finding
      <4> SUFFICES ASSUME NEW i \in DOMAIN r
                   PROVE  [at |-> r[i], secret |-> Detected(tree[r[i].file].lines[r[i].line])]
                            \in Finding
        OBVIOUS
      <4>1. r[i] \in Position
        BY <3>1
      <4>2. tree[r[i].file] \in File
        BY <4>1 DEF TypeOK, Tree, Position
      <4>3. tree[r[i].file].lines[r[i].line] \in Line
        BY <2>1, <4>2, FileLines DEF ReportValid
      <4>4. Detected(tree[r[i].file].lines[r[i].line]) \in Secrets \cup {""}
        BY <4>3, LineTyped
      <4> QED BY <4>1, <4>4 DEF Finding
    <3> QED BY <3>1, <3>2 DEF ReportFindings
  <2> QED BY <1>1, <1>2, <2>1, <2>2
<1>3. CASE ~m.report
  <2>1. PICK q \in TreeWalk :
          /\ findings' = [findings EXCEPT ![s] = q]
          /\ IF q = <<>> THEN End(s, 0)
             ELSE pc' = [pc EXCEPT ![s] = "loop"] /\ UNCHANGED status
    BY <1>1, <1>3
  <2> QED BY <1>1, <1>3, <2>1, WalkCovers
<1> QED BY <1>2, <1>3

-----------------------------------------------------------------------------

ToWrite == [file : File, manifest : Manifest]

LEMMA EmptyTyped == Empty \in ToWrite
<1>1. <<>> \in Seq(Line) /\ NoImports \in Imports
  BY DEF NoImports, Imports
<1>2. NoFile \in File
  BY <1>1 DEF File, NoFile
<1>3. [state |-> "absent", records |-> {}] \in Manifest
  BY DEF Manifest
<1> QED BY <1>2, <1>3 DEF Empty, ToWrite

LEMMA ToWriteTyped ==
  ASSUME NEW w \in [Sessions -> ToWrite], NEW s \in Sessions
  PROVE  /\ \A x \in File : /\ [w EXCEPT ![s].file = x] \in [Sessions -> ToWrite]
                           /\ [w EXCEPT ![s].file = x][s].file = x
         /\ \A x \in Manifest : /\ [w EXCEPT ![s].manifest = x] \in [Sessions -> ToWrite]
                               /\ [w EXCEPT ![s].manifest = x][s].manifest = x
                               /\ [w EXCEPT ![s].manifest = x][s].file = w[s].file
  BY DEF ToWrite

\* The finding at hand is about a file of the tree, and there are fewer after it.
LEMMA HeadTyped ==
  ASSUME TypeOK, NEW s \in Sessions, findings[s] # <<>>
  PROVE  LET x == Head(findings[s])
         IN  /\ x.at \in Position /\ x.at.file \in ToSet(Files)
             /\ tree[x.at.file] \in File
             /\ Tail(findings[s]) \in Seq(Finding)
<1>1. findings[s] \in Seq(Finding)
  BY DEF TypeOK
<1>2. Head(findings[s]) \in Finding /\ Tail(findings[s]) \in Seq(Finding)
  <2> HIDE DEF Finding
  <2> QED BY <1>1
<1>3. Head(findings[s]).at \in Position
  BY <1>2 DEF Finding
<1>4. Head(findings[s]).at.file \in ToSet(Files)
  BY <1>3 DEF Position
<1> QED BY <1>2, <1>3, <1>4 DEF TypeOK, Tree

\* A session that acts is not idle any more, and leaves the others where they are.
LEMMA ActsOnItself ==
  ASSUME TypeOK, NEW s \in Sessions, Session(s)
  PROVE  /\ pc'[s] # "idle"
         /\ \A t \in Sessions \ {s} :
              /\ pc'[t] = pc[t] /\ mode'[t] = mode[t] /\ findings'[t] = findings[t]
              /\ toWrite'[t] = toWrite[t] /\ failed'[t] = failed[t] /\ status'[t] = status[t]
<1> USE DEF TypeOK
<1>1. CASE Start(s)
  BY <1>1, StartLoads DEF End, Start
<1>2. CASE StartFails(s)
  BY <1>2 DEF StartFails, End
<1>3. CASE ReadFile(s)
  BY <1>3 DEF ReadFile, NextFinding
<1>4. CASE FixFails(s) \/ WriteFile(s) \/ WriteManifest(s) \/ WriteFails(s) \/ Skip(s)
  BY <1>4 DEF FixFails, WriteFile, WriteManifest, WriteFails, Skip, NextFinding
<1>5. CASE ReadManifest(s)
  BY <1>5 DEF ReadManifest
<1>6. CASE Quit(s) \/ Finish(s)
  BY <1>6 DEF Quit, Finish, End
<1>7. CASE Kill(s)
  BY <1>7 DEF Kill
<1> QED BY <1>1, <1>2, <1>3, <1>4, <1>5, <1>6, <1>7 DEF Session

LEMMA NextFindingTyped ==
  ASSUME TypeOK, NEW s \in Sessions, findings[s] # <<>>, NextFinding(s)
  PROVE  /\ pc' \in [Sessions -> {"idle", "loop", "file", "manifest", "ended"}]
         /\ findings' \in [Sessions -> Seq(Finding)]
<1>1. Tail(findings[s]) \in Seq(Finding)
  BY HeadTyped
<1> HIDE DEF Finding
<1> QED BY <1>1 DEF TypeOK, NextFinding

LEMMA Typing ==
  ASSUME TypeOK, Pending, [Next]_vars
  PROVE  TypeOK'
<1> USE DEF TypeOK
<1> HIDE DEF Tree, File, Manifest, Finding
<1>0. toWrite \in [Sessions -> ToWrite]
  BY DEF ToWrite
<1>1. CASE UNCHANGED vars
  BY <1>1 DEF vars, diskVars, sessionVars
<1>2. ASSUME NEW s \in Sessions, Session(s) PROVE TypeOK'
  <2>1. CASE Start(s)
    <3>1. PICK m \in Modes, found \in Seq(Finding) :
           /\ mode' = [mode EXCEPT ![s] = m]
           /\ findings' = [findings EXCEPT ![s] = found]
           /\ IF found = <<>> THEN End(s, 0)
              ELSE pc' = [pc EXCEPT ![s] = "loop"] /\ UNCHANGED status
      BY <2>1, StartLoads
    <3>2. UNCHANGED <<origin, tree, manifest, toWrite, failed>>
      BY <2>1 DEF Start, diskVars
    <3>3. /\ pc' \in [Sessions -> {"idle", "loop", "file", "manifest", "ended"}]
          /\ status' \in [Sessions -> -1 .. 1]
      <4>1. CASE found = <<>>
        <5>1. End(s, 0)
          BY <3>1, <4>1
        <5>2. pc' = [pc EXCEPT ![s] = "ended"] /\ status' = [status EXCEPT ![s] = 0]
          BY <5>1 DEF End
        <5> QED BY <5>2
      <4>2. CASE found # <<>>
        BY <3>1, <4>2
      <4> QED BY <4>1, <4>2
    <3>4. mode' \in [Sessions -> Modes \cup {NoMode}] /\ findings' \in [Sessions -> Seq(Finding)]
      BY <3>1
    <3> QED BY <3>2, <3>3, <3>4
  <2>2. CASE StartFails(s)
    BY <2>2 DEF StartFails, End, diskVars
  <2>3. CASE ReadFile(s)
    <3> DEFINE f == Head(findings[s]).at.file
               new == ApplyFixToContent(tree[f], Head(findings[s]).secret)
    <3>1. findings[s] # <<>>
      BY <2>3 DEF ReadFile, InLoop
    <3>2. new \in File /\ Tail(findings[s]) \in Seq(Finding)
      BY <3>1, HeadTyped, FixTyped
    <3> HIDE DEF new
    <3>3. [toWrite EXCEPT ![s].file = new] \in [Sessions -> ToWrite]
      BY <1>0, <3>2, ToWriteTyped
    <3>4. toWrite' \in [Sessions -> ToWrite]
      BY <1>0, <2>3, <3>3 DEF ReadFile, new
    <3>5. /\ pc' \in [Sessions -> {"idle", "loop", "file", "manifest", "ended"}]
          /\ findings' \in [Sessions -> Seq(Finding)]
      <4>1. CASE mode[s].dryRun
        BY <2>3, <3>1, <4>1, NextFindingTyped DEF ReadFile
      <4>2. CASE ~mode[s].dryRun
        BY <2>3, <4>2 DEF ReadFile
      <4> QED BY <4>1, <4>2
    <3>6. UNCHANGED <<origin, tree, manifest, mode, failed, status>>
      BY <2>3 DEF ReadFile, diskVars
    <3> QED BY <3>4, <3>5, <3>6 DEF ToWrite
  <2>4. CASE FixFails(s) \/ Skip(s)
    <3>1. findings[s] # <<>> /\ NextFinding(s)
      BY <2>4 DEF FixFails, Skip, InLoop
    <3>2. failed' \in [Sessions -> Nat]
      <4>1. failed' = failed \/ failed' = [failed EXCEPT ![s] = @ + 1]
        BY <2>4 DEF FixFails, Skip
      <4> QED BY <4>1
    <3>3. UNCHANGED <<origin, tree, manifest, mode, toWrite, status>>
      BY <2>4 DEF FixFails, Skip, diskVars
    <3> QED BY <3>1, <3>2, <3>3, NextFindingTyped
  <2>5. CASE WriteFile(s) \/ WriteManifest(s) \/ WriteFails(s)
    <3>1. findings[s] # <<>> /\ NextFinding(s)
      BY <2>5 DEF WriteFile, WriteManifest, WriteFails, Pending
    <3>2. toWrite' = [toWrite EXCEPT ![s] = Empty]
      BY <2>5 DEF WriteFile, WriteManifest, WriteFails
    <3>3. toWrite' \in [Sessions -> ToWrite]
      BY <1>0, <3>2, EmptyTyped
    <3>4. tree' \in Tree
      <4>1. CASE WriteFile(s)
        <5> DEFINE f == Head(findings[s]).at.file
        <5>1. f \in ToSet(Files)
          BY <3>1, HeadTyped
        <5>2. toWrite[s].file \in File
          BY <1>0 DEF ToWrite
        <5>3. tree' = [tree EXCEPT ![f] = toWrite[s].file]
          BY <4>1 DEF WriteFile
        <5> HIDE DEF f
        <5> QED BY <5>1, <5>2, <5>3 DEF Tree
      <4>2. CASE WriteManifest(s) \/ WriteFails(s)
        BY <4>2 DEF WriteManifest, WriteFails, diskVars
      <4> QED BY <2>5, <4>1, <4>2
    <3>5. manifest' \in Manifest
      <4>1. toWrite[s].manifest \in Manifest
        BY <1>0 DEF ToWrite
      <4> QED BY <2>5, <4>1 DEF WriteFile, WriteManifest, WriteFails, diskVars
    <3>6. failed' \in [Sessions -> Nat]
      BY <2>5 DEF WriteFile, WriteManifest, WriteFails
    <3>7. UNCHANGED <<origin, mode, status>>
      BY <2>5 DEF WriteFile, WriteManifest, WriteFails, diskVars
    <3> QED BY <3>1, <3>3, <3>4, <3>5, <3>6, <3>7, NextFindingTyped DEF ToWrite
  <2>6. CASE ReadManifest(s)
    <3> DEFINE new == [state |-> "valid", records |-> manifest.records \cup {Head(findings[s]).at}]
    <3>1. findings[s] # <<>>
      BY <2>6 DEF ReadManifest, InLoop
    <3>2. new \in Manifest
      BY <3>1, HeadTyped DEF Manifest
    <3>3. toWrite' = [toWrite EXCEPT ![s].manifest = new]
      BY <2>6 DEF ReadManifest
    <3> HIDE DEF new
    <3>4. toWrite' \in [Sessions -> ToWrite]
      BY <1>0, <3>2, <3>3, ToWriteTyped
    <3> QED BY <2>6, <3>4 DEF ReadManifest, diskVars, ToWrite
  <2>7. CASE Quit(s) \/ Finish(s)
    <3>1. \E code \in {0, 1} : End(s, code)
      BY <2>7 DEF Quit, Finish
    <3>2. UNCHANGED <<origin, tree, manifest, mode, findings, toWrite, failed>>
      BY <2>7 DEF Quit, Finish, diskVars
    <3> QED BY <3>1, <3>2 DEF End
  <2>8. CASE Kill(s)
    <3>1. toWrite' \in [Sessions -> ToWrite]
      BY <1>0, <2>8, EmptyTyped DEF Kill
    <3> QED BY <2>8, <3>1 DEF Kill, diskVars, ToWrite
  <2> QED BY <1>2, <2>1, <2>2, <2>3, <2>4, <2>5, <2>6, <2>7, <2>8 DEF Session
<1> QED BY <1>1, <1>2 DEF Next

LEMMA PendingStays ==
  ASSUME TypeOK, Pending, [Next]_vars
  PROVE  Pending'
<1>1. CASE UNCHANGED vars
  BY <1>1 DEF vars, sessionVars, Pending
<1>2. ASSUME NEW s \in Sessions, Session(s) PROVE Pending'
  <2> SUFFICES ASSUME NEW t \in Sessions
               PROVE  /\ pc'[t] = "idle" => failed'[t] = 0
                      /\ pc'[t] # "ended" => status'[t] = -1
                      /\ pc'[t] \in {"file", "manifest"} => findings'[t] # <<>>
    BY DEF Pending
  <2>1. CASE t # s
    BY <1>2, <2>1, ActsOnItself DEF Pending
  <2>2. CASE t = s
    <3> USE DEF TypeOK, Pending
    <3>1. pc'[s] # "idle"
      BY <1>2, ActsOnItself
    <3>2. CASE Start(s)
      <4>1. PICK found \in Seq(Finding) :
              IF found = <<>> THEN End(s, 0)
              ELSE pc' = [pc EXCEPT ![s] = "loop"] /\ UNCHANGED status
        BY <3>2, StartLoads
      <4>2. pc[s] = "idle"
        BY <3>2 DEF Start
      <4>3. pc'[s] = "ended" \/ (pc'[s] = "loop" /\ UNCHANGED status)
        <5>1. CASE found = <<>>
          BY <4>1, <5>1 DEF End
        <5>2. CASE found # <<>>
          BY <4>1, <5>2
        <5> QED BY <5>1, <5>2
      <4> QED BY <2>2, <4>2, <4>3
    <3>3. CASE StartFails(s) \/ Quit(s) \/ Finish(s) \/ Kill(s)
      BY <2>2, <3>3 DEF StartFails, Quit, Finish, Kill, End
    <3>4. CASE ReadFile(s)
      <4>1. pc[s] = "loop" /\ findings[s] # <<>> /\ UNCHANGED status
        BY <3>4 DEF ReadFile, InLoop
      <4>2. pc'[s] = "loop" \/ (pc'[s] = "file" /\ UNCHANGED findings)
        BY <3>4 DEF ReadFile, NextFinding
      <4> QED BY <2>2, <4>1, <4>2
    <3>5. CASE ReadManifest(s)
      <4>1. pc[s] = "loop" /\ findings[s] # <<>> /\ UNCHANGED <<status, findings>>
        BY <3>5 DEF ReadManifest, InLoop
      <4> QED BY <2>2, <3>1, <4>1
    <3>6. CASE FixFails(s) \/ WriteFile(s) \/ WriteManifest(s) \/ WriteFails(s) \/ Skip(s)
      <4>1. pc[s] # "ended" /\ pc'[s] = "loop" /\ UNCHANGED status
        BY <3>6 DEF FixFails, WriteFile, WriteManifest, WriteFails, Skip, InLoop, NextFinding
      <4> QED BY <2>2, <4>1
    <3> QED BY <1>2, <3>2, <3>3, <3>4, <3>5, <3>6 DEF Session
  <2> QED BY <2>1, <2>2
<1> QED BY <1>1, <1>2 DEF Next

LEMMA OriginStays ==
  ASSUME [Next]_vars
  PROVE  origin' = origin
BY DEF Next, Session, Start, StartFails, ReadFile, FixFails, WriteFile, ReadManifest, WriteManifest,
   WriteFails, Skip, Quit, Finish, Kill, diskVars, vars

LEMMA FilesStayResolved ==
  ASSUME TypeOK, Pending, FilesResolve, [Next]_vars
  PROVE  FilesResolve'
<1> USE DEF FilesResolve
<1>0. toWrite \in [Sessions -> ToWrite] /\ origin' = origin
  BY OriginStays DEF ToWrite, TypeOK
<1>1. CASE UNCHANGED vars
  BY <1>1 DEF vars, diskVars, sessionVars
<1>2. ASSUME NEW s \in Sessions, Session(s) PROVE FilesResolve'
  <2> DEFINE at == Head(findings[s]).at.file
  <2>1. ASSUME NEW f \in ToSet(Files) PROVE Misleads(origin[f]) \/ Sound(tree'[f])
    <3>1. CASE WriteFile(s)
      <4>1. pc[s] = "file" /\ tree' = [tree EXCEPT ![at] = toWrite[s].file]
        BY <3>1 DEF WriteFile
      <4>2. tree'[f] = tree[f] \/ (f = at /\ tree'[f] = toWrite[s].file)
        BY <2>1, <4>1 DEF TypeOK, Tree
      <4> QED BY <2>1, <4>1, <4>2
    <3>2. CASE ~WriteFile(s)
      <4>1. tree' = tree
        BY <1>2, <3>2 DEF Session, Start, StartFails, ReadFile, FixFails, ReadManifest,
           WriteManifest, WriteFails, Skip, Quit, Finish, Kill, diskVars
      <4> QED BY <2>1, <4>1
    <3> QED BY <3>1, <3>2
  <2>2. ASSUME NEW t \in Sessions, pc'[t] = "file"
        PROVE  Misleads(origin[Head(findings'[t]).at.file]) \/ Sound(toWrite'[t].file)
    <3>1. CASE t # s
      BY <1>2, <2>2, <3>1, ActsOnItself
    <3>2. CASE t = s
      <4>1. ReadFile(s) /\ ~mode[s].dryRun
        <5>1. ~(Start(s) \/ StartFails(s) \/ Quit(s) \/ Finish(s) \/ Kill(s))
          <6>1. Start(s) => pc'[s] \in {"loop", "ended"}
            BY StartLoads DEF TypeOK, End
          <6> QED BY <2>2, <3>2, <6>1 DEF StartFails, Quit, Finish, Kill, End, TypeOK
        <5>2. ~(FixFails(s) \/ WriteFile(s) \/ ReadManifest(s) \/ WriteManifest(s) \/ WriteFails(s)
                  \/ Skip(s))
          BY <2>2, <3>2 DEF FixFails, WriteFile, ReadManifest, WriteManifest, WriteFails, Skip,
             NextFinding, TypeOK
        <5>3. ReadFile(s)
          BY <1>2, <5>1, <5>2 DEF Session
        <5>4. mode[s].dryRun => pc'[s] = "loop"
          BY <5>3 DEF ReadFile, NextFinding, TypeOK
        <5> QED BY <2>2, <3>2, <5>3, <5>4
      <4> DEFINE new == ApplyFixToContent(tree[at], Head(findings[s]).secret)
      <4>2. findings[s] # <<>> /\ findings' = findings
        BY <4>1 DEF ReadFile, InLoop
      <4>3. new \in File /\ (Sound(tree[at]) => Sound(new)) /\ at \in ToSet(Files)
        BY <4>2, HeadTyped, FixTyped
      <4>4. toWrite' = [toWrite EXCEPT ![s].file = new]
        BY <4>1 DEF ReadFile
      <4> HIDE DEF new
      <4>5. toWrite'[s].file = new
        BY <1>0, <4>3, <4>4, ToWriteTyped
      <4> QED BY <3>2, <4>2, <4>3, <4>5
    <3> QED BY <3>1, <3>2
  <2> QED BY <1>0, <2>1, <2>2
<1> QED BY <1>1, <1>2 DEF Next

LEMMA StartedGrows ==
  ASSUME TypeOK, NEW s \in Sessions, Session(s)
  PROVE  Started' = Started \cup {s}
BY ActsOnItself DEF Started

LEMMA ManifestStays ==
  ASSUME TypeOK, ManifestInv, [Next]_vars
  PROVE  ManifestInv'
<1>0. toWrite \in [Sessions -> ToWrite]
  BY DEF ToWrite, TypeOK
<1>1. CASE UNCHANGED vars
  BY <1>1 DEF vars, diskVars, sessionVars, ManifestInv, Alone, Started
<1>2. ASSUME NEW s \in Sessions, Session(s) PROVE ManifestInv'
  <2> SUFFICES ASSUME NEW t \in Sessions, pc'[t] = "manifest"
               PROVE  /\ manifest'.state # "invalid" /\ toWrite'[t].manifest.state = "valid"
                      /\ Alone' => manifest'.records \subseteq toWrite'[t].manifest.records
    BY DEF ManifestInv
  <2>1. CASE t # s
    <3>1. pc[t] = "manifest" /\ toWrite'[t] = toWrite[t] /\ ~Alone'
      BY <1>2, <2>1, ActsOnItself, StartedGrows DEF Alone, Started
    <3>2. manifest' = manifest \/ WriteManifest(s)
      BY <1>2 DEF Session, Start, StartFails, ReadFile, FixFails, WriteFile, ReadManifest,
         WriteFails, Skip, Quit, Finish, Kill, diskVars
    <3>3. WriteManifest(s) => manifest'.state = "valid"
      BY DEF WriteManifest, ManifestInv
    <3> QED BY <3>1, <3>2, <3>3 DEF ManifestInv
  <2>2. CASE t = s
    <3>1. ReadManifest(s)
      <4>1. ~(Start(s) \/ StartFails(s) \/ Quit(s) \/ Finish(s) \/ Kill(s))
        <5>1. Start(s) => pc'[s] \in {"loop", "ended"}
          BY StartLoads DEF TypeOK, End
        <5> QED BY <2>2, <5>1 DEF StartFails, Quit, Finish, Kill, End, TypeOK
      <4>2. ~(ReadFile(s) \/ FixFails(s) \/ WriteFile(s) \/ WriteManifest(s) \/ WriteFails(s)
                \/ Skip(s))
        BY <2>2 DEF ReadFile, FixFails, WriteFile, WriteManifest, WriteFails, Skip, NextFinding,
           TypeOK
      <4> QED BY <1>2, <4>1, <4>2 DEF Session
    <3>2. findings[s] # <<>> /\ manifest' = manifest /\ manifest.state # "invalid"
      BY <3>1 DEF ReadManifest, InLoop, diskVars
    <3> DEFINE new == [state |-> "valid",
                       records |-> manifest.records \cup {Head(findings[s]).at}]
    <3>3. new \in Manifest /\ new.state = "valid" /\ manifest.records \subseteq new.records
      BY <3>2, HeadTyped DEF Manifest, TypeOK
    <3>4. toWrite' = [toWrite EXCEPT ![s].manifest = new]
      BY <3>1 DEF ReadManifest
    <3> HIDE DEF new
    <3>5. toWrite'[s].manifest = new
      BY <1>0, <3>3, <3>4, ToWriteTyped
    <3> QED BY <2>2, <3>2, <3>3, <3>5
  <2> QED BY <2>1, <2>2
<1> QED BY <1>1, <1>2 DEF Next

\* With nothing ahead, no more is left than was not reported.
LEMMA NothingAhead ==
  ASSUME TypeOK, Covered(<<>>)
  PROVE  AllFixed
<1> SUFFICES ASSUME NEW f \in ToSet(Files), NEW v \in Secrets
             PROVE  Cardinality(Occurrences(tree[f], v)) <= Cardinality(Unreported(origin[f], v))
  BY DEF AllFixed
<1>1. Cardinality(Occurrences(tree[f], v)) <=
        Cardinality(Unreported(origin[f], v)) + Cardinality(Left(<<>>, f, v))
  BY DEF Covered
<1>2. Left(<<>>, f, v) = {}
  BY DEF Left
<1>3. Cardinality(Left(<<>>, f, v)) = 0
  BY <1>2, FS_EmptySet
<1>4. tree[f] \in File /\ origin[f] \in File
  BY DEF TypeOK, Tree
<1>5. Cardinality(Occurrences(tree[f], v)) \in Nat /\ Cardinality(Unreported(origin[f], v)) \in Nat
  BY <1>4, OccurrencesFinite
<1> QED BY <1>1, <1>3, <1>5

\* Writing the fix of the finding at hand keeps what is ahead enough.
LEMMA FixKeepsCovered ==
  ASSUME TypeOK, NEW s \in Sessions, findings[s] # <<>>, Covered(findings[s]),
         NEW new, new = ApplyFixToContent(tree[Head(findings[s]).at.file], Head(findings[s]).secret),
         new # tree[Head(findings[s]).at.file],
         NEW f \in ToSet(Files), NEW v \in Secrets
  PROVE  LET t == [tree EXCEPT ![Head(findings[s]).at.file] = new]
         IN  Cardinality(Occurrences(t[f], v)) <=
               Cardinality(Unreported(origin[f], v)) + Cardinality(Left(Tail(findings[s]), f, v))
<1> DEFINE q == findings[s]
           x == Head(q)
           t == [tree EXCEPT ![x.at.file] = new]
<1>1. q \in Seq(Finding) /\ q # <<>>
  BY DEF TypeOK
<1>2. x.at.file \in ToSet(Files) /\ tree[x.at.file] \in File /\ tree[f] \in File
      /\ origin[f] \in File
  BY HeadTyped DEF TypeOK, Tree
<1>3. t[f] = IF f = x.at.file THEN new ELSE tree[f]
  BY <1>2 DEF TypeOK, Tree
<1>4. Cardinality(Occurrences(tree[f], v)) <=
        Cardinality(Unreported(origin[f], v)) + Cardinality(Left(q, f, v))
  BY DEF Covered
<1>5. Cardinality(Left(Tail(q), f, v)) =
        IF x.at.file = f /\ x.secret = v THEN Cardinality(Left(q, f, v)) - 1
        ELSE Cardinality(Left(q, f, v))
  BY <1>1, TailCounts
<1>6. /\ Cardinality(Occurrences(tree[f], v)) \in Nat /\ Cardinality(Left(q, f, v)) \in Nat
      /\ Cardinality(Unreported(origin[f], v)) \in Nat
  BY <1>1, <1>2, OccurrencesFinite, LeftFinite
<1>7. CASE f = x.at.file
  <2>1. Cardinality(Occurrences(new, v)) =
          IF v = x.secret THEN Cardinality(Occurrences(tree[f], v)) - 1
          ELSE Cardinality(Occurrences(tree[f], v))
    BY <1>2, <1>7, FixCounts
  <2> HIDE DEF q, x, t
  <2> QED BY <1>3, <1>4, <1>5, <1>6, <1>7, <2>1 DEF t, x, q
<1>8. CASE f # x.at.file
  BY <1>3, <1>4, <1>5, <1>8
<1> QED BY <1>7, <1>8

LEMMA AloneStays ==
  ASSUME TypeOK, Pending, AloneInv, [Next]_vars
  PROVE  AloneInv'
<1>0. toWrite \in [Sessions -> ToWrite] /\ origin' = origin
  BY OriginStays DEF ToWrite, TypeOK
<1>1. CASE UNCHANGED vars
  BY <1>1 DEF vars, diskVars, sessionVars, AloneInv, Started, Covered, AllFixed
<1>2. ASSUME NEW s \in Sessions, Session(s) PROVE AloneInv'
  <2> SUFFICES ASSUME Started' = {s}, mode'[s] = WholeTree
               PROVE  /\ pc'[s] # "manifest"
                      /\ pc'[s] \in {"loop", "file"} /\ failed'[s] = 0 => Covered(findings[s])'
                      /\ pc'[s] = "file" =>
                           LET x == Head(findings'[s])
                           IN  /\ toWrite'[s].file = ApplyFixToContent(tree'[x.at.file], x.secret)
                               /\ toWrite'[s].file # tree'[x.at.file]
                      /\ status'[s] = 0 => AllFixed'
    <3>1. Started' # {} /\ \A t \in Sessions : Started' = {t} => t = s
      BY <1>2, StartedGrows
    <3> QED BY <3>1 DEF AloneInv
  <2>1. tree' = tree => (Covered(findings[s])' <=> Covered(findings'[s])) /\ (AllFixed' <=> AllFixed)
    BY <1>0 DEF Covered, AllFixed
  <2>2. CASE Start(s)
    <3>1. PICK m \in Modes, found \in Seq(Finding) :
           /\ mode' = [mode EXCEPT ![s] = m]
           /\ findings' = [findings EXCEPT ![s] = found]
           /\ ~m.report /\ tree = origin => Covered(found)
           /\ IF found = <<>> THEN End(s, 0)
              ELSE pc' = [pc EXCEPT ![s] = "loop"] /\ UNCHANGED status
      BY <2>2, StartLoads
    <3>2. ~m.report /\ tree = origin
      <4>1. Started = {}
        BY <1>2, <2>2, StartedGrows DEF Start, Started
      <4> QED BY <3>1, <4>1 DEF WholeTree, TypeOK, AloneInv
    <3>3. findings'[s] = found /\ tree' = tree /\ status[s] = -1
      BY <2>2, <3>1 DEF Start, diskVars, TypeOK, Pending
    <3>4. CASE found = <<>>
      <4>1. pc'[s] = "ended"
        BY <3>1, <3>4 DEF End, TypeOK
      <4>2. AllFixed
        BY <3>1, <3>2, <3>4, NothingAhead
      <4> QED BY <2>1, <3>3, <4>1, <4>2
    <3>5. CASE found # <<>>
      <4>1. pc'[s] = "loop" /\ status'[s] = -1
        BY <3>1, <3>3, <3>5 DEF TypeOK
      <4> QED BY <2>1, <3>1, <3>2, <3>3, <4>1
    <3> QED BY <3>4, <3>5
  <2>3. CASE StartFails(s)
    BY <2>3 DEF StartFails, End, TypeOK
  <2>4. CASE pc[s] # "idle" /\ mode' = mode
    <3>1. Started = {s} /\ mode[s] = WholeTree
      BY <1>2, <2>4, StartedGrows DEF Started
    <3>2. mode[s].auto /\ ~mode[s].dryRun
      BY <3>1 DEF WholeTree
    <3>3. /\ pc[s] # "manifest"
          /\ pc[s] \in {"loop", "file"} /\ failed[s] = 0 => Covered(findings[s])
          /\ pc[s] = "file" =>
               LET x == Head(findings[s])
               IN  /\ toWrite[s].file = ApplyFixToContent(tree[x.at.file], x.secret)
                   /\ toWrite[s].file # tree[x.at.file]
          /\ status[s] = 0 => AllFixed
      BY <3>1 DEF AloneInv
    <3>4. pc[s] # "ended" => status[s] = -1
      BY DEF Pending
    <3>5. CASE ReadFile(s)
      <4> DEFINE x   == Head(findings[s])
                 new == ApplyFixToContent(tree[x.at.file], x.secret)
      <4>1. /\ pc[s] = "loop" /\ findings[s] # <<>> /\ new # tree[x.at.file]
            /\ pc' = [pc EXCEPT ![s] = "file"] /\ toWrite' = [toWrite EXCEPT ![s].file = new]
            /\ UNCHANGED <<tree, findings, failed, status>>
        BY <3>2, <3>5 DEF ReadFile, InLoop, diskVars
      <4>2. new \in File
        BY <4>1, HeadTyped, FixTyped
      <4>3. toWrite'[s].file = new
        <5> HIDE DEF new
        <5> QED BY <1>0, <4>1, <4>2, ToWriteTyped
      <4>4. pc'[s] = "file"
        BY <4>1 DEF TypeOK
      <4> HIDE DEF new
      <4>5. toWrite'[s].file = new /\ new # tree'[Head(findings'[s]).at.file]
        BY <4>1, <4>3
      <4> QED BY <2>1, <3>3, <3>4, <4>1, <4>4, <4>5 DEF new
    <3>6. CASE WriteFile(s)
      <4> DEFINE x   == Head(findings[s])
                 new == toWrite[s].file
      <4>1. /\ pc[s] = "file" /\ findings[s] # <<>>
            /\ new = ApplyFixToContent(tree[x.at.file], x.secret) /\ new # tree[x.at.file]
        BY <3>3, <3>6 DEF WriteFile, Pending
      <4>2. /\ tree' = [tree EXCEPT ![x.at.file] = new]
            /\ pc'[s] = "loop" /\ findings'[s] = Tail(findings[s])
            /\ UNCHANGED <<failed, status>>
        BY <3>6 DEF WriteFile, NextFinding, TypeOK
      <4>3. ASSUME Covered(findings[s]) PROVE Covered(findings[s])'
        <5>1. \A f \in ToSet(Files), v \in Secrets :
                Cardinality(Occurrences(tree'[f], v)) <=
                  Cardinality(Unreported(origin[f], v)) + Cardinality(Left(Tail(findings[s]), f, v))
          BY <4>1, <4>2, <4>3, FixKeepsCovered
        <5> QED BY <1>0, <4>2, <5>1 DEF Covered
      <4> QED BY <3>3, <3>4, <4>1, <4>2, <4>3
    <3>7. CASE FixFails(s) \/ WriteFails(s)
      <4>1. pc[s] # "ended" /\ pc'[s] = "loop" /\ failed'[s] = failed[s] + 1 /\ UNCHANGED status
        BY <3>7 DEF FixFails, WriteFails, InLoop, NextFinding, TypeOK
      <4>2. failed[s] \in Nat
        BY DEF TypeOK
      <4> QED BY <3>4, <4>1, <4>2
    <3>8. CASE Finish(s)
      <4>1. /\ pc[s] = "loop" /\ findings[s] = <<>> /\ tree' = tree /\ pc'[s] = "ended"
            /\ status'[s] = IF failed[s] > 0 THEN 1 ELSE 0
        BY <3>8 DEF Finish, End, diskVars, TypeOK
      <4>2. status'[s] = 0 => failed[s] = 0
        BY <4>1 DEF TypeOK
      <4>3. status'[s] = 0 => AllFixed
        BY <3>3, <4>1, <4>2, NothingAhead
      <4> QED BY <2>1, <4>1, <4>3
    <3>9. CASE Kill(s)
      BY <3>4, <3>9 DEF Kill, TypeOK
    <3>10. ~(StartFails(s) \/ Start(s) \/ ReadManifest(s) \/ WriteManifest(s) \/ Skip(s) \/ Quit(s))
      BY <2>4, <3>2, <3>3 DEF StartFails, Start, ReadManifest, WriteManifest, Skip, Quit
    <3> QED BY <1>2, <3>5, <3>6, <3>7, <3>8, <3>9, <3>10 DEF Session
  <2> QED
    <3>1. Start(s) \/ StartFails(s) \/ (pc[s] # "idle" /\ mode' = mode)
      BY <1>2 DEF Session, ReadFile, FixFails, WriteFile, ReadManifest, WriteManifest, WriteFails,
         Skip, Quit, Finish, Kill, InLoop
    <3> QED BY <2>2, <2>3, <2>4, <3>1
<1> QED BY <1>1, <1>2 DEF Next

-----------------------------------------------------------------------------

LEMMA Initially == Init => IInv
<1> SUFFICES ASSUME Init PROVE IInv
  OBVIOUS
<1>1. TypeOK
  <2>1. Trees \subseteq Tree
    BY FixAssumption DEF FixAssumption
  <2>2. manifest \in Manifest
    BY DEF Init, Manifest
  <2>3. toWrite \in [Sessions -> ToWrite]
    BY EmptyTyped DEF Init
  <2>4. origin \in Tree /\ tree \in Tree
    BY <2>1 DEF Init
  <2> HIDE DEF Tree, Manifest, File
  <2> QED BY <2>2, <2>3, <2>4 DEF Init, TypeOK, ToWrite
<1>2. Pending /\ ManifestInv
  BY DEF Init, Pending, ManifestInv
<1>3. FilesResolve
  BY FixAssumption DEF Init, FixAssumption, FilesResolve, Sound
<1>4. AloneInv
  <2>1. Started = {}
    BY DEF Init, Started
  <2> QED BY <2>1 DEF Init, AloneInv
<1> QED BY <1>1, <1>2, <1>3, <1>4 DEF IInv

LEMMA Invariance == Spec => []IInv
<1>1. IInv /\ [Next]_vars => IInv'
  BY Typing, PendingStays, AloneStays, FilesStayResolved, ManifestStays DEF IInv
<1> QED BY <1>1, Initially, PTL DEF Spec

-----------------------------------------------------------------------------

(***************************************************************************)
(* The types of a session hold: what is read from the tree or a report is  *)
(* a finding about a file of the tree, and what is written is a file.      *)
(***************************************************************************)
THEOREM FixTypeCorrect == Spec => []TypeOK
<1>1. IInv => TypeOK
  BY DEF IInv
<1> QED BY <1>1, Invariance, PTL

(***************************************************************************)
(* For every tree, whatever its lines hold: a session that went through it *)
(* with nobody beside it and ended with status 0 leaves at most as many    *)
(* occurrences of a value in a file as the walk did not report.  Each fix  *)
(* uses up one, though not the one that was found (fix.go:134-191,         *)
(* 241-246, 448-463).                                                      *)
(***************************************************************************)
THEOREM SuccessMeansFixed == Spec => []EveryFindingIsFixed
<1>1. IInv => EveryFindingIsFixed
  BY DEF IInv, AloneInv, AllFixed, EveryFindingIsFixed
<1> QED BY <1>1, Invariance, PTL

\* Every occurrence in a file is one that the walk reports.
Plain(file) == \A v \in Secrets : Unreported(file, v) = {}

(***************************************************************************)
(* In particular, where every occurrence of a value is recognized and      *)
(* first on its line, success means that no value is left.                 *)
(***************************************************************************)
PlainFilesAreClean ==
  \A s \in Sessions : Started = {s} /\ mode[s] = WholeTree /\ status[s] = 0 =>
    \A f \in ToSet(Files) : Plain(origin[f]) => \A v \in Secrets : Occurrences(tree[f], v) = {}

THEOREM SuccessMeansNoSecret == Spec => []PlainFilesAreClean
<1>1. TypeOK /\ EveryFindingIsFixed => PlainFilesAreClean
  <2> SUFFICES ASSUME TypeOK, EveryFindingIsFixed,
                      NEW s \in Sessions, Started = {s}, mode[s] = WholeTree, status[s] = 0,
                      NEW f \in ToSet(Files), Plain(origin[f]), NEW v \in Secrets
               PROVE  Occurrences(tree[f], v) = {}
    BY DEF PlainFilesAreClean
  <2>1. Cardinality(Occurrences(tree[f], v)) <= Cardinality(Unreported(origin[f], v))
    BY DEF EveryFindingIsFixed
  <2>2. Cardinality(Unreported(origin[f], v)) = 0
    BY FS_EmptySet DEF Plain
  <2>3. /\ IsFiniteSet(Occurrences(tree[f], v))
        /\ Cardinality(Occurrences(tree[f], v)) \in Nat
    BY OccurrencesFinite DEF TypeOK, Tree
  <2> QED BY <2>1, <2>2, <2>3, FS_EmptySet
<1> QED BY <1>1, FixTypeCorrect, SuccessMeansFixed, PTL

(***************************************************************************)
(* However many sessions overwrite each other's files: none is left with a *)
(* reference to the environment and without the import, unless it lacked   *)
(* the import from the start and mentioned it, or had no place for one     *)
(* (fix.go:219-231, 428-446).                                              *)
(***************************************************************************)
THEOREM NoDanglingReference == Spec => []ReferencesResolve
<1>1. IInv => ReferencesResolve
  BY DEF IInv, FilesResolve, Sound, ReferencesResolve
<1> QED BY <1>1, Invariance, PTL

(***************************************************************************)
(* No session that is alone loses a suppression, and none at all replaces  *)
(* a manifest it cannot read (fix.go:347-372).                             *)
(***************************************************************************)
THEOREM SuppressionsSurvive == Spec => SuppressionsKept
<1>1. IInv /\ [Next]_vars =>
        [/\ Alone => manifest.records \subseteq manifest'.records
         /\ manifest.state = "invalid" => manifest'.state = "invalid"]_vars
  <2> SUFFICES ASSUME IInv, Next
               PROVE  /\ Alone => manifest.records \subseteq manifest'.records
                      /\ manifest.state = "invalid" => manifest'.state = "invalid"
    OBVIOUS
  <2>1. PICK s \in Sessions : Session(s)
    BY DEF Next
  <2>2. CASE WriteManifest(s)
    BY <2>2 DEF WriteManifest, IInv, ManifestInv
  <2>3. CASE ~WriteManifest(s)
    <3>1. manifest' = manifest
      BY <2>1, <2>3 DEF Session, Start, StartFails, ReadFile, FixFails, WriteFile, ReadManifest,
         WriteFails, Skip, Quit, Finish, Kill, diskVars
    <3> QED BY <3>1
  <2> QED BY <2>2, <2>3
<1> QED BY <1>1, Invariance, PTL DEF Spec, SuppressionsKept
=============================================================================
