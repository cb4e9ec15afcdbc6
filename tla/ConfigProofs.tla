----------------------------- MODULE ConfigProofs -----------------------------
(***************************************************************************)
(* The reader of the configuration file, for files of any length with any  *)
(* sections, keys and numbers, and whatever was in aux: its indices count  *)
(* lines, every section is that of a block of the file, and what get_param *)
(* returns is what the file says.                                          *)
(***************************************************************************)
EXTENDS Config, SequenceTheorems, FiniteSetTheorems, WellFoundedInduction, TLAPS

Sect == [title : Sections \cup {Empty, "garbage"},
         keys : [1..MaxValues -> Keys \cup {Empty, "garbage"}],
         values : [1..MaxValues -> Nat \cup {Garbage}]]

\* The lines and the stored sections are sequences, which TypeOK leaves out.
Shape ==
  /\ text \in Seq(Lines) /\ Len(text) <= MaxLines
  /\ cut \in BOOLEAN /\ memory \in Leftovers
  /\ params \in Seq(Sect) /\ Len(params) <= MaxSections
  /\ reader \in {"reading", "done", "logged", "crashed", "overflow"}

\* The section being read: as many of its keys as index says come from the
\* file, and only the first one can have a title without a terminator.
Current ==
  /\ aux \in Sect
  /\ index \in 0..MaxValues
  /\ \A j \in 1..MaxValues : aux.keys[j] \in Keys <=> j <= index
  /\ aux.title = "garbage" => cut \/ (params = <<>> /\ memory.title = "garbage")

IInv == Shape /\ Current

-----------------------------------------------------------------------------
\* No name is the empty string or what was in memory.
LEMMA Names ==
  /\ Empty \notin Keys /\ "garbage" \notin Keys
  /\ Empty \notin Sections /\ "garbage" \notin Sections
  /\ Empty # "garbage"
<1>1. Empty # "garbage"
  BY DEF Empty
<1> QED
  BY <1>1, ConfigAssumption

LEMMA ZeroSect ==
  /\ Zero \in Sect /\ Zero.title = Empty
  /\ \A j \in 1..MaxValues : Zero.keys[j] = Empty /\ j > 0
<1>1. Zero \in Sect /\ Zero.title = Empty
  BY ConfigAssumption DEF Zero, Sect
<1>2. \A j \in 1..MaxValues : Zero.keys[j] = Empty
  BY DEF Zero
<1>3. \A j \in 1..MaxValues : j > 0
  BY ConfigAssumption
<1> QED
  BY <1>1, <1>2, <1>3

LEMMA MemorySect ==
  ASSUME memory \in Leftovers
  PROVE  memory \in Sect /\ \A j \in 1..MaxValues : memory.keys[j] \in {Empty, "garbage"}
<1>1. /\ memory.title \in {Empty, "garbage"}
      /\ memory.keys \in [1..MaxValues -> {Empty, "garbage"}]
      /\ memory.values \in [1..MaxValues -> {Garbage}]
      /\ memory = [title |-> memory.title, keys |-> memory.keys, values |-> memory.values]
  BY DEF Leftovers
<1>2. memory.keys \in [1..MaxValues -> Keys \cup {Empty, "garbage"}]
  BY <1>1
<1>3. memory.values \in [1..MaxValues -> Nat \cup {Garbage}]
  BY <1>1
<1> QED
  BY <1>1, <1>2, <1>3 DEF Sect

LEMMA Initially == Init => IInv
<1> SUFFICES ASSUME Init PROVE IInv
  OBVIOUS
<1>1. MaxLines \in Nat /\ MaxSections \in Nat /\ MaxValues \in Nat
  BY ConfigAssumption
<1>2. Shape
  <2>1. text \in Seq(Lines) /\ Len(text) <= MaxLines
    BY <1>1 DEF Init
  <2>2. params \in Seq(Sect) /\ Len(params) <= MaxSections
    BY <1>1 DEF Init
  <2> QED
    BY <2>1, <2>2 DEF Init, Shape
<1>3. aux \in Sect /\ \A j \in 1..MaxValues : aux.keys[j] \notin Keys
  BY MemorySect, Names DEF Init
<1>4. Current
  <2>1. index \in 0..MaxValues /\ \A j \in 1..MaxValues : ~(j <= index)
    BY <1>1 DEF Init
  <2> QED
    BY <1>3, <2>1 DEF Init, Current
<1> QED
  BY <1>2, <1>4 DEF IInv

\* What a step does to everything but the lines.
Keeps == /\ params' \in Seq(Sect) /\ Len(params') <= MaxSections
         /\ reader' \in {"reading", "done", "logged", "crashed", "overflow"}
         /\ memory' = memory
         /\ Current'

LEMMA StoreKeeps ==
  ASSUME IInv, NEW then \in {"reading", "done"}, Store(then), memory' = memory
  PROVE  Keeps
<1>1. MaxSections \in Nat /\ MaxValues \in Nat
  BY ConfigAssumption
<1>2. aux' = Zero /\ index' = 0
  BY DEF Store, StoreAs
<1>3. Current'
  <2>1. \A j \in 1..MaxValues : aux'.keys[j] \notin Keys /\ ~(j <= index')
    BY <1>2, ZeroSect, Names
  <2>2. aux' \in Sect /\ index' \in 0..MaxValues
    BY <1>1, <1>2, ZeroSect
  <2>3. aux'.title # "garbage"
    BY <1>2, ZeroSect, Names
  <2> QED
    BY <2>1, <2>2, <2>3 DEF Current
<1>4. CASE Len(params) = MaxSections
  BY <1>3, <1>4 DEF Store, StoreAs, IInv, Shape, Keeps
<1>5. CASE Len(params) # MaxSections
  <2>1. params \in Seq(Sect) /\ aux \in Sect /\ Len(params) <= MaxSections
    BY DEF IInv, Shape, Current
  <2>2. params' = Append(params, aux) /\ reader' = then
    BY <1>5 DEF Store, StoreAs
  <2>3. params' \in Seq(Sect) /\ Len(params') = Len(params) + 1
    BY <2>1, <2>2
  <2>4. Len(params') <= MaxSections
    BY <1>1, <1>5, <2>1, <2>3
  <2> QED
    BY <1>3, <2>2, <2>3, <2>4 DEF Keeps
<1> QED
  BY <1>4, <1>5

LEMMA EntitleKeeps ==
  ASSUME IInv, NEW s \in Sections, Entitle(s), ~cut, memory' = memory
  PROVE  Keeps
<1>1. aux \in Sect
  BY DEF IInv, Current
<1>2. aux' \in Sect /\ aux'.keys = aux.keys
  BY <1>1 DEF Entitle, Sect
<1>3. aux'.title = "garbage" => cut' \/ aux.title = "garbage"
  BY <1>1, Names DEF Entitle, Sect
<1> QED
  BY <1>2, <1>3 DEF Entitle, IInv, Shape, Current, Keeps

LEMMA AssignKeeps ==
  ASSUME IInv, NEW k \in Keys, NEW v, Assign(k, v), ~cut, memory' = memory
  PROVE  Keeps
<1>1. MaxValues \in Nat
  BY ConfigAssumption
<1>2. aux \in Sect /\ index \in 0..MaxValues
  BY DEF IInv, Current
<1>3. CASE \E how \in {"overflow", "crashed", "logged"} : Fails(how)
  BY <1>3 DEF Fails, IInv, Shape, Current, Keeps
<1>4. CASE ~ \E how \in {"overflow", "crashed", "logged"} : Fails(how)
  <2> DEFINE w == IF v \in Nat THEN v ELSE Garbage
  <2>1. /\ index < MaxValues
        /\ aux' = [aux EXCEPT !.keys[index + 1] = k, !.values[index + 1] = w]
        /\ index' = index + 1 /\ UNCHANGED <<params, reader>>
    BY <1>4 DEF Assign, AssignUnless
  <2>2. index < MaxValues /\ index' = index + 1
    BY <2>1
  <2>3. index + 1 \in 1..MaxValues
    BY <1>1, <1>2, <2>2
  <2>4. w \in Nat \cup {Garbage}
    OBVIOUS
  <2> HIDE DEF w
  <2>5. /\ aux' \in Sect /\ aux'.title = aux.title
        /\ aux'.keys = [aux.keys EXCEPT ![index + 1] = k]
    BY <1>2, <2>1, <2>3, <2>4 DEF Sect
  <2>6. aux.keys \in [1..MaxValues -> Keys \cup {Empty, "garbage"}]
    BY <1>2 DEF Sect
  <2>7. ASSUME NEW j \in 1..MaxValues PROVE aux'.keys[j] \in Keys <=> j <= index'
    <3>1. aux.keys[j] \in Keys <=> j <= index
      BY DEF IInv, Current
    <3>2. aux'.keys[j] = IF j = index + 1 THEN k ELSE aux.keys[j]
      BY <2>3, <2>5, <2>6
    <3>3. j <= index + 1 <=> j <= index \/ j = index + 1
      BY <1>1, <1>2
    <3> QED
      BY <2>2, <3>1, <3>2, <3>3
  <2>8. index' \in 0..MaxValues
    BY <1>1, <1>2, <2>2
  <2> QED
    BY <2>1, <2>5, <2>7, <2>8 DEF IInv, Shape, Current, Keeps
<1> QED
  BY <1>3, <1>4

(* Each kind of line does one of the three, or nothing.                    *)
LEMMA LineKeeps ==
  ASSUME IInv, NEW l \in Lines, ReadLine(l)
  PROVE  Keeps
<1> ~cut /\ memory' = memory
  BY DEF ReadLine
<1>1. CASE l = Blank /\ Store("reading")
  BY <1>1, StoreKeeps
<1>2. CASE l = Comment /\ UNCHANGED <<aux, index, params, reader>>
  BY <1>2 DEF IInv, Shape, Current, Keeps
<1>3. CASE l.kind = "title" /\ Entitle(l.section)
  <2>1. l.section \in Sections
    BY <1>3 DEF Lines, Blank, Comment, Title, Pair
  <2> QED
    BY <1>3, <2>1, EntitleKeeps
<1>4. ASSUME l.kind = "pair", NEW v, Assign(l.key, v)
      PROVE  Keeps
  <2>1. l.key \in Keys
    BY <1>4 DEF Lines, Blank, Comment, Title, Pair
  <2> QED
    BY <1>4, <2>1, AssignKeeps
<1> QED
  BY <1>1, <1>2, <1>3, <1>4 DEF ReadLine

LEMMA Invariant == Spec => []IInv
<1>1. IInv /\ [Next]_vars => IInv'
  <2> SUFFICES ASSUME IInv, [Next]_vars PROVE IInv'
    OBVIOUS
  <2>1. ASSUME NEW l \in Lines, ReadLine(l) PROVE IInv'
    <3>1. text \in Seq(Lines) /\ Len(text) < MaxLines /\ MaxLines \in Nat
      BY <2>1, ConfigAssumption DEF IInv, Shape, ReadLine
    <3>2. text' \in Seq(Lines) /\ Len(text') <= MaxLines
      BY <2>1, <3>1 DEF ReadLine
    <3>3. cut' \in BOOLEAN
      BY <2>1 DEF IInv, Shape, ReadLine
    <3> QED
      BY <2>1, <3>2, <3>3, LineKeeps DEF IInv, Shape, Keeps
  <2>2. CASE EndOfFile
    <3>1. Keeps
      BY <2>2, StoreKeeps DEF EndOfFile
    <3> QED
      BY <2>2, <3>1 DEF EndOfFile, IInv, Shape, Keeps
  <2>3. CASE UNCHANGED vars
    BY <2>3 DEF vars, IInv, Shape, Current
  <2> QED
    BY <2>1, <2>2, <2>3 DEF Next
<1> QED
  BY <1>1, Initially, PTL DEF Spec

-----------------------------------------------------------------------------
(* Type correctness: the indices stay inside params and inside a section,  *)
(* and the keys that come from the file are the ones values_index counts.  *)
THEOREM ReaderTypes == Spec => []TypeOK
<1>1. IInv => TypeOK
  <2> SUFFICES ASSUME IInv PROVE TypeOK
    OBVIOUS
  <2>1. \A n \in 1..Len(text) : text[n] \in Lines
    BY DEF IInv, Shape
  <2>2. ASSUME NEW sect \in Sect PROVE Types(sect)
    BY DEF Sect, Types
  <2>3. Types(aux)
    BY <2>2 DEF IInv, Current
  <2>4. \A n \in 1..Len(params) : params[n] \in Sect
    BY DEF IInv, Shape
  <2> QED
    BY <2>1, <2>2, <2>3, <2>4 DEF IInv, Shape, Current, TypeOK
<1> QED
  BY <1>1, Invariant, PTL

-----------------------------------------------------------------------------
(* The lines, as they grow.                                                *)

\* No blank line from the line n on: it is in the block being read.
InBlock(n) == ~Between(n, Len(text), "blank")

LEMMA LineKinds ==
  /\ \A l \in Lines :
       /\ l.kind \in {"blank", "comment", "title", "pair"}
       /\ l.kind = "blank" <=> l = Blank
       /\ l.kind = "title" => l.section \in Sections /\ l = Title(l.section)
       /\ l.kind = "pair" =>
            l.key \in Keys /\ l.value \in Numbers \cup {Text, Points, None}
  /\ \A s \in Sections : Title(s).kind = "title" /\ Title(s).section = s
  /\ Comment.kind = "comment"
<1>1. ASSUME NEW l \in Lines
      PROVE  /\ l.kind \in {"blank", "comment", "title", "pair"}
             /\ l.kind = "blank" <=> l = Blank
             /\ l.kind = "title" => l.section \in Sections /\ l = Title(l.section)
             /\ l.kind = "pair" =>
                  l.key \in Keys /\ l.value \in Numbers \cup {Text, Points, None}
  <2>1. CASE l \in {Blank, Comment}
    BY <2>1 DEF Blank, Comment
  <2>2. ASSUME NEW s \in Sections, l = Title(s) PROVE l.kind = "title" /\ l.section = s
    BY <2>2 DEF Title
  <2>3. ASSUME NEW k \in Keys, NEW v \in Numbers \cup {Text, Points, None}, l = Pair(k, v)
        PROVE  l.kind = "pair" /\ l.key = k /\ l.value = v
    BY <2>3 DEF Pair
  <2>4. l # Blank \/ l.kind = "blank"
    BY DEF Blank
  <2> QED
    BY <2>1, <2>2, <2>3, <2>4 DEF Lines
<1> QED
  BY <1>1 DEF Title, Comment

LEMMA TextGrows ==
  ASSUME IInv, NEW l \in Lines, ReadLine(l)
  PROVE  /\ Len(text) \in Nat /\ Len(text') = Len(text) + 1
         /\ text'[Len(text) + 1] = l
         /\ \A n \in 1..Len(text) : text'[n] = text[n] /\ text[n] \in Lines
         /\ reader = "reading" /\ ~cut /\ UNCHANGED memory
<1>1. text \in Seq(Lines) /\ text' = Append(text, l)
  BY DEF IInv, Shape, ReadLine
<1> QED
  BY <1>1 DEF ReadLine

\* What is between two lines stays, and the block goes on up to a blank line.
LEMMA BlockGrows ==
  ASSUME IInv, NEW l \in Lines, ReadLine(l)
  PROVE  /\ \A m \in Nat \ {0}, n \in 1..Len(text) :
              Between(m, n, "blank")' <=> Between(m, n, "blank")
         /\ \A n \in 1..(Len(text) + 1) :
              InBlock(n)' <=> InBlock(n) /\ l.kind # "blank"
<1>1. ASSUME NEW m \in Nat \ {0}, NEW n \in 1..Len(text)
      PROVE  Between(m, n, "blank")' <=> Between(m, n, "blank")
  <2>1. \A j \in m..n : text'[j] = text[j]
    BY TextGrows
  <2> QED
    BY <2>1 DEF Between
<1>2. ASSUME NEW n \in 1..(Len(text) + 1)
      PROVE  InBlock(n)' <=> InBlock(n) /\ l.kind # "blank"
  <2>1. InBlock(n) <=> \A j \in n..Len(text) : text[j].kind # "blank"
    BY DEF InBlock, Between
  <2>2. InBlock(n)' <=> \A j \in n..Len(text') : text'[j].kind # "blank"
    BY DEF InBlock, Between
  <2>3. /\ \A j \in n..Len(text) : j \in n..Len(text') /\ text'[j] = text[j]
        /\ Len(text) + 1 \in n..Len(text') /\ text'[Len(text) + 1] = l
        /\ \A j \in n..Len(text') : j \in n..Len(text) \/ j = Len(text) + 1
    BY TextGrows
  <2> QED
    BY <2>1, <2>2, <2>3
<1> QED
  BY <1>1, <1>2

\* What a line was read as does not change: only the last one can be cut.
LEMMA ReadingsStay ==
  ASSUME IInv, NEW l \in Lines, ReadLine(l), NEW n \in 1..Len(text)
  PROVE  Readings(n)' = Readings(n)
<1>1. text'[n] = text[n] /\ n # Len(text') /\ ~cut
  BY TextGrows
<1> QED
  BY <1>1 DEF Readings

Count(m) == Cardinality(PairsFrom(m))

Blanks == {n \in 1..Len(text) : text[n] = Blank}

LEMMA Finite ==
  ASSUME IInv
  PROVE  /\ IsFiniteSet(Blanks)
         /\ \A m \in Nat : IsFiniteSet(PairsFrom(m)) /\ Count(m) \in Nat
<1>1. Len(text) \in Nat
  BY DEF IInv, Shape
<1>2. IsFiniteSet(1..Len(text)) /\ \A m \in Nat : IsFiniteSet(m..Len(text))
  BY <1>1, FS_Interval
<1>3. IsFiniteSet(Blanks) /\ \A m \in Nat : IsFiniteSet(PairsFrom(m))
  BY <1>2, FS_Subset DEF Blanks, PairsFrom
<1> QED
  BY <1>3, FS_CardinalityType DEF Count

\* A blank line is counted once, and a pair once in the block it is in.
LEMMA SetsGrow ==
  ASSUME IInv, NEW l \in Lines, ReadLine(l)
  PROVE  /\ Cardinality(Blanks)' = Cardinality(Blanks) + (IF l = Blank THEN 1 ELSE 0)
         /\ \A m \in 1..(Len(text) + 1) :
              IF InBlock(m) /\ l.kind = "pair"
              THEN /\ PairsFrom(m)' = PairsFrom(m) \cup {Len(text) + 1}
                   /\ Count(m)' = Count(m) + 1
              ELSE PairsFrom(m)' = PairsFrom(m) /\ Count(m)' = Count(m)
<1>1. Cardinality(Blanks)' = Cardinality(Blanks) + (IF l = Blank THEN 1 ELSE 0)
  <2>1. \A n : n \in 1..Len(text') <=> n \in 1..Len(text) \/ n = Len(text) + 1
    BY TextGrows
  <2>2. Blanks' = IF l = Blank THEN Blanks \cup {Len(text) + 1} ELSE Blanks
    BY <2>1, TextGrows DEF Blanks
  <2>3. Len(text) + 1 \notin Blanks /\ IsFiniteSet(Blanks) /\ Cardinality(Blanks) \in Nat
    BY TextGrows, Finite, FS_CardinalityType DEF Blanks
  <2>4. Cardinality(Blanks \cup {Len(text) + 1}) = Cardinality(Blanks) + 1
    BY <2>3, FS_AddElement
  <2>5. Cardinality(Blanks)' = Cardinality(Blanks')
    OBVIOUS
  <2> QED
    BY <2>2, <2>3, <2>4, <2>5
<1>2. ASSUME NEW m \in 1..(Len(text) + 1)
      PROVE  IF InBlock(m) /\ l.kind = "pair"
             THEN /\ PairsFrom(m)' = PairsFrom(m) \cup {Len(text) + 1}
                  /\ Count(m)' = Count(m) + 1
             ELSE PairsFrom(m)' = PairsFrom(m) /\ Count(m)' = Count(m)
  <2>1. \A n : n \in m..Len(text') <=> n \in m..Len(text) \/ n = Len(text) + 1
    BY TextGrows
  <2>2. \A n \in m..Len(text) : /\ text'[n] = text[n]
                                /\ Between(m, n, "blank")' <=> Between(m, n, "blank")
    BY TextGrows, BlockGrows
  <2>3. PICK k : k = Len(text) + 1
    OBVIOUS
  <2>4. Between(m, k, "blank")' <=> ~InBlock(m)'
    BY <2>3, TextGrows DEF InBlock
  <2>5. text'[k].kind = "pair" /\ ~Between(m, k, "blank")' <=> InBlock(m) /\ l.kind = "pair"
    BY <2>3, <2>4, TextGrows, BlockGrows
  <2>6. PairsFrom(m)' = {n \in m..Len(text') : text'[n].kind = "pair" /\ ~Between(m, n, "blank")'}
    BY DEF PairsFrom
  <2>7. PairsFrom(m)' = IF InBlock(m) /\ l.kind = "pair"
                        THEN PairsFrom(m) \cup {k} ELSE PairsFrom(m)
    BY <2>1, <2>2, <2>3, <2>5, <2>6 DEF PairsFrom
  <2>8. m \in Nat /\ k \notin PairsFrom(m)
    BY <2>3, TextGrows DEF PairsFrom
  <2>9. IsFiniteSet(PairsFrom(m)) /\ Cardinality(PairsFrom(m)) \in Nat
    BY <2>8, Finite DEF Count
  <2>10. Cardinality(PairsFrom(m) \cup {k}) = Cardinality(PairsFrom(m)) + 1
    BY <2>8, <2>9, FS_AddElement
  <2> QED
    BY <2>3, <2>7, <2>10 DEF Count
<1> QED
  BY <1>1, <1>2

-----------------------------------------------------------------------------
(* Every section is that of a block of the file.                           *)

\* The sections stored, and then the one being read.
Section(i) == IF i <= Len(params) THEN params[i] ELSE aux
Read == 1..(IF reader = "done" THEN Len(params) ELSE Len(params) + 1)

\* Place j of the section i has the key of the line n and what was read there.
Carries(i, j, n) ==
  /\ Section(i).keys[j] = text[n].key
  /\ \E w \in Readings(n) \ {Text, None} : Section(i).values[j] = Meaning(w)

\* The line m begins the block of the section i, the last one if it is being
\* read; index counts its pairs.
Begins(i, m) ==
  /\ m \in 1..(Len(text) + 1)
  /\ m = 1 \/ text[m - 1] = Blank
  /\ i = 1 => m = 1
  /\ i = Len(params) + 1 => InBlock(m) /\ index = Count(m)
  /\ i # Len(params) + 1 /\ reader = "reading" => ~InBlock(m)

\* The section i has the pairs of the block of line m in its first places, and
\* in the others what was there.
Holds(i, m) ==
  /\ \A j \in 1..MaxValues :
       IF j <= Count(m) THEN \E n \in PairsFrom(m) : Carries(i, j, n)
       ELSE Section(i).keys[j] = IF i = 1 THEN memory.keys[j] ELSE Empty
  /\ \A n \in PairsFrom(m) : \E j \in 1..MaxValues : j <= Count(m) /\ Carries(i, j, n)

\* The line t is a title in the block of line m, the last one there.
LastTitle(m, t, s) ==
  /\ text[t] = Title(s) /\ ~Between(m, t, "blank")
  /\ \A u \in (t + 1)..Len(text) : text[u].kind = "title" => Between(m, u, "blank")

\* The section i has a title of the block of line m, and the last one if that
\* is whole and has a terminator.
Titled(i, m) ==
  /\ \A s \in Sections : Section(i).title = s =>
       \E t \in m..Len(text) : text[t] = Title(s) /\ ~Between(m, t, "blank")
  /\ ~cut => \A t \in m..Len(text), s \in Sections : LastTitle(m, t, s) =>
       Section(i).title = s \/ (i = 1 /\ memory.title = "garbage")

From(i, m) == Begins(i, m) /\ Holds(i, m) /\ Titled(i, m)

\* Every section was read from a block, and every pair into a section.
Placed ==
  reader \in {"reading", "done"} =>
    /\ \A i \in Read : \E m \in Nat : From(i, m)
    /\ \A n \in 1..Len(text) : text[n].kind = "pair" =>
         \E i \in Read, m \in Nat : From(i, m) /\ n \in PairsFrom(m)

\* What is known of a place goes on being known.
LEMMA CarriesStay ==
  ASSUME IInv, NEW l \in Lines, ReadLine(l), NEW i, NEW j, NEW n \in 1..Len(text),
         Section(i)'.keys[j] = Section(i).keys[j],
         Section(i)'.values[j] = Section(i).values[j]
  PROVE  Carries(i, j, n) => Carries(i, j, n)'
<1>1. text'[n] = text[n] /\ Readings(n)' = Readings(n)
  BY TextGrows, ReadingsStay
<1> QED
  BY <1>1 DEF Carries, Meaning

\* Reading a line that is no pair of the block leaves a section what it is.
LEMMA HoldsStays ==
  ASSUME IInv, NEW l \in Lines, ReadLine(l), NEW i, NEW m \in 1..(Len(text) + 1),
         Holds(i, m), ~(InBlock(m) /\ l.kind = "pair"),
         Section(i)'.keys = Section(i).keys, Section(i)'.values = Section(i).values
  PROVE  Holds(i, m)'
<1>1. PairsFrom(m)' = PairsFrom(m) /\ Count(m)' = Count(m) /\ memory' = memory
  BY SetsGrow, TextGrows
<1>2. PairsFrom(m) \subseteq 1..Len(text)
  BY TextGrows DEF PairsFrom
<1>3. \A j, n : n \in PairsFrom(m) /\ Carries(i, j, n) => Carries(i, j, n)'
  BY <1>2, CarriesStay
<1>4. ASSUME NEW j \in 1..MaxValues
      PROVE  IF j <= Count(m)' THEN \E n \in PairsFrom(m)' : Carries(i, j, n)'
             ELSE Section(i)'.keys[j] = IF i = 1 THEN memory'.keys[j] ELSE Empty
  <2>1. CASE j <= Count(m)
    <3>1. PICK n \in PairsFrom(m) : Carries(i, j, n)
      BY <2>1 DEF Holds
    <3> QED
      BY <1>1, <1>3, <2>1, <3>1
  <2>2. CASE ~(j <= Count(m))
    <3>1. Section(i).keys[j] = IF i = 1 THEN memory.keys[j] ELSE Empty
      BY <2>2 DEF Holds
    <3> QED
      BY <1>1, <2>2, <3>1
  <2> QED
    BY <2>1, <2>2
<1>5. ASSUME NEW n \in PairsFrom(m)'
      PROVE  \E j \in 1..MaxValues : j <= Count(m)' /\ Carries(i, j, n)'
  <2>1. PICK j \in 1..MaxValues : j <= Count(m) /\ Carries(i, j, n)
    BY <1>1 DEF Holds
  <2> QED
    BY <1>1, <1>3, <2>1
<1> QED
  BY <1>4, <1>5 DEF Holds

\* So does one that is no title of the block for the title.
LEMMA TitledStays ==
  ASSUME IInv, NEW l \in Lines, ReadLine(l), NEW i, NEW m \in 1..(Len(text) + 1),
         Titled(i, m), ~InBlock(m)' \/ l.kind # "title",
         Section(i)'.title = Section(i).title
  PROVE  Titled(i, m)'
<1>1. \A t \in m..Len(text) :
        /\ t \in m..Len(text') /\ text'[t] = text[t]
        /\ Between(m, t, "blank")' <=> Between(m, t, "blank")
  <2>1. m \in Nat \ {0} /\ \A t \in m..Len(text) : t \in 1..Len(text) /\ t \in m..(Len(text) + 1)
    BY TextGrows
  <2> QED
    BY <2>1, TextGrows, BlockGrows
<1>2. ASSUME NEW s \in Sections, Section(i)'.title = s
      PROVE  \E t \in m..Len(text') : text'[t] = Title(s) /\ ~Between(m, t, "blank")'
  BY <1>1, <1>2 DEF Titled
<1>3. ASSUME NEW t \in m..Len(text'), NEW s \in Sections, LastTitle(m, t, s)'
      PROVE  Section(i)'.title = s \/ (i = 1 /\ memory'.title = "garbage")
  <2>1. t \in m..Len(text)
    <3>1. SUFFICES ASSUME t = Len(text) + 1 PROVE FALSE
      BY TextGrows
    <3>2. InBlock(m)' /\ l.kind = "title"
      BY <1>3, <3>1, TextGrows, LineKinds DEF LastTitle, InBlock
    <3> QED
      BY <3>2
  <2>2. ASSUME NEW u \in (t + 1)..Len(text), text[u].kind = "title"
        PROVE  Between(m, u, "blank")
    <3>1. u \in (t + 1)..Len(text') /\ u \in m..Len(text) /\ text'[u].kind = "title"
      BY <2>1, <2>2, TextGrows
    <3> QED
      BY <1>1, <1>3, <3>1 DEF LastTitle
  <2>3. LastTitle(m, t, s)
    BY <1>1, <1>3, <2>1, <2>2 DEF LastTitle
  <2> QED
    BY <2>1, <2>3, TextGrows DEF Titled
<1> QED
  BY <1>2, <1>3 DEF Titled

\* A section whose block is over, or ends with the line, is what it was.
LEMMA ClosedStays ==
  ASSUME IInv, NEW l \in Lines, ReadLine(l), NEW i, NEW m, From(i, m),
         Section(i)' = Section(i), i # Len(params') + 1, ~InBlock(m)'
  PROVE  From(i, m)'
<1>1. m \in 1..(Len(text) + 1) /\ m \in 1..(Len(text') + 1)
  BY TextGrows DEF From, Begins
<1>2. Begins(i, m)'
  <2>1. m # 1 => m - 1 \in 1..Len(text)
    BY <1>1, TextGrows
  <2> QED
    BY <1>1, <2>1, TextGrows DEF From, Begins
<1>3. ~(InBlock(m) /\ l.kind = "pair")
  BY <1>1, BlockGrows
<1>4. Holds(i, m)'
  BY <1>1, <1>3, HoldsStays DEF From
<1>5. Titled(i, m)'
  BY <1>1, TitledStays DEF From
<1> QED
  BY <1>2, <1>4, <1>5 DEF From

\* The place of the section being read, among those read.
LEMMA Places ==
  ASSUME IInv
  PROVE  /\ Len(params) \in Nat
         /\ Section(Len(params) + 1) = aux
         /\ \A i \in 1..Len(params) : Section(i) = params[i] /\ i # Len(params) + 1
         /\ \A i : i \in 1..(Len(params) + 1) <=> i \in 1..Len(params) \/ i = Len(params) + 1
  BY DEF IInv, Shape, Section

\* The block being read goes on with a line that is not blank.
LEMMA BeginsStays ==
  ASSUME IInv, NEW l \in Lines, ReadLine(l), l # Blank, UNCHANGED params,
         NEW i, i = Len(params) + 1, NEW m, Begins(i, m), index' = Count(m)'
  PROVE  Begins(i, m)' /\ m \in 1..(Len(text) + 1) /\ InBlock(m) /\ InBlock(m)'
<1>1. m \in 1..(Len(text) + 1) /\ m \in 1..(Len(text') + 1) /\ InBlock(m)
  BY TextGrows DEF Begins
<1>2. InBlock(m)'
  BY <1>1, BlockGrows, LineKinds
<1>3. m # 1 => text'[m - 1] = Blank
  <2>1. m # 1 => m - 1 \in 1..Len(text)
    BY <1>1, TextGrows
  <2> QED
    BY <2>1, TextGrows DEF Begins
<1> QED
  BY <1>1, <1>2, <1>3 DEF Begins

LEMMA FromComment ==
  ASSUME IInv, ReadLine(Comment), NEW i, i = Len(params) + 1, NEW m, From(i, m)
  PROVE  UNCHANGED <<params, reader>> /\ From(i, m)'
<1>1. /\ Comment \in Lines /\ Comment.kind = "comment" /\ Comment # Blank
      /\ UNCHANGED <<aux, index, params, reader>>
  BY DEF ReadLine, Lines, Blank, Comment, Title, Pair
<1>2. m \in 1..(Len(text) + 1) /\ index = Count(m) /\ Section(i)' = Section(i)
  BY <1>1 DEF From, Begins, Section
<1>3. Begins(i, m)'
  BY <1>1, <1>2, SetsGrow, BeginsStays DEF From
<1> QED
  BY <1>1, <1>2, <1>3, HoldsStays, TitledStays DEF From

\* A title changes that of aux alone.  It is the last one of the block.
LEMMA FromTitle ==
  ASSUME IInv, NEW l \in Lines, ReadLine(l), l.kind = "title",
         NEW i, i = Len(params) + 1, NEW m, From(i, m)
  PROVE  UNCHANGED <<params, reader>> /\ From(i, m)'
<1>1. Entitle(l.section) /\ l.section \in Sections /\ l = Title(l.section) /\ l # Blank
  BY LineKinds DEF ReadLine, Blank, Comment
<1>2. UNCHANGED <<index, params, reader>> /\ aux'.keys = aux.keys /\ aux'.values = aux.values
  BY <1>1 DEF Entitle, IInv, Current, Sect
<1>3. aux'.title = IF aux.title = "garbage" \/ (cut' /\ aux.title # l.section)
                   THEN "garbage" ELSE l.section
  BY <1>1 DEF Entitle, IInv, Current, Sect
<1>4. /\ m \in 1..(Len(text) + 1) /\ index = Count(m)
      /\ Section(i) = aux /\ Section(i)' = aux'
  BY <1>2, Places DEF From, Begins, Section
<1>5. Begins(i, m)' /\ InBlock(m)'
  BY <1>1, <1>2, <1>4, SetsGrow, BeginsStays DEF From
<1>6. Holds(i, m)'
  BY <1>2, <1>4, HoldsStays DEF From
<1>7. PICK k : k = Len(text) + 1
  OBVIOUS
<1>8. /\ k \in m..Len(text') /\ k \in 1..Len(text') /\ text'[k] = Title(l.section)
      /\ ~Between(m, k, "blank")'
  BY <1>1, <1>4, <1>5, <1>7, TextGrows DEF InBlock
<1>9. ASSUME NEW s \in Sections, aux'.title = s
      PROVE  \E t \in m..Len(text') : text'[t] = Title(s) /\ ~Between(m, t, "blank")'
  BY <1>3, <1>8, <1>9, Names
<1>10. ASSUME ~cut', NEW t \in m..Len(text'), NEW s \in Sections, LastTitle(m, t, s)'
       PROVE  aux'.title = s \/ (i = 1 /\ memory'.title = "garbage")
  <2>1. t = k
    <3>1. SUFFICES ASSUME t # k PROVE FALSE
      OBVIOUS
    <3>2. k \in (t + 1)..Len(text')
      BY <1>4, <1>7, <3>1, TextGrows
    <3> QED
      BY <1>8, <1>10, <3>2, LineKinds, <1>1 DEF LastTitle
  <2>2. s = l.section
    BY <1>8, <1>10, <2>1, <1>1, LineKinds DEF LastTitle
  <2>3. aux.title = "garbage" => i = 1 /\ memory.title = "garbage"
    <3>1. Len(<<>>) = 0
      OBVIOUS
    <3> QED
      BY <3>1, TextGrows DEF IInv, Current
  <2> QED
    BY <1>3, <1>10, <2>2, <2>3, TextGrows
<1>11. Titled(i, m)'
  BY <1>4, <1>9, <1>10 DEF Titled
<1> QED
  BY <1>2, <1>5, <1>6, <1>11 DEF From

\* A pair that is accepted goes to the next place, with what was read.
LEMMA PairPut ==
  ASSUME IInv, NEW l \in Lines, ReadLine(l), l.kind = "pair", reader' = "reading",
         NEW k, k = Len(text) + 1
  PROVE  /\ index < MaxValues /\ index' = index + 1 /\ UNCHANGED <<params, reader>>
         /\ aux'.title = aux.title /\ aux'.keys[index + 1] = l.key
         /\ \E w \in Readings(k)' \ {Text, None} : aux'.values[index + 1] = Meaning(w)
         /\ \A j \in 1..MaxValues : j # index + 1 =>
              aux'.keys[j] = aux.keys[j] /\ aux'.values[j] = aux.values[j]
<1>1. PICK w \in Readings(k)' : Assign(l.key, w)
  <2>1. PICK w \in IF cut' THEN Left(l.value) ELSE {l.value} : Assign(l.key, w)
    BY DEF ReadLine, Blank, Comment
  <2>2. Readings(k)' = IF cut' THEN Left(l.value) ELSE {l.value}
    BY TextGrows DEF Readings
  <2> QED
    BY <2>1, <2>2
<1>2. /\ index < MaxValues /\ w \notin {Text, None}
      /\ index' = index + 1 /\ UNCHANGED <<params, reader>>
      /\ aux' = [aux EXCEPT !.keys[index + 1] = l.key, !.values[index + 1] = Meaning(w)]
  BY <1>1 DEF Assign, AssignUnless, Fails, Meaning
<1>3. MaxValues \in Nat /\ index \in 0..MaxValues /\ aux \in Sect
  BY ConfigAssumption DEF IInv, Current
<1>4. PICK q \in 1..MaxValues : q = index + 1
  BY <1>2, <1>3
<1>5. /\ aux'.title = aux.title /\ aux'.keys[q] = l.key /\ aux'.values[q] = Meaning(w)
      /\ \A j \in 1..MaxValues : j # q =>
           aux'.keys[j] = aux.keys[j] /\ aux'.values[j] = aux.values[j]
  BY <1>2, <1>3, <1>4 DEF Sect
<1> QED
  BY <1>1, <1>2, <1>4, <1>5

LEMMA FromPair ==
  ASSUME IInv, NEW l \in Lines, ReadLine(l), l.kind = "pair", reader' = "reading",
         NEW i, i = Len(params) + 1, NEW m, From(i, m)
  PROVE  UNCHANGED <<params, reader>> /\ From(i, m)'
<1>1. /\ index < MaxValues /\ index' = index + 1 /\ UNCHANGED <<params, reader>>
      /\ aux'.title = aux.title /\ l # Blank
  BY PairPut, LineKinds
<1>2. PICK k : k = Len(text) + 1
  OBVIOUS
<1>3. PICK q : q = index + 1
  OBVIOUS
<1>4. /\ aux'.keys[q] = l.key
      /\ \E w \in Readings(k)' \ {Text, None} : aux'.values[q] = Meaning(w)
      /\ \A j \in 1..MaxValues : j # q =>
           aux'.keys[j] = aux.keys[j] /\ aux'.values[j] = aux.values[j]
  BY <1>2, <1>3, PairPut
<1>5. /\ m \in 1..(Len(text) + 1) /\ m \in Nat /\ index = Count(m) /\ InBlock(m)
      /\ Section(i) = aux /\ Section(i)' = aux'
  BY <1>1, Places DEF From, Begins, Section
<1>6. PairsFrom(m)' = PairsFrom(m) \cup {k} /\ Count(m)' = index + 1 /\ Count(m) \in Nat
  BY <1>2, <1>5, SetsGrow, Finite
<1>7. Begins(i, m)'
  BY <1>1, <1>6, BeginsStays DEF From
<1>8. Titled(i, m)'
  BY <1>1, <1>5, TitledStays DEF From
<1>9. Carries(i, q, k)'
  <2>1. text'[k] = l
    BY <1>2, TextGrows
  <2>2. \A w : Meaning(w)' = Meaning(w)
    BY DEF Meaning
  <2> QED
    BY <1>4, <1>5, <2>1, <2>2 DEF Carries
<1>10. ASSUME NEW j \in 1..MaxValues, j # q, NEW n \in PairsFrom(m), Carries(i, j, n)
       PROVE  Carries(i, j, n)'
  <2>1. n \in 1..Len(text)
    BY <1>5, TextGrows DEF PairsFrom
  <2> QED
    BY <1>4, <1>5, <1>10, <2>1, CarriesStay
<1>11. q \in 1..MaxValues /\ \A j \in 1..MaxValues : j <= Count(m)' <=> j <= Count(m) \/ j = q
  BY <1>1, <1>3, <1>5, <1>6, ConfigAssumption
<1>12. q > Count(m)
  BY <1>3, <1>5, <1>6
<1>13. ASSUME NEW j \in 1..MaxValues
       PROVE  IF j <= Count(m)' THEN \E n \in PairsFrom(m)' : Carries(i, j, n)'
              ELSE Section(i)'.keys[j] = IF i = 1 THEN memory'.keys[j] ELSE Empty
  <2>1. CASE j = q
    BY <1>6, <1>9, <1>11, <2>1
  <2>2. CASE j # q /\ j <= Count(m)
    <3>1. PICK n \in PairsFrom(m) : Carries(i, j, n)
      BY <2>2 DEF From, Holds
    <3> QED
      BY <1>6, <1>10, <1>11, <2>2, <3>1
  <2>3. CASE j # q /\ ~(j <= Count(m))
    <3>1. Section(i).keys[j] = IF i = 1 THEN memory.keys[j] ELSE Empty
      BY <2>3 DEF From, Holds
    <3> QED
      BY <1>4, <1>5, <1>11, <2>3, <3>1, TextGrows
  <2> QED
    BY <2>1, <2>2, <2>3
<1>14. ASSUME NEW n \in PairsFrom(m)'
       PROVE  \E j \in 1..MaxValues : j <= Count(m)' /\ Carries(i, j, n)'
  <2>1. CASE n = k
    BY <1>9, <1>11, <2>1
  <2>2. CASE n \in PairsFrom(m)
    <3>1. PICK j \in 1..MaxValues : j <= Count(m) /\ Carries(i, j, n)
      BY <2>2 DEF From, Holds
    <3>2. j # q
      BY <1>3, <1>5, <1>6, <3>1
    <3> QED
      BY <1>10, <1>11, <2>2, <3>1, <3>2
  <2> QED
    BY <1>6, <2>1, <2>2
<1>15. Holds(i, m)'
  BY <1>13, <1>14 DEF Holds
<1> QED
  BY <1>1, <1>7, <1>8, <1>15 DEF From

\* The sections of blocks that are over stay what they are.
LEMMA OthersStay ==
  ASSUME IInv, NEW l \in Lines, ReadLine(l), UNCHANGED params,
         NEW i \in 1..Len(params), NEW m, From(i, m)
  PROVE  From(i, m)'
<1>1. Section(i)' = Section(i) /\ i # Len(params') + 1
  BY Places DEF Section
<1>2. m \in 1..(Len(text) + 1) /\ ~InBlock(m)
  BY Places, TextGrows DEF From, Begins
<1>3. ~InBlock(m)'
  BY <1>2, BlockGrows
<1> QED
  BY <1>1, <1>3, ClosedStays

\* A line of the block being read.
LEMMA PlacedOpen ==
  ASSUME IInv, Placed, NEW l \in Lines, ReadLine(l), l # Blank, UNCHANGED <<params, reader>>,
         \A m \in Nat : From(Len(params) + 1, m) => From(Len(params) + 1, m)'
  PROVE  Placed'
<1>1. PICK c : c = Len(params) + 1
  OBVIOUS
<1>2. ASSUME NEW m \in Nat, From(c, m) PROVE From(c, m)'
  BY <1>1, <1>2
<1>3. /\ reader = "reading" /\ Read = 1..c /\ Read' = 1..c
      /\ Len(params) \in Nat /\ c \in 1..c
  BY <1>1, TextGrows, Places DEF Read
<1>4. ASSUME NEW i \in 1..c, NEW m \in Nat, From(i, m) PROVE From(i, m)'
  <2>1. i = c \/ i \in 1..Len(params)
    BY <1>1, <1>3
  <2> QED
    BY <1>2, <1>4, <2>1, OthersStay
<1>5. ASSUME NEW i \in 1..c PROVE \E m \in Nat : From(i, m)'
  BY <1>3, <1>4 DEF Placed
<1>6. ASSUME NEW n \in 1..Len(text'), text'[n].kind = "pair"
      PROVE  \E i \in 1..c, m \in Nat : From(i, m)' /\ n \in PairsFrom(m)'
  <2>1. CASE n \in 1..Len(text)
    <3>1. PICK i \in 1..c, m \in Nat : From(i, m) /\ n \in PairsFrom(m)
      BY <1>3, <1>6, <2>1, TextGrows DEF Placed
    <3>2. n \in PairsFrom(m)'
      BY <3>1, SetsGrow DEF From, Begins
    <3> QED
      BY <1>4, <3>1, <3>2
  <2>2. CASE n \notin 1..Len(text)
    <3>1. n = Len(text) + 1 /\ l.kind = "pair"
      BY <1>6, <2>2, TextGrows
    <3>2. PICK m \in Nat : From(c, m)
      BY <1>3 DEF Placed
    <3>3. m \in 1..(Len(text) + 1) /\ InBlock(m)
      BY <1>1, <3>2 DEF From, Begins
    <3> QED
      BY <1>2, <1>3, <3>1, <3>2, <3>3, SetsGrow
  <2> QED
    BY <2>1, <2>2
<1> QED
  BY <1>3, <1>5, <1>6 DEF Placed

\* Storing gives the section read its place, and starts another.
LEMMA StoreMoves ==
  ASSUME IInv, NEW then, Store(then), Len(params) # MaxSections
  PROVE  /\ reader' = then /\ aux' = Zero /\ index' = 0
         /\ Len(params) \in Nat /\ Len(params') = Len(params) + 1
         /\ \A i \in 1..(Len(params) + 1) : Section(i)' = Section(i)
         /\ \A i : i = Len(params') + 1 => Section(i)' = Zero
<1>1. /\ params \in Seq(Sect) /\ aux \in Sect /\ params' = Append(params, aux)
      /\ aux' = Zero /\ index' = 0 /\ reader' = then
  BY DEF IInv, Shape, Current, Store, StoreAs
<1>2. /\ Len(params) \in Nat /\ Len(params') = Len(params) + 1
      /\ params'[Len(params) + 1] = aux
      /\ \A i \in 1..Len(params) : params'[i] = params[i]
  BY <1>1
<1> QED
  BY <1>1, <1>2 DEF Section

\* A blank line ends a block, and begins one that is empty so far.
LEMMA PlacedBlank ==
  ASSUME IInv, Placed, ReadLine(Blank)
  PROVE  Placed'
<1> SUFFICES ASSUME reader' \in {"reading", "done"} PROVE Placed'
  BY DEF Placed
<1>1. Blank \in Lines /\ Blank.kind = "blank" /\ Store("reading") /\ Len(params) # MaxSections
  BY DEF ReadLine, Lines, Blank, Comment, Title, Pair, Store, StoreAs
<1>2. PICK c : c = Len(params) + 1
  OBVIOUS
<1>3. PICK d : d = Len(params') + 1
  OBVIOUS
<1>4. /\ reader = "reading" /\ Read = 1..c /\ Read' = 1..d /\ c \in Nat /\ d = c + 1 /\ c # 0
      /\ reader' = "reading"
  BY <1>1, <1>2, <1>3, StoreMoves, TextGrows DEF Read
<1>5. ASSUME NEW i \in 1..c, NEW m \in Nat, From(i, m) PROVE From(i, m)'
  <2>1. Section(i)' = Section(i) /\ i # Len(params') + 1
    BY <1>1, <1>2, <1>3, <1>4, StoreMoves
  <2>2. ~InBlock(m)'
    BY <1>1, <1>5, BlockGrows DEF From, Begins
  <2> QED
    BY <1>1, <1>5, <2>1, <2>2, ClosedStays
<1>6. PICK e : e = Len(text') + 1
  OBVIOUS
<1>7. e \in Nat /\ e # 1 /\ text'[e - 1] = Blank /\ e \in 1..(Len(text') + 1)
  BY <1>1, <1>6, TextGrows
<1>8. InBlock(e)' /\ PairsFrom(e)' = {} /\ Count(e)' = 0
  <2>1. \A n : n \notin e..Len(text')
    BY <1>6, <1>7
  <2>2. InBlock(e)' /\ PairsFrom(e)' = {}
    BY <2>1 DEF InBlock, Between, PairsFrom
  <2> QED
    BY <2>2, FS_EmptySet DEF Count
<1>9. Section(d)' = Zero /\ index' = 0 /\ d # 1
  BY <1>1, <1>3, <1>4, StoreMoves
<1>10. Begins(d, e)'
  BY <1>3, <1>7, <1>8, <1>9 DEF Begins
<1>11. Holds(d, e)'
  <2>1. \A j \in 1..MaxValues : ~(j <= 0) /\ Section(d)'.keys[j] = Empty
    BY <1>9, ZeroSect
  <2> QED
    BY <1>8, <1>9, <2>1 DEF Holds
<1>12. Titled(d, e)'
  <2>1. Section(d)'.title \notin Sections
    BY <1>9, ZeroSect, Names
  <2>2. \A t : t \notin e..Len(text')
    BY <1>6, <1>7
  <2> QED
    BY <2>1, <2>2 DEF Titled
<1>13. From(d, e)'
  BY <1>10, <1>11, <1>12 DEF From
<1>14. ASSUME NEW i \in 1..d PROVE \E m \in Nat : From(i, m)'
  <2>1. i = d \/ i \in 1..c
    BY <1>4
  <2> QED
    BY <1>4, <1>5, <1>7, <1>13, <2>1 DEF Placed
<1>15. ASSUME NEW n \in 1..Len(text'), text'[n].kind = "pair"
       PROVE  \E i \in 1..d, m \in Nat : From(i, m)' /\ n \in PairsFrom(m)'
  <2>1. n \in 1..Len(text) /\ text[n].kind = "pair"
    BY <1>1, <1>15, TextGrows
  <2>2. PICK i \in 1..c, m \in Nat : From(i, m) /\ n \in PairsFrom(m)
    BY <1>4, <2>1 DEF Placed
  <2>3. n \in PairsFrom(m)' /\ i \in 1..d
    BY <1>1, <1>4, <2>2, SetsGrow DEF From, Begins
  <2> QED
    BY <1>5, <2>2, <2>3
<1> QED
  BY <1>4, <1>14, <1>15 DEF Placed

\* The end of the file stores the last section.
LEMMA PlacedEnd ==
  ASSUME IInv, Placed, EndOfFile
  PROVE  Placed'
<1> SUFFICES ASSUME reader' \in {"reading", "done"} PROVE Placed'
  BY DEF Placed
<1>1. /\ Store("done") /\ Len(params) # MaxSections
      /\ reader = "reading" /\ UNCHANGED <<text, cut, memory>>
  BY DEF EndOfFile, Store, StoreAs
<1>2. PICK c : c = Len(params) + 1
  OBVIOUS
<1>3. Read = 1..c /\ Read' = 1..c /\ Len(params') = c /\ c \in Nat /\ reader' = "done"
  BY <1>1, <1>2, StoreMoves DEF Read
<1>4. /\ \A m, n : Between(m, n, "blank")' <=> Between(m, n, "blank")
      /\ \A n : Readings(n)' = Readings(n)
  BY <1>1 DEF Between, Readings
<1>5. \A m : PairsFrom(m)' = PairsFrom(m)
  BY <1>1, <1>4 DEF PairsFrom
<1>6. \A m : Count(m)' = Count(m)
  BY <1>5 DEF Count
<1>7. ASSUME NEW i \in 1..c, NEW m, From(i, m) PROVE From(i, m)'
  <2>1. Section(i)' = Section(i) /\ i # Len(params') + 1
    BY <1>1, <1>2, <1>3, StoreMoves
  <2>2. \A j, n : Carries(i, j, n)' <=> Carries(i, j, n)
    BY <1>1, <1>4, <2>1 DEF Carries, Meaning
  <2>3. \A t : \A s \in Sections : LastTitle(m, t, s)' <=> LastTitle(m, t, s)
    BY <1>1, <1>4 DEF LastTitle
  <2>4. Begins(i, m)'
    BY <1>1, <1>3, <1>7, <2>1 DEF From, Begins
  <2>5. Holds(i, m)'
    BY <1>1, <1>5, <1>6, <1>7, <2>1, <2>2 DEF From, Holds
  <2>6. Titled(i, m)'
    BY <1>1, <1>4, <1>7, <2>1, <2>3 DEF From, Titled
  <2> QED
    BY <2>4, <2>5, <2>6 DEF From
<1> QED
  BY <1>1, <1>3, <1>5, <1>7 DEF Placed

LEMMA PlacedInit == Init => Placed
<1> SUFFICES ASSUME Init PROVE Placed
  OBVIOUS
<1>1. /\ text = <<>> /\ Len(text) = 0 /\ params = <<>> /\ Len(params) = 0
      /\ aux = memory /\ memory \in Leftovers /\ index = 0 /\ reader = "reading"
  BY DEF Init
<1>2. Read = 1..1 /\ Section(1) = aux
  BY <1>1 DEF Read, Section
<1>3. InBlock(1) /\ PairsFrom(1) = {} /\ Count(1) = 0
  <2>1. InBlock(1) /\ PairsFrom(1) = {}
    BY <1>1 DEF InBlock, Between, PairsFrom
  <2> QED
    BY <2>1, FS_EmptySet DEF Count
<1>4. Begins(1, 1)
  BY <1>1, <1>3 DEF Begins
<1>5. Holds(1, 1)
  <2>1. \A j \in 1..MaxValues : ~(j <= 0) /\ aux.keys[j] = memory.keys[j]
    BY <1>1
  <2> QED
    BY <1>2, <1>3, <2>1 DEF Holds
<1>6. Titled(1, 1)
  <2>1. aux.title \notin Sections
    BY <1>1, Names DEF Leftovers
  <2> QED
    BY <1>1, <1>2, <2>1 DEF Titled
<1>7. From(1, 1)
  BY <1>4, <1>5, <1>6 DEF From
<1> QED
  BY <1>1, <1>2, <1>7 DEF Placed

LEMMA PlacedInv == Spec => [](IInv /\ Placed)
<1>1. IInv /\ Placed /\ [Next]_vars => Placed'
  <2> SUFFICES ASSUME IInv, Placed, [Next]_vars PROVE Placed'
    OBVIOUS
  <2>1. ASSUME NEW l \in Lines, ReadLine(l) PROVE Placed'
    <3>1. CASE l = Blank
      BY <2>1, <3>1, PlacedBlank
    <3>2. CASE l = Comment
      <4>1. l # Blank /\ ReadLine(Comment)
        BY <2>1, <3>2 DEF Blank, Comment
      <4>2. UNCHANGED <<params, reader>>
        BY <4>1 DEF ReadLine, Blank, Comment
      <4>3. \A m \in Nat : From(Len(params) + 1, m) => From(Len(params) + 1, m)'
        <5>1. PICK i : i = Len(params) + 1
          OBVIOUS
        <5>2. \A m \in Nat : From(i, m) => From(i, m)'
          BY <4>1, <5>1, FromComment
        <5> QED
          BY <4>2, <5>1, <5>2
      <4> QED
        BY <2>1, <4>1, <4>2, <4>3, PlacedOpen
    <3>3. CASE l.kind = "title"
      <4>1. l # Blank /\ UNCHANGED <<params, reader>>
        BY <2>1, <3>3, LineKinds DEF ReadLine, Entitle, Blank, Comment
      <4> QED
        BY <2>1, <3>3, <4>1, FromTitle, PlacedOpen
    <3>4. CASE l.kind = "pair" /\ reader' \in {"reading", "done"}
      <4>1. l # Blank /\ reader' = "reading"
        BY <2>1, <3>4, LineKinds, TextGrows DEF ReadLine, Assign, AssignUnless, Fails, Blank, Comment
      <4>2. UNCHANGED <<params, reader>>
        BY <2>1, <3>4, <4>1, PairPut
      <4> QED
        BY <2>1, <3>4, <4>1, <4>2, FromPair, PlacedOpen
    <3>5. CASE reader' \notin {"reading", "done"}
      BY <3>5 DEF Placed
    <3> QED
      BY <2>1, <3>1, <3>2, <3>3, <3>4, <3>5 DEF ReadLine
  <2>2. CASE UNCHANGED vars
    <3>1. UNCHANGED <<text, cut, memory, aux, index, params, reader>>
      BY <2>2 DEF vars
    <3>2. /\ \A m, n : Between(m, n, "blank")' <=> Between(m, n, "blank")
          /\ \A n : Readings(n)' = Readings(n)
          /\ Read' = Read /\ \A i : Section(i)' = Section(i)
      BY <3>1 DEF Between, Readings, Read, Section
    <3>3. \A m : PairsFrom(m)' = PairsFrom(m) /\ (InBlock(m)' <=> InBlock(m))
      BY <3>1, <3>2 DEF PairsFrom, InBlock
    <3>4. \A m : Count(m)' = Count(m)
      BY <3>3 DEF Count
    <3>5. /\ \A i, j, n : Carries(i, j, n)' <=> Carries(i, j, n)
          /\ \A m, t : \A s \in Sections : LastTitle(m, t, s)' <=> LastTitle(m, t, s)
      BY <3>1, <3>2 DEF Carries, Meaning, LastTitle
    <3>6. /\ \A i, m : Begins(i, m)' <=> Begins(i, m)
          /\ \A i, m : Holds(i, m)' <=> Holds(i, m)
          /\ \A i, m : Titled(i, m)' <=> Titled(i, m)
      BY <3>1, <3>2, <3>3, <3>4, <3>5 DEF Begins, Holds, Titled
    <3>7. \A i, m : From(i, m)' <=> From(i, m)
      BY <3>6 DEF From
    <3> QED
      BY <3>1, <3>2, <3>3, <3>7 DEF Placed
  <2> QED
    BY <2>1, <2>2, PlacedEnd DEF Next
<1> QED
  BY <1>1, PlacedInit, Invariant, PTL DEF Spec

-----------------------------------------------------------------------------
(* The indices.                                                            *)

\* Every blank line has stored a section.  An index of the reader that left
\* its array counted more lines than Fits allows.
Counted ==
  /\ reader = "reading" => Cardinality(Blanks) = Len(params)
  /\ reader = "overflow" => ~Fits

LEMMA CountedLine ==
  ASSUME IInv, Placed, Counted, NEW l \in Lines, ReadLine(l)
  PROVE  Counted'
<1>1. /\ reader = "reading" /\ Cardinality(Blanks) = Len(params) /\ Len(params) \in Nat
      /\ MaxSections \in Nat /\ MaxValues \in Nat
  BY TextGrows, Places, ConfigAssumption DEF Counted
<1>2. CASE l = Blank
  <2>1. Store("reading") /\ Cardinality(Blanks)' = Len(params) + 1
    BY <1>1, <1>2, SetsGrow DEF ReadLine, Blank, Comment
  <2>2. CASE Len(params) = MaxSections
    <3>1. ~Fits'
      BY <1>1, <2>1, <2>2 DEF Fits, Blanks
    <3> QED
      BY <2>1, <2>2, <3>1 DEF Counted, Store, StoreAs
  <2>3. CASE Len(params) # MaxSections
    BY <2>1, <2>3, StoreMoves DEF Counted
  <2> QED
    BY <2>2, <2>3
<1>3. CASE l.kind = "pair"
  <2>1. PICK w : Assign(l.key, w)
    BY <1>3, LineKinds DEF ReadLine, Blank, Comment
  <2>2. Cardinality(Blanks)' = Cardinality(Blanks)
    <3>1. l # Blank /\ Cardinality(Blanks) \in Nat
      BY <1>1, <1>3, LineKinds
    <3> QED
      BY <3>1, SetsGrow
  <2>3. CASE index = MaxValues
    <3>1. PICK c : c = Len(params) + 1
      OBVIOUS
    <3>2. c \in Read
      BY <1>1, <3>1 DEF Read
    <3>3. PICK m \in Nat : From(c, m)
      BY <1>1, <3>2 DEF Placed
    <3>4. m \in 1..(Len(text) + 1) /\ InBlock(m) /\ Count(m) = MaxValues
      BY <2>3, <3>1, <3>3 DEF From, Begins
    <3>5. m \in 1..Len(text') /\ Count(m)' = MaxValues + 1
      BY <1>3, <3>4, SetsGrow, TextGrows
    <3>6. ~Fits'
      BY <1>1, <3>5 DEF Fits, Count
    <3>7. reader' # "reading"
      BY <1>1, <2>1, <2>3 DEF Assign, AssignUnless, Fails
    <3> QED
      BY <3>6, <3>7 DEF Counted
  <2>4. CASE index # MaxValues
    BY <1>1, <2>1, <2>2, <2>4 DEF Assign, AssignUnless, Fails, Counted
  <2> QED
    BY <2>3, <2>4
<1>4. CASE l.kind \in {"comment", "title"}
  <2>1. UNCHANGED <<params, reader>> /\ l # Blank
    BY <1>4 DEF ReadLine, Entitle, Blank
  <2>2. Cardinality(Blanks)' = Cardinality(Blanks)
    BY <1>1, <2>1, SetsGrow
  <2> QED
    BY <1>1, <2>1, <2>2 DEF Counted
<1> QED
  BY <1>2, <1>3, <1>4, LineKinds

LEMMA CountedInv == Spec => [](IInv /\ Placed /\ Counted)
<1>1. Init => Counted
  <2> SUFFICES ASSUME Init PROVE Counted
    OBVIOUS
  <2>1. Blanks = {} /\ Len(params) = 0 /\ reader = "reading"
    BY DEF Init, Blanks
  <2> QED
    BY <2>1, FS_EmptySet DEF Counted
<1>2. IInv /\ Placed /\ Counted /\ [Next]_vars => Counted'
  <2> SUFFICES ASSUME IInv, Placed, Counted, [Next]_vars PROVE Counted'
    OBVIOUS
  <2>1. CASE EndOfFile
    <3>1. Store("done") /\ Cardinality(Blanks) = Len(params) /\ UNCHANGED <<text, cut, memory>>
      BY <2>1 DEF EndOfFile, Counted
    <3>2. CASE Len(params) = MaxSections
      <4>1. ~Fits'
        BY <3>1, <3>2, ConfigAssumption DEF Fits, Blanks
      <4> QED
        BY <3>1, <3>2, <4>1 DEF Store, StoreAs, Counted
    <3>3. CASE Len(params) # MaxSections
      BY <3>1, <3>3 DEF Store, StoreAs, Counted
    <3> QED
      BY <3>2, <3>3
  <2>2. CASE UNCHANGED vars
    <3>1. UNCHANGED <<text, params, reader>>
      BY <2>2 DEF vars
    <3>2. \A m : PairsFrom(m)' = PairsFrom(m)
      BY <3>1 DEF Between, PairsFrom
    <3>3. Blanks' = Blanks /\ (Fits' <=> Fits)
      BY <3>1, <3>2 DEF Blanks, Fits
    <3> QED
      BY <3>1, <3>3 DEF Counted
  <2> QED
    BY <2>1, <2>2, CountedLine DEF Next
<1> QED
  BY <1>1, <1>2, PlacedInv, PTL DEF Spec

\* get_param's loops meet one of the hits first.
LEMMA FirstHit ==
  ASSUME NEW H, H # {}, H \subseteq Nat \X Nat
  PROVE  \E a \in H : \A b \in H : Before(a, b)
<1> DEFINE less == {e \in Nat \X Nat : e[1] < e[2]}
<1>1. IsWellFoundedOn(less, Nat)
  BY NatLessThanWellFounded DEF OpToRel
<1> DEFINE lex == LexPairOrdering(less, less, Nat, Nat)
<1>2. IsWellFoundedOn(lex, Nat \X Nat)
  BY <1>1, WFLexPairOrdering
<1>3. PICK a \in H : \A b \in H : <<b, a>> \notin lex
  <2> HIDE DEF lex
  <2> QED
    BY <1>2, WFMin
<1>4. ASSUME NEW b \in H PROVE Before(a, b)
  <2>1. a \in Nat \X Nat /\ b \in Nat \X Nat /\ <<b, a>> \notin lex
    BY <1>3
  <2>2. ~(b[1] < a[1]) /\ ~(b[1] = a[1] /\ b[2] < a[2])
    BY <2>1 DEF LexPairOrdering
  <2> QED
    BY <2>1, <2>2 DEF Before
<1> QED
  BY <1>4

\* What get_param returns is what it finds where its loops stop.
LEMMA Found ==
  ASSUME IInv, NEW s \in Sections, NEW k \in Keys, Hits(s, k) # {}
  PROVE  \E a \in Hits(s, k) :
           get_param(s, k) = IF a[2] > MaxValues THEN Overrun ELSE params[a[1]].values[a[2]]
<1>1. Hits(s, k) \subseteq Nat \X Nat
  BY ConfigAssumption DEF Hits, IInv, Shape
<1>2. \E a \in Hits(s, k) : \A b \in Hits(s, k) : Before(a, b)
  BY <1>1, FirstHit
<1>3. PICK a \in Hits(s, k) :
        a = CHOOSE x \in Hits(s, k) : \A b \in Hits(s, k) : Before(x, b)
  BY <1>2
<1> QED
  BY <1>3 DEF get_param

\* A place where they stop is in a section read from a block that has the
\* title; a key there is that of a pair of the block.
LEMMA HitPlace ==
  ASSUME IInv, Placed, reader = "done", NEW s \in Sections, NEW k \in Keys,
         NEW a \in Hits(s, k)
  PROVE  \E i \in 1..Len(params), m \in 1..Len(text), t \in 1..Len(text) :
           /\ i = a[1] /\ From(i, m)
           /\ m <= t /\ text[t] = Title(s) /\ ~Between(m, t, "blank")
           /\ a[2] > MaxValues =>
                \A j \in 1..MaxValues :
                  j <= Count(m) \/ (i = 1 /\ memory.keys[j] # Empty)
           /\ ~(a[2] > MaxValues) =>
                \E n \in PairsFrom(m) : /\ text[n].key = k
                                        /\ \E w \in Readings(n) \ {Text, None} :
                                             params[a[1]].values[a[2]] = Meaning(w)
<1>1. PICK i \in 1..Len(params), j \in 1..(MaxValues + 1) :
        /\ a[1] = i /\ a[2] = j /\ params[i].title = s
        /\ \A h \in 1..(j - 1) : params[i].keys[h] # Empty
        /\ j <= MaxValues => params[i].keys[j] = k
  BY DEF Hits
<1>2. Section(i) = params[i] /\ i \in Read /\ Len(params) \in Nat
  BY Places DEF Read
<1>3. PICK m \in Nat : From(i, m)
  BY <1>2 DEF Placed
<1>4. m \in 1..(Len(text) + 1) /\ Len(text) \in Nat /\ MaxValues \in Nat /\ memory \in Leftovers
  BY <1>3, ConfigAssumption DEF From, Begins, IInv, Shape
<1>5. PICK t \in m..Len(text) : text[t] = Title(s) /\ ~Between(m, t, "blank")
  BY <1>1, <1>2, <1>3 DEF From, Titled
<1>6. m \in 1..Len(text) /\ t \in 1..Len(text) /\ m <= t
  BY <1>4, <1>5
<1>7. ASSUME j > MaxValues, NEW h \in 1..MaxValues
      PROVE  h <= Count(m) \/ (i = 1 /\ memory.keys[h] # Empty)
  <2>1. params[i].keys[h] # Empty
    BY <1>1, <1>4, <1>7
  <2> QED
    BY <1>2, <1>3, <2>1 DEF From, Holds
<1>8. ASSUME ~(j > MaxValues)
      PROVE  \E n \in PairsFrom(m) : /\ text[n].key = k
                                     /\ \E w \in Readings(n) \ {Text, None} :
                                          params[i].values[j] = Meaning(w)
  <2>1. j \in 1..MaxValues /\ params[i].keys[j] = k
    BY <1>1, <1>4, <1>8
  <2>2. memory.keys[j] # k /\ Empty # k
    BY <1>4, <2>1, MemorySect, Names
  <2>3. j <= Count(m)
    BY <1>2, <1>3, <2>1, <2>2 DEF From, Holds
  <2>4. PICK n \in PairsFrom(m) : Carries(i, j, n)
    BY <1>3, <2>1, <2>3 DEF From, Holds
  <2> QED
    BY <1>2, <2>1, <2>4 DEF Carries
<1> QED
  BY <1>1, <1>3, <1>5, <1>6, <1>7, <1>8

\* Nothing blank in a part of what has nothing blank.
LEMMA Inside ==
  ASSUME NEW m \in Nat, NEW a \in Nat, NEW b \in Nat, NEW n \in Nat,
         m <= a, b <= n, ~Between(m, n, "blank")
  PROVE  ~Between(a, b, "blank")
BY DEF Between

(* A file with no more sections, and pairs in a block, than there is room  *)
(* for never makes process_index or values_index leave its array, and      *)
(* get_param's index leaves keys only in a section without an empty key.   *)
THEOREM IndicesStayInside == Spec => []InBounds
<1>1. IInv /\ Placed /\ Counted => InBounds
  <2> SUFFICES ASSUME IInv, Placed, Counted PROVE InBounds
    OBVIOUS
  <2>1. ASSUME reader = "done", NEW s \in Sections, NEW k \in Keys, get_param(s, k) = Overrun
        PROVE  \E m \in 1..Len(text) : Full(m)
    <3>1. Hits(s, k) # {}
      BY <2>1 DEF get_param, Missing, Overrun
    <3>2. PICK a \in Hits(s, k) :
            get_param(s, k) = IF a[2] > MaxValues THEN Overrun ELSE params[a[1]].values[a[2]]
      BY <3>1, Found
    <3>3. PICK i \in 1..Len(params), m \in 1..Len(text), t \in 1..Len(text) :
            /\ i = a[1] /\ From(i, m)
            /\ m <= t /\ text[t] = Title(s) /\ ~Between(m, t, "blank")
            /\ a[2] > MaxValues =>
                 \A j \in 1..MaxValues :
                   j <= Count(m) \/ (i = 1 /\ memory.keys[j] # Empty)
            /\ ~(a[2] > MaxValues) =>
                 \E n \in PairsFrom(m) :
                   \E w \in Readings(n) \ {Text, None} :
                     params[a[1]].values[a[2]] = Meaning(w)
      BY <2>1, HitPlace
    <3>4. a[2] > MaxValues
      <4>1. \A w : Meaning(w) # Overrun
        BY DEF Meaning, Overrun, Garbage
      <4> QED
        BY <2>1, <3>2, <3>3, <4>1
    <3>5. i = 1 => ~Between(1, m, "blank")
      BY <3>3, Inside DEF From, Begins
    <3>6. Full(m)
      BY <3>3, <3>4, <3>5 DEF Full, Count
    <3> QED
      BY <3>6
  <2> QED
    BY <2>1 DEF Counted, InBounds
<1> QED
  BY <1>1, CountedInv, PTL

-----------------------------------------------------------------------------
(* From any file at all, a value that get_param returns was read from a    *)
(* line that gives one to that key in a block with that title.             *)
THEOREM ValuesAreRead == Spec => []NothingMadeUp
<1>1. IInv /\ Placed => NothingMadeUp
  <2> SUFFICES ASSUME IInv, Placed, reader = "done", NEW s \in Sections, NEW k \in Keys,
                      get_param(s, k) \notin {Missing, Overrun}
               PROVE  \E n \in 1..Len(text) :
                        /\ text[n].kind = "pair" /\ text[n].key = k /\ With(n, s)
                        /\ \E w \in Readings(n) \ {Text, None} : get_param(s, k) = Meaning(w)
    BY DEF NothingMadeUp
  <2>1. Hits(s, k) # {}
    BY DEF get_param
  <2>2. PICK a \in Hits(s, k) :
          get_param(s, k) = IF a[2] > MaxValues THEN Overrun ELSE params[a[1]].values[a[2]]
    BY <2>1, Found
  <2>3. PICK m \in 1..Len(text), t \in 1..Len(text) :
          /\ m <= t /\ text[t] = Title(s) /\ ~Between(m, t, "blank")
          /\ ~(a[2] > MaxValues) =>
               \E n \in PairsFrom(m) : /\ text[n].key = k
                                       /\ \E w \in Readings(n) \ {Text, None} :
                                            params[a[1]].values[a[2]] = Meaning(w)
    BY HitPlace
  <2>4. PICK n \in PairsFrom(m) :
          /\ text[n].key = k
          /\ \E w \in Readings(n) \ {Text, None} : get_param(s, k) = Meaning(w)
    BY <2>2, <2>3
  <2>5. n \in 1..Len(text) /\ m <= n /\ text[n].kind = "pair" /\ ~Between(m, n, "blank")
    BY <2>4 DEF PairsFrom
  <2>6. ~Between(t, n, "blank") /\ ~Between(n, t, "blank")
    BY <2>3, <2>5, Inside
  <2> QED
    BY <2>3, <2>4, <2>5, <2>6 DEF With
<1> QED
  BY <1>1, PlacedInv, PTL

\* In a file that keeps the rules the title comes before the pairs, and is the
\* only one of its block.
LEMMA TitleFirst ==
  ASSUME IInv, WellFormed, NEW s \in Sections,
         NEW m \in 1..Len(text), NEW t \in 1..Len(text), m <= t,
         text[t] = Title(s), ~Between(m, t, "blank")
  PROVE  /\ PairsFrom(t) = PairsFrom(m)
         /\ \A n \in PairsFrom(m) : n \in 1..Len(text) /\ t < n /\ In(n, s)
         /\ LastTitle(m, t, s)
<1>1. Len(text) \in Nat /\ text[t].kind = "title"
  BY LineKinds DEF IInv, Shape
<1>2. ASSUME NEW n \in PairsFrom(m)
      PROVE  n \in 1..Len(text) /\ t < n /\ ~Between(t, n, "blank") /\ text[n].kind = "pair"
  <2>1. n \in 1..Len(text) /\ m <= n /\ text[n].kind = "pair" /\ ~Between(m, n, "blank")
    BY <1>1 DEF PairsFrom
  <2>2. ~(n < t)
    <3>1. ~Between(n, t, "blank")
      BY <2>1, Inside
    <3> QED
      BY <1>1, <2>1, <3>1 DEF WellFormed
  <2>3. n # t
    BY <1>1, <2>1
  <2>4. ~Between(t, n, "blank")
    BY <2>1, Inside
  <2> QED
    BY <2>1, <2>2, <2>3, <2>4
<1>3. PairsFrom(m) \subseteq PairsFrom(t)
  BY <1>2 DEF PairsFrom
<1>4. ASSUME NEW n \in PairsFrom(t) PROVE n \in PairsFrom(m)
  <2>1. n \in m..Len(text) /\ t <= n /\ text[n].kind = "pair" /\ ~Between(t, n, "blank")
    BY <1>1 DEF PairsFrom
  <2>2. ~Between(m, n, "blank")
    BY <2>1 DEF Between
  <2> QED
    BY <2>1, <2>2 DEF PairsFrom
<1>5. ASSUME NEW u \in (t + 1)..Len(text), text[u].kind = "title" PROVE Between(m, u, "blank")
  <2>1. Between(t, u, "blank")
    BY <1>1, <1>5 DEF WellFormed
  <2> QED
    BY <2>1, <1>1, Inside
<1>6. PairsFrom(t) = PairsFrom(m)
  BY <1>3, <1>4
<1>7. ASSUME NEW n \in PairsFrom(m) PROVE n \in 1..Len(text) /\ t < n /\ In(n, s)
  <2>1. n \in 1..Len(text) /\ t < n /\ ~Between(t, n, "blank")
    BY <1>2
  <2>2. t \in 1..(n - 1)
    BY <2>1, <1>1
  <2> QED
    BY <2>1, <2>2 DEF In
<1>8. LastTitle(m, t, s)
  BY <1>5 DEF LastTitle
<1> QED
  BY <1>6, <1>7, <1>8

(* From a file that keeps the rules, of any length, get_param returns what *)
(* the file gives, and finds it if the file gives it, unless the title has *)
(* no terminator or the section no empty key.                              *)
THEOREM WhatTheFileSays == Spec => []Faithful
<1>1. IInv /\ Placed => Faithful
  <2> SUFFICES ASSUME IInv, Placed, reader = "done", WellFormed,
                      NEW s \in Sections, NEW k \in Keys
               PROVE  \/ get_param(s, k) \in Declared(s, k)
                      \/ /\ get_param(s, k) = Missing
                         /\ Declared(s, k) = {} \/ (memory.title = "garbage" /\ First(s))
                      \/ /\ get_param(s, k) = Overrun
                         /\ \E m \in 1..Len(text) : text[m] = Title(s) /\ Full(m)
    BY DEF Faithful
  <2>1. CASE Hits(s, k) # {}
    <3>1. PICK a \in Hits(s, k) :
            get_param(s, k) = IF a[2] > MaxValues THEN Overrun ELSE params[a[1]].values[a[2]]
      BY <2>1, Found
    <3>2. PICK i \in 1..Len(params), m \in 1..Len(text), t \in 1..Len(text) :
            /\ i = a[1] /\ From(i, m)
            /\ m <= t /\ text[t] = Title(s) /\ ~Between(m, t, "blank")
            /\ a[2] > MaxValues =>
                 \A j \in 1..MaxValues :
                   j <= Count(m) \/ (i = 1 /\ memory.keys[j] # Empty)
            /\ ~(a[2] > MaxValues) =>
                 \E n \in PairsFrom(m) : /\ text[n].key = k
                                         /\ \E w \in Readings(n) \ {Text, None} :
                                              params[a[1]].values[a[2]] = Meaning(w)
      BY HitPlace
    <3>3. /\ PairsFrom(t) = PairsFrom(m)
          /\ \A n \in PairsFrom(m) : n \in 1..Len(text) /\ In(n, s)
      BY <3>2, TitleFirst
    <3>4. CASE a[2] > MaxValues
      <4>1. i = 1 => ~Between(1, t, "blank")
        BY <3>2 DEF From, Begins
      <4>2. Full(t)
        BY <3>2, <3>3, <3>4, <4>1 DEF Full, Count
      <4> QED
        BY <3>1, <3>2, <3>4, <4>2
    <3>5. CASE ~(a[2] > MaxValues)
      <4>1. PICK n \in PairsFrom(m) :
              /\ text[n].key = k
              /\ \E w \in Readings(n) : get_param(s, k) = Meaning(w)
        BY <3>1, <3>2, <3>5
      <4>2. n \in 1..Len(text) /\ In(n, s) /\ text[n].kind = "pair"
        BY <3>3, <4>1 DEF PairsFrom
      <4>3. get_param(s, k) = Meaning(text[n].value)
        BY <4>1 DEF Readings, WellFormed
      <4> QED
        BY <4>1, <4>2, <4>3 DEF Declared
    <3> QED
      BY <3>4, <3>5
  <2>2. CASE Hits(s, k) = {}
    <3>1. ASSUME NEW n \in 1..Len(text), text[n].kind = "pair", text[n].key = k, In(n, s)
          PROVE  memory.title = "garbage" /\ First(s)
      <4>1. PICK t \in 1..(n - 1) : text[t] = Title(s) /\ ~Between(t, n, "blank")
        BY <3>1 DEF In
      <4>2. PICK i \in 1..Len(params), m \in Nat : From(i, m) /\ n \in PairsFrom(m)
        BY <3>1 DEF Placed, Read
      <4>3. /\ m \in 1..(Len(text) + 1) /\ (m = 1 \/ text[m - 1] = Blank) /\ (i = 1 => m = 1)
            /\ m <= n /\ ~Between(m, n, "blank") /\ Len(text) \in Nat /\ t \in 1..Len(text)
        BY <4>1, <4>2 DEF From, Begins, PairsFrom, IInv, Shape
      <4>4. m <= t
        <5>1. SUFFICES ASSUME ~(m <= t) PROVE FALSE
          OBVIOUS
        <5>2. m - 1 \in t..n /\ text[m - 1].kind = "blank"
          BY <4>1, <4>3, <5>1 DEF Blank
        <5> QED
          BY <4>1, <5>2 DEF Between
      <4>5. ~Between(m, t, "blank")
        BY <4>1, <4>3, Inside
      <4>6. m \in 1..Len(text) /\ LastTitle(m, t, s)
        BY <4>1, <4>3, <4>4, <4>5, TitleFirst
      <4>7. Section(i).title = s \/ (i = 1 /\ memory.title = "garbage")
        BY <4>2, <4>3, <4>4, <4>6 DEF From, Titled, WellFormed
      <4>8. PICK j \in 1..MaxValues : j <= Count(m) /\ Carries(i, j, n)
        BY <4>2 DEF From, Holds
      <4>9. ASSUME NEW h \in 1..(j - 1) PROVE params[i].keys[h] # Empty
        <5>1. h \in 1..MaxValues /\ h <= Count(m)
          BY <4>3, <4>8, ConfigAssumption, Finite
        <5>2. PICK o \in PairsFrom(m) : Carries(i, h, o)
          BY <4>2, <5>1 DEF From, Holds
        <5>3. text[o] \in Lines /\ text[o].kind = "pair"
          BY <4>3, <5>2 DEF PairsFrom, IInv, Shape
        <5> QED
          BY <5>2, <5>3, LineKinds, Names, Places DEF Carries
      <4>10. params[i].title # s
        <5>1. SUFFICES ASSUME params[i].title = s PROVE <<i, j>> \in Hits(s, k)
          BY <2>2
        <5>2. params[i].keys[j] = k
          BY <3>1, <4>8, Places DEF Carries
        <5>3. j \in 1..(MaxValues + 1)
          BY <4>8, ConfigAssumption
        <5> QED
          BY <4>9, <5>1, <5>2, <5>3 DEF Hits
      <4>11. memory.title = "garbage" /\ m = 1
        BY <4>3, <4>7, <4>10, Places
      <4> QED
        BY <4>1, <4>3, <4>5, <4>11 DEF First
    <3>2. Declared(s, k) # {} => memory.title = "garbage" /\ First(s)
      BY <3>1 DEF Declared
    <3>3. get_param(s, k) = Missing
      BY <2>2 DEF get_param
    <3> QED
      BY <3>2, <3>3
  <2> QED
    BY <2>1, <2>2
<1> QED
  BY <1>1, PlacedInv, PTL
=============================================================================
