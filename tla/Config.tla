-------------------------------- MODULE Config --------------------------------
(***************************************************************************)
(* The configuration file and its reader, read_parameter_file and          *)
(* get_param, on every file of at most MaxLines lines: the lines are chosen*)
(* as they are read.                                                       *)
(*                                                                         *)
(* A line is blank, a comment, a title, or a pair.  Names fit their arrays,*)
(* and the two titles in use, drone and input, have the same length, so    *)
(* that strncpy of one over the other leaves no tail.  A value is a number,*)
(* written in digits, Text (it has a character other than a digit or a     *)
(* point), Points (points only: sscanf converts nothing), or None (nothing *)
(* follows '=').                                                           *)
(*                                                                         *)
(* The last character of a line is dropped.  It is the newline, except that*)
(* the last line of a file may have none; a line of one character is then a*)
(* blank one.                                                              *)
(*                                                                         *)
(* The struct aux is not initialised.  What it held before spells no name: *)
(* where it is not empty it is "garbage".                                  *)
(***************************************************************************)
EXTENDS Integers, Sequences, FiniteSets

CONSTANTS
  Sections, Keys, Numbers,
  MaxLines,     \* lines of the files considered
  MaxSections,  \* MAX_PROCESSES
  MaxValues     \* MAX_VALUES_FOR_PROCESS

Empty == ""  \* the string of a zeroed title or key

ASSUME ConfigAssumption ==
  /\ Numbers \subseteq Nat
  /\ MaxLines \in Nat /\ MaxSections \in Nat \ {0} /\ MaxValues \in Nat \ {0}
  /\ "garbage" \notin Sections \cup Keys /\ Empty \notin Sections \cup Keys

Text == -1
Points == -2
None == -3
Garbage == -4  \* what nothing has been assigned to
Missing == -5  \* get_param finds no value: it logs and exits
Overrun == -6  \* get_param reads beyond keys: what comes of it is undefined

VARIABLES
  text,    \* the lines read so far
  cut,     \* the last of them had no newline
  memory,  \* what there was in aux when the reader started
  aux,     \* the section being read
  index,   \* values_index
  params,  \* the sections stored
  reader   \* "reading", "done", or how it failed

vars == <<text, cut, memory, aux, index, params, reader>>

Blank == [kind |-> "blank"]
Comment == [kind |-> "comment"]
Title(s) == [kind |-> "title", section |-> s]
Pair(k, v) == [kind |-> "pair", key |-> k, value |-> v]

Lines == {Blank, Comment} \cup {Title(s) : s \in Sections}
         \cup {Pair(k, v) : k \in Keys, v \in Numbers \cup {Text, Points, None}}

\* struct kv.  memset leaves an empty title and empty keys.
Zero == [title |-> Empty, keys |-> [j \in 1..MaxValues |-> Empty],
         values |-> [j \in 1..MaxValues |-> 0]]

\* A title put over the first of these has a terminator, over the other none.
Leftovers ==
  [title : {Empty, "garbage"}, keys : [1..MaxValues -> {Empty, "garbage"}],
   values : [1..MaxValues -> {Garbage}]]

Init ==
  /\ text = <<>>
  /\ cut = FALSE
  /\ memory \in Leftovers
  /\ aux = memory
  /\ index = 0
  /\ params = <<>>
  /\ reader = "reading"

-----------------------------------------------------------------------------
(* read_parameter_file *)

\* params[process_index++] = aux, and the memsets.
StoreAs(next, from, then) ==
  /\ IF Len(params) = MaxSections
     THEN reader' = "overflow" /\ UNCHANGED params
     ELSE reader' = then /\ params' = Append(params, aux)
  /\ aux' = next
  /\ index' = from

KeysStay(then) == StoreAs([aux EXCEPT !.title = Empty], 0, then)  \* mutant: a memset less
IndexStays(then) == StoreAs(Zero, index, then)  \* mutant: values_index not reset

Store(then) == StoreAs(Zero, 0, then)

\* strncpy of the title without its brackets and without a terminator: what
\* it gives depends on what was there.  A cut title loses a letter.
Entitle(s) ==
  /\ aux' = [aux EXCEPT !.title =
               IF @ = "garbage" \/ (cut' /\ @ # s) THEN "garbage" ELSE s]
  /\ UNCHANGED <<index, params, reader>>

\* What may be left of a value whose last character is dropped: of Text, a
\* number if the last character was the only one that is no digit.
Left(v) ==
  CASE v \in Numbers -> {IF v < 10 THEN None ELSE v \div 10}
    [] v = Text -> {Text, Points, None} \cup Numbers
    [] v = Points -> {Points, None}
    [] v = None -> {None}

Fails(how) == reader' = how /\ UNCHANGED <<aux, index, params>>

\* A key and a value.  sscanf of points leaves aux_value as it was.
AssignUnless(bad, k, v, next) ==
  \/ index = MaxValues /\ Fails("overflow")
  \/ index < MaxValues /\ v = None /\ Fails("crashed")
  \/ index < MaxValues /\ v \in bad /\ Fails("logged")
  \/ /\ index < MaxValues /\ v \notin bad \cup {None}
     /\ aux' = [aux EXCEPT !.keys[index + 1] = k,
                  !.values[index + 1] = IF v \in Nat THEN v ELSE Garbage]
     /\ index' = next
     /\ UNCHANGED <<params, reader>>

AssignUnchecked(k, v) == AssignUnless({}, k, v, index + 1)  \* mutant: no isdigit
AssignTwice(k, v) == AssignUnless({Text}, k, v, index + 2)  \* mutant: ++ twice

Assign(k, v) == AssignUnless({Text}, k, v, index + 1)

\* One turn of the loop: a line l, the last one of the file if it is cut.
ReadLine(l) ==
  /\ reader = "reading" /\ ~cut /\ Len(text) < MaxLines
  /\ cut' \in IF l = Blank THEN {FALSE} ELSE BOOLEAN
  /\ text' = Append(text, l)
  /\ UNCHANGED memory
  /\ \/ l = Blank /\ Store("reading")
     \/ l = Comment /\ UNCHANGED <<aux, index, params, reader>>
     \/ l.kind = "title" /\ Entitle(l.section)
     \/ /\ l.kind = "pair"
        /\ \E v \in IF cut' THEN Left(l.value) ELSE {l.value} : Assign(l.key, v)

EndOfFile ==
  /\ reader = "reading"
  /\ Store("done")
  /\ UNCHANGED <<text, cut, memory>>

Next == EndOfFile \/ \E l \in Lines : ReadLine(l)

Spec == Init /\ [][Next]_vars

-----------------------------------------------------------------------------
(* get_param *)

\* The places where its loops stop in the section s: at the key k, or beyond
\* the last key, since an empty key alone ends the loop over keys.
Hits(s, k) ==
  {a \in (1..Len(params)) \X (1..(MaxValues + 1)) :
     /\ params[a[1]].title = s
     /\ \A h \in 1..(a[2] - 1) : params[a[1]].keys[h] # Empty
     /\ a[2] <= MaxValues => params[a[1]].keys[a[2]] = k}

Before(a, b) == a[1] < b[1] \/ (a[1] = b[1] /\ a[2] <= b[2])

get_param(s, k) ==
  IF Hits(s, k) = {} THEN Missing
  ELSE LET first == CHOOSE a \in Hits(s, k) : \A b \in Hits(s, k) : Before(a, b)
       IN IF first[2] > MaxValues THEN Overrun ELSE params[first[1]].values[first[2]]

-----------------------------------------------------------------------------
(* What a file says, by the rules in the file shipped with the program. *)

Between(m, n, kind) == \E j \in m..n : text[j].kind = kind

\* The line n is in the section s.
In(n, s) == \E m \in 1..(n - 1) : text[m] = Title(s) /\ ~Between(m, n, "blank")

\* Titles and blank lines delimit sections: a block has one title, first.
WellFormed ==
  /\ ~cut
  /\ \A m, n \in 1..Len(text) :
       m < n /\ text[n].kind = "title" /\ text[m].kind \in {"title", "pair"}
         => Between(m, n, "blank")
  /\ \A n \in 1..Len(text) :
       text[n].kind = "pair" => \E s \in Sections : In(n, s)

Meaning(v) == IF v \in Nat THEN v ELSE Garbage

Declared(s, k) ==
  {Meaning(text[n].value) : n \in {m \in 1..Len(text) :
     text[m].kind = "pair" /\ text[m].key = k /\ In(m, s)}}

\* What the value of line n, a pair, may have been read as.
Readings(n) == IF cut /\ n = Len(text) THEN Left(text[n].value) ELSE {text[n].value}

\* The line n is in a block that has the title s, before it or after it.
With(n, s) ==
  \E m \in 1..Len(text) :
    text[m] = Title(s) /\ ~Between(m, n, "blank") /\ ~Between(n, m, "blank")

\* The first block of the file is the section s.
First(s) == \E n \in 1..Len(text) : text[n] = Title(s) /\ ~Between(1, n, "blank")

\* The pairs of the block that line m is in, from there on.
PairsFrom(m) ==
  {n \in m..Len(text) : text[n].kind = "pair" /\ ~Between(m, n, "blank")}

\* The block that line m is in leaves no empty key in its section.
Full(m) ==
  \A j \in 1..MaxValues : \/ j <= Cardinality(PairsFrom(m))
                          \/ ~Between(1, m, "blank") /\ memory.keys[j] # Empty

Fits ==
  /\ Cardinality({n \in 1..Len(text) : text[n] = Blank}) < MaxSections
  /\ \A m \in 1..Len(text) : Cardinality(PairsFrom(m)) <= MaxValues

-----------------------------------------------------------------------------
Types(sect) ==
  /\ sect.title \in Sections \cup {Empty, "garbage"}
  /\ \A j \in 1..MaxValues : /\ sect.keys[j] \in Keys \cup {Empty, "garbage"}
                             /\ sect.values[j] \in Nat \cup {Garbage}

\* The types, and what values_index counts: the keys that come from the file.
TypeOK ==
  /\ Len(text) <= MaxLines
  /\ \A n \in 1..Len(text) : text[n] \in Lines
  /\ cut \in BOOLEAN /\ memory \in Leftovers
  /\ index \in 0..MaxValues
  /\ \A j \in 1..MaxValues : aux.keys[j] \in Keys <=> j <= index
  /\ Len(params) <= MaxSections
  /\ Types(aux) /\ \A n \in 1..Len(params) : Types(params[n])
  /\ reader \in {"reading", "done", "logged", "crashed", "overflow"}

(***************************************************************************)
(* The value get_param returns from a file that keeps the rules is one that*)
(* the file gives to that key in that section, and it is found if there is *)
(* one, with two exceptions.  The first section may go unrecognised, if its*)
(* title got no terminator; and get_param may run beyond the keys of a     *)
(* section in which no key is empty.                                       *)
(***************************************************************************)
Faithful ==
  reader = "done" /\ WellFormed =>
    \A s \in Sections, k \in Keys :
      LET v == get_param(s, k) IN
      \/ v \in Declared(s, k)
      \/ v = Missing /\ (Declared(s, k) = {} \/ (memory.title = "garbage" /\ First(s)))
      \/ v = Overrun /\ \E m \in 1..Len(text) : text[m] = Title(s) /\ Full(m)

(***************************************************************************)
(* The unchecked indices.  A file with no more sections, and pairs in a    *)
(* block, than there is room for never makes the reader's two leave their  *)
(* arrays, and get_param's stays in keys if every section keeps an empty   *)
(* one: fewer pairs than there is room for do not suffice in the first, the*)
(* rest of which is what was in memory.                                    *)
(***************************************************************************)
InBounds ==
  /\ Fits => reader # "overflow"
  /\ reader = "done" /\ (\A m \in 1..Len(text) : ~Full(m)) =>
       \A s \in Sections, k \in Keys : get_param(s, k) # Overrun

(***************************************************************************)
(* Whatever is wrong with a file, a value that get_param returns was read  *)
(* from a line that gives one to that key, in a block with that title, and *)
(* is the number that was read there: it is indeterminate only for a value *)
(* of points.  A reading may differ from what the line says: the last line *)
(* may have lost a character that is no newline.                           *)
(***************************************************************************)
NothingMadeUp ==
  reader = "done" =>
    \A s \in Sections, k \in Keys :
      LET v == get_param(s, k) IN
      v \in {Missing, Overrun} \/
        \E n \in 1..Len(text) :
          /\ text[n].kind = "pair" /\ text[n].key = k /\ With(n, s)
          /\ \E w \in Readings(n) \ {Text, None} : v = Meaning(w)

(***************************************************************************)
(* What the configuration file promises, and the code does not keep: an    *)
(* error in it ends the process at once, with a line in the log.           *)
(***************************************************************************)
ErrorsLogged ==
  (\E n \in 1..Len(text) : text[n].kind = "pair" /\ text[n].value \notin Nat)
    => reader = "logged"
=============================================================================
