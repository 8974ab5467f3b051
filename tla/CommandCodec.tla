---------------------------- MODULE CommandCodec ----------------------------
(***************************************************************************)
(* What the client and the server write to each other, as pure operators:  *)
(* a typed line becomes a command and the text of its arguments, which the *)
(* server splits into words again; rows of host_stats become entries,      *)
(* which the client reads back.                                            *)
(*                                                                         *)
(* A text is a sequence of pieces: a verb, a host name, or a space.  Pieces*)
(* with no space between them read as one word, so a word is a sequence of *)
(* pieces, and a word as typed has one.                                    *)
(***************************************************************************)
EXTENDS Naturals, Sequences, SequencesExt

CONSTANTS Hosts,
          Space,     \* separators of extract_words
          Unset,     \* what a variable holds before it is first written
          NameSize,  \* hostname_len of each host
          Room       \* max_size: the bytes that serialised entries may fill

Verbs == {"hostname", "add", "list", "server", "start", "stop", "stats"}

Text == Seq(Verbs \cup Hosts \cup {Space})

ASSUME TextAssumption ==
  /\ Space \notin Hosts \cup Verbs /\ Hosts \cap Verbs = {} /\ Unset \notin Hosts

ASSUME SizeAssumption == NameSize \in [Hosts -> Nat] /\ Room \in Nat

-----------------------------------------------------------------------------
(* Lines and commands.                                                     *)

\* strtok: the runs between spaces, of which the last may be empty.
extract_words(str) ==
  LET runs[n \in 0..Len(str)] ==
        IF n = 0 THEN << <<>> >>
        ELSE LET before == runs[n - 1] IN
             IF str[n] # Space
             THEN Append(Front(before), Append(Last(before), str[n]))
             ELSE IF Last(before) = <<>> THEN before ELSE Append(before, <<>>)
      words == runs[Len(str)]
  IN  IF Last(words) = <<>> THEN Front(words) ELSE words

string_list_to_string_fused(list) == FlattenSeq(list)  \* variant: no separator

\* No separator after the last string.  No string of the list is empty.
string_list_to_string(list) ==
  FlattenSeq([i \in DOMAIN list |->
                IF i = Len(list) THEN list[i] ELSE Append(list[i], Space)])

Codes == {"start", "stop", "list", "add", "stats"}

Command(code, text) == [code |-> code, args |-> text]

\* No command can be built from the line.
None == Command("none", <<>>)

\* Words after those that make the command are taken for arguments by
\* `hostname add`, and ignored by the others.
words_to_cmd(words) ==
  LET Is(i, verb) == i <= Len(words) /\ words[i] = <<verb>> IN
  CASE Is(1, "hostname") /\ Is(2, "add") /\ Len(words) > 2 ->
         Command("add", string_list_to_string(SubSeq(words, 3, Len(words))))
    [] Is(1, "hostname") /\ Is(2, "list") -> Command("list", <<>>)
    [] Is(1, "server") /\ Is(2, "start")  -> Command("start", <<>>)
    [] Is(1, "server") /\ Is(2, "stop")   -> Command("stop", <<>>)
    [] Is(1, "stats")                     -> Command("stats", <<>>)
    [] OTHER                              -> None

build_cmd_from_str(line) == words_to_cmd(extract_words(line))

-----------------------------------------------------------------------------
(* Statistics.                                                             *)

\* A unit of an entry: a number, or a piece of a name.
Unit(n, piece) == [n |-> n, of |-> piece]

\* What is read past the end of an answer, and the total, which is not told
\* apart.
Other == Unit(0, Unset)

EntryLong(h) ==  \* variant: hostname_len counts the NUL
  <<Unit(NameSize[h] + 1, Unset)>> \o [k \in 1..(NameSize[h] + 1) |-> Unit(0, h)]
    \o <<Other>>

\* The length of the name, the name with its NUL, the total.
Entry(h) ==
  <<Unit(NameSize[h], Unset)>> \o [k \in 1..(NameSize[h] + 1) |-> Unit(0, h)]
    \o <<Other>>

Entries(rows) == FlattenSeq([i \in DOMAIN rows |-> Entry(rows[i])])

Size(rows) ==
  LET size[n \in 0..Len(rows)] ==
        IF n = 0 THEN 0 ELSE size[n - 1] + NameSize[rows[n]] + 3
  IN  size[Len(rows)]

\* serialize_sessions_in_cmd stops at the first entry that does not fit, and
\* counts the entries before it.
Serialized(rows) ==
  CHOOSE n \in 0..Len(rows) :
    /\ Size(SubSeq(rows, 1, n)) <= Room
    /\ n < Len(rows) => Size(SubSeq(rows, 1, n + 1)) > Room

\* The names of the entries, each found behind the one before it.
deserialize_sessions(raw) ==
  LET At(i) == IF i \in DOMAIN raw THEN raw[i] ELSE Other
      from[i \in Nat] ==
        IF i > Len(raw) THEN <<>>
        ELSE <<At(i + 1).of>> \o from[i + At(i).n + 3]
  IN  from[1]
=============================================================================
