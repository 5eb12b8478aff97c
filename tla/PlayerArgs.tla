------------------------------ MODULE PlayerArgs ------------------------------
(***************************************************************************)
(* The command line of the player, main's loop over argv (player/main.cpp).*)
(* An argument is the string itself; of the strings that are values only   *)
(* those listed below are distinguished.                                   *)
(***************************************************************************)
EXTENDS Integers, Sequences

CONSTANTS Arguments,     \* what may be on the command line
          MaxArguments   \* bound: how many of them

FileOptions == {"-f", "--file"}
WidthOptions == {"-w", "--width"}
HeightOptions == {"-h", "--height"}

ASSUME ArgumentsAssumption == MaxArguments \in Nat

\* Strings of digits: the empty one, two widths, and one above the range of int.
Digits == {"", "640", "480", "4294967296"}
is_integer(tested_integer) == tested_integer \in Digits

\* std::stoi of a string of digits, where it does not throw.
Converts(digits) == digits \in {"640", "480"}
stoi(digits) == IF digits = "640" THEN 640 ELSE 480

VARIABLES
  argv,       \* without the program's name
  i,          \* the argument the loop is at
  file_path, window_width, window_height,
  outcome     \* "parsing", "play", "help" (0), "usage" (1) or "throws"

vars == <<argv, i, file_path, window_width, window_height, outcome>>

Init ==
  /\ argv \in UNION {[1..n -> Arguments] : n \in 0..MaxArguments}
  /\ i = 1
  /\ file_path = "" /\ window_width = 1280 /\ window_height = 720
  /\ outcome = "parsing"

AtArgument == outcome = "parsing" /\ i <= Len(argv)

Return(result) == outcome' = result /\ UNCHANGED <<argv, i, file_path, window_width, window_height>>

Help == AtArgument /\ argv[i] = "--help" /\ Return("help")

HasValue(k) == k + 1 <= Len(argv)

MissingValue ==
  /\ AtArgument /\ argv[i] \in FileOptions \union WidthOptions \union HeightOptions
  /\ ~HasValue(i)
  /\ Return("usage")

File ==
  /\ AtArgument /\ argv[i] \in FileOptions /\ HasValue(i)
  /\ file_path' = argv[i + 1]
  /\ i' = i + 2
  /\ UNCHANGED <<argv, window_width, window_height, outcome>>

NotInteger ==
  /\ AtArgument /\ argv[i] \in WidthOptions \union HeightOptions /\ HasValue(i)
  /\ ~is_integer(argv[i + 1])
  /\ Return("usage")

Throws ==
  /\ AtArgument /\ argv[i] \in WidthOptions \union HeightOptions /\ HasValue(i)
  /\ is_integer(argv[i + 1]) /\ ~Converts(argv[i + 1])
  /\ Return("throws")

\* Variant: either option sets the width.
SizeOfWidth ==
  /\ AtArgument /\ HasValue(i) /\ Converts(argv[i + 1])
  /\ argv[i] \in WidthOptions \union HeightOptions
  /\ window_width' = stoi(argv[i + 1])
  /\ i' = i + 2
  /\ UNCHANGED <<argv, window_height, file_path, outcome>>

Size ==
  /\ AtArgument /\ HasValue(i) /\ Converts(argv[i + 1])
  /\ \/ argv[i] \in WidthOptions /\ window_width' = stoi(argv[i + 1]) /\ UNCHANGED window_height
     \/ argv[i] \in HeightOptions /\ window_height' = stoi(argv[i + 1]) /\ UNCHANGED window_width
  /\ i' = i + 2
  /\ UNCHANGED <<argv, file_path, outcome>>

Invalid ==
  /\ AtArgument
  /\ argv[i] \notin {"--help"} \union FileOptions \union WidthOptions \union HeightOptions
  /\ Return("usage")

Finish ==
  /\ outcome = "parsing" /\ i > Len(argv)
  /\ Return(IF file_path = "" THEN "usage" ELSE "play")

Next == Help \/ MissingValue \/ File \/ NotInteger \/ Throws \/ Size \/ Invalid \/ Finish

Spec == Init /\ [][Next]_vars

(***************************************************************************)
(* What the command line means, read in pairs of an option and its value.  *)
(***************************************************************************)
Pairs == {k \in DOMAIN argv : k % 2 = 1}
LastOf(options) == {k \in Pairs : argv[k] \in options /\ \A l \in Pairs : l > k => argv[l] \notin options}

Good(k) ==
  /\ k + 1 \in DOMAIN argv
  /\ \/ argv[k] \in FileOptions
     \/ argv[k] \in WidthOptions \union HeightOptions /\ argv[k + 1] \in {"640", "480"}

Proper ==
  /\ \A k \in Pairs : Good(k)
  /\ \E k \in LastOf(FileOptions) : argv[k + 1] # ""

\* The player starts exactly when every argument at an odd place is an option
\* followed by a proper value and the last file named is not empty; then each
\* setting is that of the last option that sets it, or its default.
PlaysWhatItSays ==
  /\ outcome # "parsing" => (outcome = "play" <=> Proper)
  /\ outcome = "play" =>
       /\ \A k \in LastOf(FileOptions) : file_path = argv[k + 1]
       /\ \A k \in LastOf(WidthOptions) : window_width = stoi(argv[k + 1])
       /\ \A k \in LastOf(HeightOptions) : window_height = stoi(argv[k + 1])
       /\ LastOf(WidthOptions) = {} => window_width = 1280
       /\ LastOf(HeightOptions) = {} => window_height = 720

(***************************************************************************)
(* The inductive invariant.                                                *)
(***************************************************************************)
\* Types of the state variables; the loop is always at the first of a pair, or
\* at the end.
TypeOK ==
  /\ argv \in Seq(Arguments)
  /\ i \in Pairs \/ i = Len(argv) + 1
  /\ outcome \in {"parsing", "play", "help", "usage", "throws"}

\* The last of the pairs before i that has one of these options.
LastBefore(k, options) ==
  /\ k \in Pairs /\ k < i /\ argv[k] \in options
  /\ \A l \in Pairs : k < l /\ l < i => argv[l] \notin options
NoneBefore(options) == \A k \in Pairs : k < i => argv[k] \notin options

\* Up to where the loop is, every pair was good and set what it says.
ParsedSoFar ==
  /\ \A k \in Pairs : k < i => Good(k)
  /\ \/ NoneBefore(FileOptions) /\ file_path = ""
     \/ \E k \in Pairs : LastBefore(k, FileOptions) /\ file_path = argv[k + 1]
  /\ \/ NoneBefore(WidthOptions) /\ window_width = 1280
     \/ \E k \in Pairs : LastBefore(k, WidthOptions) /\ window_width = stoi(argv[k + 1])
  /\ \/ NoneBefore(HeightOptions) /\ window_height = 720
     \/ \E k \in Pairs : LastBefore(k, HeightOptions) /\ window_height = stoi(argv[k + 1])

ArgumentsInv == TypeOK /\ (outcome = "parsing" => ParsedSoFar) /\ PlaysWhatItSays
==============================================================================
