------------------------------- MODULE Flags --------------------------------
(***************************************************************************)
(* Flags::DetectFlags (src/src/src/flags.cc), either overload: the         *)
(* arguments of the command line, without the program's name, are taken in *)
(* pairs of a flag and its value; Help prints the usage and ends the       *)
(* process.                                                                *)
(***************************************************************************)
EXTENDS Integers, Sequences

CONSTANTS
  Words,       \* what an argument may be
  Arguments    \* command lines

Flag == {"-project", "-name", "-path"}

ASSUME ArgumentsAssumption == Arguments \subseteq Seq(Words)

VARIABLES
  argv,
  arg,      \* i: the argument DetectFlags is at
  field,    \* project_name, peer_name and project_path, by their flags
  parsing   \* "scanning", "accepted", or "helped" and gone

flags_vars == <<argv, arg, field, parsing>>

Empty == ""

FlagsInit ==
  /\ argv \in Arguments
  /\ arg = 1 /\ parsing = "scanning"
  /\ field = [f \in Flag |-> Empty]

(* No arguments, -help or another word that is no flag, or no value left. *)
Help ==
  /\ parsing = "scanning" /\ parsing' = "helped"
  /\ \/ argv = <<>>
     \/ arg <= Len(argv) /\ (argv[arg] \in Flag => arg = Len(argv))
  /\ UNCHANGED <<argv, arg, field>>

(* Mutant: the value is looked at again, as a flag. *)
TakeFlagOnly ==
  /\ parsing = "scanning" /\ arg < Len(argv) /\ argv[arg] \in Flag
  /\ field' = [field EXCEPT ![argv[arg]] = argv[arg + 1]]
  /\ arg' = arg + 1
  /\ UNCHANGED <<argv, parsing>>

(* Mutant: the value is passed over twice. *)
TakeThree ==
  /\ parsing = "scanning" /\ arg < Len(argv) /\ argv[arg] \in Flag
  /\ field' = [field EXCEPT ![argv[arg]] = argv[arg + 1]]
  /\ arg' = arg + 3
  /\ UNCHANGED <<argv, parsing>>

(* Mutant: the loop does not move on. *)
TakeForever ==
  /\ parsing = "scanning" /\ arg < Len(argv) /\ argv[arg] \in Flag
  /\ field' = [field EXCEPT ![argv[arg]] = argv[arg + 1]]
  /\ UNCHANGED arg
  /\ UNCHANGED <<argv, parsing>>

(* argv[i++ + 1], whatever it is, and i++ of the loop. *)
TakeFlag ==
  /\ parsing = "scanning" /\ arg < Len(argv) /\ argv[arg] \in Flag
  /\ field' = [field EXCEPT ![argv[arg]] = argv[arg + 1]]
  /\ arg' = arg + 2
  /\ UNCHANGED <<argv, parsing>>

Accept ==
  /\ parsing = "scanning" /\ argv # <<>> /\ arg > Len(argv)
  /\ parsing' = "accepted"
  /\ UNCHANGED <<argv, arg, field>>

FlagsNext == Help \/ TakeFlag \/ Accept

(* The constructor waits for nothing. *)
FlagsSpec == FlagsInit /\ [][FlagsNext]_flags_vars /\ WF_flags_vars(FlagsNext)
------------------------------------------------------------------------------
(* The places of the flags, if the arguments are pairs. *)
FlagPlaces == {p \in 1..Len(argv) : p % 2 = 1}

InPairs ==
  /\ argv # <<>> /\ Len(argv) % 2 = 0
  /\ \A p \in FlagPlaces : argv[p] \in Flag

(* The value behind a flag's last place before the argument n, if any. *)
ValueBefore(f, n) ==
  \/ /\ field[f] = Empty
     /\ \A p \in FlagPlaces : p < n => argv[p] # f
  \/ \E p \in FlagPlaces :
       /\ p < n /\ argv[p] = f /\ field[f] = argv[p + 1]
       /\ \A q \in FlagPlaces : p < q /\ q < n => argv[q] # f

FlagsTypeOK ==
  /\ argv \in Arguments /\ arg \in 1..(Len(argv) + 1)
  /\ field \in [Flag -> Words \cup {Empty}]
  /\ parsing \in {"scanning", "accepted", "helped"}

(***************************************************************************)
(* What is accepted is a list of flags with a value behind each, even if   *)
(* that is a flag's name, and every field is what its last flag says; the  *)
(* process ends with the usage in all other cases and in no other.         *)
(***************************************************************************)
AcceptsPairs ==
  /\ parsing = "accepted" => InPairs /\ \A f \in Flag : ValueBefore(f, Len(argv) + 1)
  /\ parsing = "helped" => ~ InPairs

(* Every command line is accepted or helped. *)
Decides == <>(parsing # "scanning")
==============================================================================
