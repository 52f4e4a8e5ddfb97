--------------------------------- MODULE Parts ---------------------------------
(***************************************************************************)
(* Four parts of the kernel that share no state, side by side so that one  *)
(* run checks them; a behaviour is one of a single part.  The kernel is    *)
(* built with one of the two memory managers (MM_TYPE in Kernel/Makefile). *)
(***************************************************************************)
EXTENDS BitmapMemory, BuddyMemory, LinkedList, Console

VARIABLE part       \* never changes

partsVars == << part, bitmapVars, buddyVars, listVars, consoleVars >>

PartsInit ==
    /\ part \in {"bitmap", "buddy", "list", "console"}
    /\ Init /\ BuddyInit /\ ListInit /\ ConsoleInit

BitmapRuns ==
    part = "bitmap" /\ Next /\ UNCHANGED << part, buddyVars, listVars, consoleVars >>

BuddyRuns ==
    part = "buddy" /\ BuddyNext /\ UNCHANGED << part, bitmapVars, listVars, consoleVars >>

ListRuns ==
    part = "list" /\ ListNext /\ UNCHANGED << part, bitmapVars, buddyVars, consoleVars >>

ConsoleRuns ==
    part = "console" /\ ConsoleNext /\ UNCHANGED << part, bitmapVars, buddyVars, listVars >>

PartsNext == BitmapRuns \/ BuddyRuns \/ ListRuns \/ ConsoleRuns

PartsSpec == PartsInit /\ [][PartsNext]_partsVars

=============================================================================
