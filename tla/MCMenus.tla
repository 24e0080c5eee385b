------------------------------- MODULE MCMenus -------------------------------
(***************************************************************************)
(* Several small instances of StreamLoadManager in one run of TLC: at the  *)
(* start a menu is chosen, the operations that the caller is going to ask  *)
(* for in any order.  A menu from the life of a transaction runs with the  *)
(* constants of the configuration; the others have a server or FEs that    *)
(* are harder to reach, and the constants that differ are given here.      *)
(***************************************************************************)
EXTENDS StreamLoadManager, TLC

VARIABLE menu

Chain == {"load", "prepare", "commit", "rollback"}

\* All but one of what may follow a begin.
ChainMenus == {({"begin"} \cup Chain) \ {k} : k \in Chain \ {"commit"}}

\* A V1 load, and a transaction that is left open or cancelled.
OpenMenu == {"v1", "begin", "cancel", "status"}

RefusedMenu == {"v1"}

\* Three FEs, of which one has a URL that join refuses.
Failing == INSTANCE StreamLoadManager
    WITH NumFEs <- 3, Usize <- 4, BadBase <- {2}

\* No header takes the label.
Refusing == INSTANCE StreamLoadManager
    WITH BadLabels <- Labels

MenuInit == Init /\ menu \in ChainMenus \cup {OpenMenu, RefusedMenu}

MenuNext ==
    /\ UNCHANGED menu
    /\ \/ menu \in ChainMenus /\ Next
       \/ menu = OpenMenu /\ Failing!Next
       \/ menu = RefusedMenu /\ Refusing!Next
    /\ \A c \in Callers : op'[c].kind \in menu \cup {"none"}

\* The server keeps the deadlines, as FairSpec of the manager assumes.
MenuSpec ==
    /\ MenuInit /\ [][MenuNext]_<<vars, menu>>
    /\ \A l \in Labels : WF_vars(PassDeadline(l))
=============================================================================
