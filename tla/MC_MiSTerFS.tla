------------------------------ MODULE MC_MiSTerFS ------------------------------
(* Small instances of MiSTerFS: what a program does with a file, directory   *)
(* searches one inside the other, and programs that come and go.             *)
EXTENDS MiSTerFS, TLC

OnDrive == [op : {"OPEN", "CREATE"}, drive : {"E"}, path : {"plain"}, mode : {2}]
Reads == [op : {"READFIL"}, cx : {0, 1, 5}]
Writes == {[op |-> "WRITEFIL", cx |-> Len(d), data |-> d] : d \in {<<7>>, <<7, 8, 9>>}}
Files == [calls |-> OnDrive \cup Reads \cup Writes \cup {[op |-> "CLSFIL"]},
          file |-> <<1, 2, 3>>, entries |-> <<>>, seeks |-> {0, 1, 3}, programs |-> FALSE, drive |-> "E"]

Modes == [calls |-> [op : Opens, drive : {"E", "F", "A"}, path : {"plain", "wild", "short"}, mode : {0, 1}]
                    \cup [op : {"READFIL"}, cx : {2}] \cup {[op |-> "WRITEFIL", cx |-> 2, data |-> <<8, 9>>]}
                    \cup [op : {"CLSFIL", "CMMTFIL", "UNLOCKFIL", "SKFMEND", "UNKNOWN_2D"}]
                    \cup [op : {"LOCKFIL"}, bl : {0, 1, 2}, cx : {1, 200}],
          file |-> <<1, 2, 3>>, entries |-> <<>>, seeks |-> {}, programs |-> FALSE, drive |-> "E"]

Names == [calls |-> [op : {"RMDIR", "MKDIR", "CHDIR", "SETATTR", "GETATTR", "DELETE"},
                     drive : {"E", "F"}, path : {"plain", "short", "current"}]
                    \cup [op : {"RENAME"}, drive : {"E"}, drive2 : {"E", "F"}, path : {"plain", "short"},
                          path2 : {"plain", "wild"}]
                    \cup [op : {"DISKSPACE"}, drive : {"E", "A"}],
          file |-> <<>>, entries |-> <<>>, seeks |-> {}, programs |-> FALSE, drive |-> "E"]

Searches == [calls |-> [op : {"FINDFIRST"}, drive : {"E"}, search : {"outer"}, tmpl : {"*"}]
                       \cup [op : {"FINDFIRST"}, drive : {"E"}, search : {"inner"}, tmpl : {"b"}]
                       \cup [op : {"FINDNEXT"}, search : Search],
             file |-> <<>>, entries |-> ("*" :> <<"a", "b", "c">> @@ "b" :> <<"b">>), seeks |-> {}, programs |-> FALSE, drive |-> "E"]

Programs == [calls |-> [op : {"CHDIR"}, drive : {"E"}, path : {"plain"}],
             file |-> <<>>, entries |-> <<>>, seeks |-> {}, programs |-> TRUE, drive |-> "none"]

AllTasks == {Files, Modes, Names, Searches, Programs}
=============================================================================
