------------------------------- MODULE MCPaging --------------------------------
(* A small instance of Paging for TLC: directories of one page, of two full   *)
(* ones and of two and a half, one with a directory and a link among them.    *)
EXTENDS Paging

MCStyles == {"local", "webdav", "baidu", "index"}
MCDirs == {3}
MCLinks == {5}
MCFirst == {[d \in {0, 3} |-> IF d = 0 THEN root ELSE <<7, 8>>] :
             root \in {<<2>>, <<1, 3, 5, 6>>, <<1, 2, 3, 4, 6>>}}
===============================================================================
