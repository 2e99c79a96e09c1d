------------------------------ MODULE MCDelivery ------------------------------
(* One transfer over two connections from one address: a folder of two      *)
(* files of which one is hidden, the one that is not chosen twice, or the   *)
(* folder's parent, in whose archive its path is too long; another caller   *)
(* of the identity.                                                         *)
EXTENDS Delivery

CONSTANTS c1, c2, p1

MCPeerOf == [c \in Conns |-> p1]

MCNodes == {"parent", "folder", "inner", "hidden"}
MCName == [n \in MCNodes |-> n]
MCChildren == [n \in MCNodes |-> CASE n = "parent" -> <<"folder">>
                                   [] n = "folder" -> <<"hidden", "inner">>
                                   [] OTHER -> <<>>]
MCSelections == {<<"folder">>, <<"parent">>, <<"inner", "inner">>}
MCLongPaths == {<<"parent", "folder">>}
=============================================================================
