---------------------------- MODULE MCDuplicates ----------------------------
(* Three references and two targets over two instructions.                 *)
EXTENDS Duplicates

R(sigs) == [sigs |-> sigs, ignored |-> FALSE]
MCRefs == {R(<<"a", "b">>), R(<<"a", "a">>), R(<<"a", "b", "a">>), R(<<"b", "b", "a">>),
           R(<<"a", "a", "a", "b">>), R(<<"b">>), R(<< >>),
           [sigs |-> <<"a", "b", "a">>, ignored |-> TRUE]}
MCTgts == {R(<<"a", "b">>), R(<<"b", "b", "a">>), R(<<"a", "b", "b">>),
           R(<<"a", "a", "b", "b">>), R(<< >>)}
MCRefLists == [1..3 -> MCRefs]
MCTgtLists == [1..2 -> MCTgts]
=============================================================================
