----------------------------- MODULE MCStores -----------------------------
(***************************************************************************)
(* Small instances of Stores: three directories, and files that may be     *)
(* missing, left by an earlier run, or damaged.                            *)
(***************************************************************************)
EXTENDS Stores

MCHome == <<"C:">>
MCDirs == {<<"C:">>, <<"C:", "a">>, <<"C:", "a", "b">>}

\* What an earlier run left, a full list of connections among it.
Earlier == [dir |-> <<"C:", "a">>, settings |-> <<1, HardCap>>,
            profiles |-> <<<<[name |-> "n", port |-> 22],
                             [name |-> "n", port |-> 21]>>, "seal">>,
            hosts |-> <<1, "e1", "k1">>]
\* No connections, a torn record, a directory that is gone, limits of no use.
Damaged == [dir |-> <<"C:", "gone">>, settings |-> <<0, HardCap + 1>>,
            profiles |-> <<>>,
            hosts |-> <<MaxHosts + 1, "e1", "k1", "e2">>]
MCFound == {Earlier, Damaged}

=============================================================================
