----------------------------- MODULE MCDownload -----------------------------
(* A directory a with a file f, a directory d that holds another file f    *)
(* and an empty directory e, and a file that is copied from elsewhere.     *)
EXTENDS Download

AF == <<"a", "f">>
AD == <<"a", "d">>
ADF == <<"a", "d", "f">>
ADE == <<"a", "d", "e">>
G == <<"g">>
Bad == <<"%">>

MCTree == [p \in {<<"a">>, AD, ADE} |-> Dir] @@ [p \in {AF, ADF, G} |-> FileIn(p)]
MCSize == AF :> 3 @@ ADF :> 1 @@ G :> 0

MCCopied == {<<AF, AD>>, <<AD, AF>>, <<<<"a">>>>, <<AF, G>>, <<G, AF, AF>>,
             <<AF, Bad, AD>>}

MCUndecodable == {Bad}
MCLong == {<<"a", "d", "e", "n">>}
MCNew == {<<"a", "d", "n">>, <<"a", "d", "e", "n">>, AF}
=============================================================================
