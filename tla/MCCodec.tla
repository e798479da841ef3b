------------------------------- MODULE MCCodec -------------------------------
(***************************************************************************)
(* Instance of FrameCodec for TLC: header entries made of the symbols that *)
(* the format gives a meaning, alone and in pairs, and bodies that look    *)
(* like the end of a frame or the start of the next, before and after other *)
(* messages and heart-beats.                                               *)
(***************************************************************************)
EXTENDS FrameCodec

Special == {LF, CR, Colon, Backslash, "n", "c"}
Texts == {<<>>} \cup {<<x>> : x \in Special}
Pairs == {<<x, y>> : x \in Special, y \in Special}

Message(type, body, opts) == [type |-> type, body |-> body, opts |-> opts]
Own(n) == HeaderOption(ContentLength, <<n>>)

MCSends ==
    <<  {Message(<<>>, <<"x">>, <<HeaderOption(<<Backslash, "n">>, v)>>) : v \in Texts \cup Pairs}
        \cup {Message(<<Colon>>, <<>>, <<HeaderOption(k, <<CR>>)>>) : k \in Texts}
        \cup {Message(<<>>, b, o) :
                b \in {<<>>, <<LF, Null>>, <<Null, "SEND", LF>>, <<LF, LF>>},
                o \in { <<HeaderOption(Destination, <<"other">>), NoContentLength>>,
                        <<Own("0"), NilOption>>,
                        <<NoContentLength, Own("0")>>, <<NoContentLength, Own("3")>>,
                        <<HeaderOption(Receipt, <<"1">>), ReceiptOption(<<"2">>)>> } },
        {Message(<<>>, <<>>, <<>>), Message(<<>>, <<LF>>, <<NoContentLength>>)},
        {Message(<<>>, <<"x">>, <<>>)} >>

=============================================================================
