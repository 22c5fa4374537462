-------------------------- MODULE MCBusinessState --------------------------
(* Two peers, two items, and attributes with every character that the file *)
(* format gives a meaning.                                                 *)
EXTENDS BusinessState

MCChars   == {Backslash, Tab, Newline, Return, "t", "n", "r", "V", "1", "CATALOG", "RECORD",
              "p", "q", "d", "e"}
MCPeerIds == <<<<"p">>, <<"q">>>>
MCDevices == {<<"d">>, <<"e">>}
MCValues  == {<<>>, <<Newline, "n">>, <<Backslash, "t">>, <<Tab, Return>>}

MCItem(id, endTime, parental) == [id |-> id, endTime |-> endTime, parental |-> parental]

MCLists ==
  {<<MCItem(<<"d">>, <<Newline, "n">>, <<Backslash, "t">>)>>,
   <<MCItem(<<"d">>, <<Backslash, "t">>, <<Tab, Return>>)>>,
   <<MCItem(<<"e">>, <<>>, <<Newline, "n">>), MCItem(<<"d">>, <<Tab, Return>>, <<>>)>>}
=============================================================================
