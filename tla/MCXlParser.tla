----------------------------- MODULE MCXlParser -----------------------------
(* Tables of up to four cells; texts that are empty, that look like a block  *)
(* and that hold a 0; parsers of both kinds on both topics.                  *)
EXTENDS XlParser

MCParsers == << [kind |-> "current_parameters_table", topic |-> "params"],
                [kind |-> "all_deals_table", topic |-> "deals"],
                [kind |-> "current_parameters_table", topic |-> "deals"],
                [kind |-> "current_parameters_table", topic |-> "params"] >>
MCSizes == {<<1, 2>>, <<2, 1>>, <<2, 2>>, <<3, 1>>}
MCTexts == {<<>>, <<2, 0>>, <<65>>}
MCNumbers == {<<0, 0, 0, 0, 0, 0, 240, 63>>}
MCOthers == {<<6, 0, 2, 0, 5, 0>>}
=============================================================================
