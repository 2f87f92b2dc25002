------------------------- MODULE MCStatementChecks -------------------------
(* StatementChecks with small profiles, three issuers and two amounts, one within the *)
(* minor tolerance and one beyond it.                                                  *)
EXTENDS StatementChecks

Chosen == <<"chosen", "plain">>
Upper == <<"NAME4_DDMM", "upper">>

MCProfiles ==
  [name : NameForm, dob : Dob, card : {TRUE}, pan : BOOLEAN, custom : {None, Chosen, Upper}]
MCSecrets == {Chosen, Upper, <<"PAN_DOB", "lower">>}
MCPreferred == {None, "CUSTOM", "PAN_DOB", "NAME4_DDMM"}
MCFindings == {Figures, Figures \ {"opening"}, {"opening", "closing"}, {"withdrawals"}}
MCCardSheets ==
  [institution : {"SCAPIA", "OTHER"}, previous : {None, 2}, purchases : {None, 0, 9},
   payments : {None, -2, 2}, fees : {None, 1}, due : {None, 0, 9, 10}]
=============================================================================
