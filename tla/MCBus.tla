------------------------------- MODULE MCBus -------------------------------
(***************************************************************************)
(* A small bus: the guard addresses in the window of slot 4 and one of     *)
(* them in slot 8 and in RAM; code in the code flash, in RAM and in        *)
(* slot 4; the data flash, RAM and the modem in the windows, with the      *)
(* first and a high page.                                                  *)
(***************************************************************************)
EXTENDS BusHistory

MCCode     == {\h0038, \h5820, \h5823}
MCLoads    == {\h5823, \h5820, \h5822, \h4418, \h441B, \h4419, \h441A, \h440A, \h841B}
MCStores   == {\h4418, \h8418, \hC418}
MCVal      == {\h10}
MCSettings == {<<SLOT4_DEV, \hF3>>, <<SLOT4_PAGE, 7>>,
               <<SLOT8_DEV, \hF3>>, <<SLOT8_DEV, \hF1>>, <<SLOT8_DEV, \hF5>>}
MCFiller   == {0}
MCProbes   == {\h4418, \hC418}
MCStacks   == {\hBFFF}

=============================================================================
