---------------------------- MODULE MCDataflash ----------------------------
(***************************************************************************)
(* A small data flash: the eight addresses of the two guard sequences, the *)
(* image of the first one a bank higher (address bits above A12 are not    *)
(* compared) and one address of neither sequence; commands addressed to    *)
(* two sectors.                                                            *)
(***************************************************************************)
EXTENDS DataflashSdp

Guard == {\h1823, \h1820, \h1822, \h0418, \h041B, \h0419, \h041A, \h040A}

MCReadAddr  == Guard \cup {\h3823, \h0500}
MCWriteAddr == {\h0418, \h1823}
MCVal       == {\h10, \h20, \h30, \hD0, \hFF}

=============================================================================
