------------------------------ MODULE MCDataPath ------------------------------
(***************************************************************************)
(* An instance of DataPath for TLC: a client that writes two frames of     *)
(* stream 1 while others end and answer, with headers of one byte.         *)
(***************************************************************************)
EXTENDS DataPath

Frame(cmd, sid, data) == [cmd |-> cmd, sid |-> sid, data |-> data]

MCWriters == {"recvLoop"}
MCReaders == {"owner"}
MCWrites == {<< 1 >>, << 4 >>, << 1, 2, 3 >>}
MCHeld == << Frame("SYN", 1, << >>) >>

MCSenders == {"user", "closer", "answer"}

\* Two writes and the end of the stream, each anywhere; a heartbeat answered while
\* the stream is written and ended; the least that is written, for the deadlines.
TwoWrites == [user   |-> << Frame("PSH", 1, << 1, 2, 3 >>), Frame("PSH", 1, << 4 >>) >>,
              closer |-> << Frame("FIN", 1, << >>) >>,
              answer |-> << >>]
Answering == [user   |-> << Frame("PSH", 1, << 1 >>) >>,
              closer |-> << Frame("FIN", 1, << >>) >>,
              answer |-> << Frame("HeartResponse", 0, << >>) >>]
OneWrite  == [user   |-> << Frame("PSH", 1, << 1 >>) >>,
              closer |-> << >>,
              answer |-> << >>]
MCWork == {TwoWrites, Answering, OneWrite}
MCWorkloads == {<< TwoWrites, 0 >>, << Answering, 0 >>, << OneWrite, 3 >>}

\* The first write is cut and padded, with a check mark; the second only padded, as
\* a range of nothing is left out; what is said of the stop itself is not used.  Or
\* padding is over already.
MCSchemes == {[stop  |-> 3,
               sizes |-> << << << 3, 3 >>, << >>, << 5, 2 >> >>,
                            << << 0, 2 >>, << 4, 4 >> >>,
                            << << 4, 4 >> >> >>],
              [stop  |-> 1, sizes |-> << >>]}
=============================================================================
