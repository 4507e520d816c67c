--------------------------- MODULE MCArchiveFetch ---------------------------
(* Threads that share one ArchiveClient, whose server is sometimes busy. *)
EXTENDS ArchiveFetch

IemAnswers == {Response(200, 0), Response(503, 4), Failure("NetworkError")}

WaitOneInterval == {2}
=============================================================================
