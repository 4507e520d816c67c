------------------------------ MODULE MCRetry ------------------------------
(* A static feed answered in every way its transport can, HTML included. *)
EXTENDS Retry

FeedAnswers ==
    {Response(200, 0), Garbled, Response(404, 0), Response(400, 0), Response(422, 0),
     Response(429, 1), Response(503, 0), Response(503, 9), Response(500, 2),
     Failure("NetworkError"), Failure("InvalidRequest")}
=============================================================================
