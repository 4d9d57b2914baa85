-------------------------------- MODULE MCHttp --------------------------------
(* A small instance of HttpConnection for TLC: what a patient client and a    *)
(* hasty one send.                                                            *)
EXTENDS HttpConnection

MCWants == [c \in Conn |->
  IF c \in Hasty THEN {"form", "chat"}
                 ELSE {"chat", "empty", "bad_version", "no_length", "negative_length"}]
=============================================================================
