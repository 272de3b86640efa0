----------------------------- MODULE MC_RecvQueue -----------------------------
(* "ir receive" and "fs20 receive": records of 5 and 9 characters, a      *)
(* queue of 4 (RC5_QUEUE_LENGTH is 10 and the fs20 queue's length is not  *)
(* in src/; 4 already lets the queue fill while records are dropped for   *)
(* lack of room), and capacities that fit 0, 1, 3, 4, 5 and 7 records of *)
(* 5 characters and 0, 1, 2 and 4 of 9, so a call writes all of the      *)
(* queue, part of it, or nothing; 300 exceeds what the uint8_t loop test  *)
(* can compare against, so the test is always true.                       *)
EXTENDS RecvQueue

MCRecLens == {IrRecLen, Fs20RecLen}

MCLens == {5, 6, 10, 16, 21, 26, 37, 300}
=============================================================================
