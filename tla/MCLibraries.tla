----------------------------- MODULE MCLibraries -----------------------------
(***************************************************************************)
(* The libraries of util and util-src for TLC.  They share nothing, so a   *)
(* behaviour is about one of them: which names it, the others keep their   *)
(* initial state.  The state space is the sum, not the product, of theirs. *)
(***************************************************************************)
EXTENDS RingBuffer, SmQueue, ByteRing, Codec, ListStore, Crypto, Posix

CONSTANTS v1, v2
MCValue == {v1, v2}
MCByte == {0, 1}
MCChunk == UNION {[1..n -> MCByte] : n \in 1..3}
MCEntry == {1, 2}
MCBase64Bytes == {0, 3, 255}
MCUtf8Bytes == {0, 127, 128, 143, 144, 159, 160, 191, 193, 194, 224, 237, 239, 240, 244, 245, 248}
MCBitBytes == {0, 1, 128, 255}

VARIABLE which

(* Where a library has several initial states the others pin one of them.  *)
MCInit ==
  /\ which \in {"queue", "smqueue", "ringbuffer", "codec", "list", "crypto", "posix"}
  /\ new /\ (which # "queue" => ~allow_wrapping)
  /\ SmqInit
  /\ rb_new /\ (which # "ringbuffer" => \A p \in Index : buffer[p] = 0)
  /\ CodecInit /\ (which # "codec" => alg = "utf8")
  /\ ListInit
  /\ CryptoInit /\ (which # "crypto" => fn = "hash")
  /\ PosixInit /\ (which # "posix" =>
       /\ program = "prosody" /\ options = {} /\ sid[1] = 0 /\ ~orphan /\ uid = "root"
       /\ names = [user |-> "known", group |-> "known"])

MCNext ==
  /\ UNCHANGED which
  /\ \/ which = "queue" /\ RingNext
        /\ UNCHANGED <<smqVars, brVars, codecVars, listVars, cryptoVars, posixVars>>
     \/ which = "smqueue" /\ SmqNext
        /\ UNCHANGED <<ringVars, brVars, codecVars, listVars, cryptoVars, posixVars>>
     \/ which = "ringbuffer" /\ RingCalls
        /\ UNCHANGED <<ringVars, smqVars, codecVars, listVars, cryptoVars, posixVars>>
     \/ which = "codec" /\ CodecNext
        /\ UNCHANGED <<ringVars, smqVars, brVars, listVars, cryptoVars, posixVars>>
     \/ which = "list" /\ ListNext
        /\ UNCHANGED <<ringVars, smqVars, brVars, codecVars, cryptoVars, posixVars>>
     \/ which = "crypto" /\ CryptoNext
        /\ UNCHANGED <<ringVars, smqVars, brVars, codecVars, listVars, posixVars>>
     \/ which = "posix" /\ PosixNext
        /\ UNCHANGED <<ringVars, smqVars, brVars, codecVars, listVars, cryptoVars>>

MCSpec ==
  MCInit /\ [][MCNext]_<<which, ringVars, smqVars, brVars, codecVars, listVars, cryptoVars, posixVars>>
=============================================================================
