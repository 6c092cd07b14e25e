------------------------------ MODULE MCConnection ------------------------------
(***************************************************************************)
(* Connection on a small instance: on a connection the server writes at    *)
(* most two packets, a chunk, one that is longer than MAX_PAYLOAD_SIZE, an *)
(* acknowledgement or an error, and the client two; for the layout, every  *)
(* type of packet with texts of 0, 1 and 3 bytes, and of 5, more than      *)
(* LenMod.                                                                 *)
(***************************************************************************)
EXTENDS Connection

MCServerPackets ==
  {<<"FILE_CHUNK_ACK", 0, <<0, 0>>>>, <<"FILE_CHUNK", 0, <<5, 0>>>>,
   <<"FILE_CHUNK", 0, <<6, 0>>>>, <<"ERR_PACKET", 0, <<3, 0>>>>}
=============================================================================
