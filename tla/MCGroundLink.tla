----------------------------- MODULE MCGroundLink -----------------------------
(* GroundLink with messages send_messages() sends, in its order: the longest,  *)
(* the first and the last.  RAW_IMU and SCALED_IMU differ from these in their  *)
(* lengths only, which lie between a heartbeat's and these.                    *)
EXTENDS GroundLink, TLC

Sends == {"SYS_STATUS", "HIGHRES_IMU", "ATTITUDE"}

Turns ==
  "SYS_STATUS" :> "HIGHRES_IMU" @@ "HIGHRES_IMU" :> "ATTITUDE" @@ "ATTITUDE" :> "SYS_STATUS"

\* The payloads' bytes, as in the generated headers.
PayloadBytes ==
  "HEARTBEAT" :> 9 @@ "PARAM_VALUE" :> 25 @@ "SYS_STATUS" :> 31 @@
  "HIGHRES_IMU" :> 62 @@ "ATTITUDE" :> 28
=============================================================================
