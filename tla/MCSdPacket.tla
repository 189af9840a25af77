----------------------------- MODULE MCSdPacket -----------------------------
EXTENDS SdPacket
=============================================================================
