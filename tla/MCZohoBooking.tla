---------------------------- MODULE MCZohoBooking ----------------------------
\* Instances of ZohoBooking for TLC.
EXTENDS ZohoBooking
=============================================================================
