-------------------------- MODULE MCScanScheduler --------------------------
EXTENDS ScanScheduler

MCStartCallback == {"nothing"}
MCEndCallback == {"nothing", "stop"}
=============================================================================
