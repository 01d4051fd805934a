------------------------------ MODULE MCSensorLink -----------------------------
EXTENDS SensorLink
================================================================================
