---------------------------- MODULE MCSensorControl ----------------------------
EXTENDS SensorControl
================================================================================
