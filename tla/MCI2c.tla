------------------------------- MODULE MCI2c -------------------------------
\* Constants for model checking I2c.
EXTENDS I2c

\* Clocks from 1 to 50 MHz, edges from none to what the standard allows, beyond
\* that, and beyond what the fields can hold (65536 cycles and 1 ns of the fastest
\* clock), periods the standard's and longer ones that do not divide.
ConfigSet ==
    [speed : {Standard, Fast, FastPlus}, clock : {20, 50, 65, 340, 1000},
     rise : {0, 120, 1000, 1310721}, fall : {0, 37, 300}, period : {0, 2501, 12000, 1400000}]
=============================================================================
