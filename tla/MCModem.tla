------------------------------ MODULE MCModem -------------------------------
(* Modem with the numbers of the code.                                      *)
EXTENDS Modem

\* baudrate[] of init_fixbaud
BaudRates == <<1200, 2400, 4800, 9600, 19200, 38400, 57600, 115200>>
=============================================================================
