-------------------------------- MODULE MCSyscall ------------------------------
(* A host with a directory whose name begins with that of another, and a        *)
(* program one of whose arguments is empty.                                     *)
EXTENDS Syscall

MCHostFds == 0..7
MCNumbers == {0, 3, RISCV_AT_FDCWD}
MCDirNumbers == {3, RISCV_AT_FDCWD}

MCDirs == {<<"/">>, <<"/", "a">>, <<"/", "a", "b">>, <<"/", "a", "/", "b">>}
MCNames == {<<"/", "a", "b">>, <<"b">>}
MCHomes == {<<"/", "a">>}
MCRoots == {<<"/">>, <<"/", "a">>}

MCArgLists == {<<<<"p", "q">>, <<>>, <<"r">>>>}

===============================================================================
