CONSTANTS
  QueueSize = 2
  MaxPush = 4
  ErrorCode <- MCDeviceErrorCode
  EventMask <- MCEventMask
  RequestMask <- MCRequestMask
  DeviceBit = {"b0"}
SPECIFICATION ErrorsSpec
PROPERTIES
  DeviceErrorSetsDer
